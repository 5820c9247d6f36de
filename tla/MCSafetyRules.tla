--------------------------- MODULE MCSafetyRules ---------------------------
(***************************************************************************)
(* SafetyRules with four validators of one vote each, one of them faulty    *)
(* and one with a store that fails.  The blocks:                            *)
(*                                                                          *)
(*      round 0    1    2    3    4                                         *)
(*            g -- a -- b -- c         b commits a, c commits b             *)
(*            `------------- c2 - e    c2 needs a timeout of round 2, e     *)
(*                                     commits c2                           *)
(***************************************************************************)
EXTENDS SafetyRules, TLC

CONSTANTS h1, h2, h3, z, g, a, b, c, c2, e

MCValidators == {h1, h2, h3, z}
MCPower == [v \in MCValidators |-> 1]
MCBlocks == {g, a, b, c, c2, e}
MCRoundOf == (g :> 0) @@ (a :> 1) @@ (b :> 2) @@ (c :> 3) @@ (c2 :> 3) @@ (e :> 4)
MCParentOf == (g :> g) @@ (a :> g) @@ (b :> a) @@ (c :> b) @@ (c2 :> g) @@ (e :> c2)
MCSymmetry == Permutations({h2, h3})
=============================================================================
