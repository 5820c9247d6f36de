----------------------------- MODULE MCChainVm -----------------------------
(***************************************************************************)
(* A chain of three blocks over the genesis block with a sibling at each   *)
(* of the first two heights, and two blocks that must not verify: one      *)
(* stamped before its parent, one that skips a height.                     *)
(***************************************************************************)
EXTENDS ChainVm, TLC

CONSTANTS g, a1, b1, a2, b2, a3, early, gap, none

MCIds == {g, a1, b1, a2, b2, a3, early, gap}

Row(p, h, t, m) == [parent |-> p, height |-> h, time |-> t, meta |-> m]

\* a2 is stamped in the same tick as its parent by a builder whose clock is a
\* little behind: it passes verify and does not advance the ledger clock.
Table ==
  (g :> Row(none, 0, 0, 0)) @@ (a1 :> Row(g, 1, 1, 3)) @@ (b1 :> Row(g, 1, 1, 2))
  @@ (a2 :> Row(a1, 2, 1, 2)) @@ (b2 :> Row(a1, 2, 2, 4)) @@ (a3 :> Row(a2, 3, 2, 5))
  @@ (early :> Row(a1, 2, 0, 1)) @@ (gap :> Row(g, 2, 1, 3))

MCParent == [b \in MCIds |-> Table[b].parent]
MCHeight == [b \in MCIds |-> Table[b].height]
MCTimestamp == [b \in MCIds |-> Table[b].time]
MCMetaTime == [b \in MCIds |-> Table[b].meta]
=============================================================================
