---------------------------- MODULE MCBlockTree ----------------------------
(* BlockTree with three blocks, two of one size, one of them ending an epoch. *)
EXTENDS BlockTree, TLC

CONSTANTS b1, b2, b3

MCBlocks == {b1, b2, b3}
MCSize == (b1 :> 1) @@ (b2 :> 1) @@ (b3 :> 2)
MCReconfig == {b2}
=============================================================================
