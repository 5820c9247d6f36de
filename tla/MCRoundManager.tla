--------------------------- MODULE MCRoundManager ---------------------------
(***************************************************************************)
(* RoundManager with a validator of two votes and two of one: the quorum is *)
(* three votes, and one third is passed by two.  The third validator acts   *)
(* in round 1 only, gets no messages and is heard by the first alone, so    *)
(* certificates of two rounds and stopped leaders are met.                  *)
(* A block is a number with a digit to the base of four for each round of   *)
(* its chain: one for the nil block, two for the leader's proposal, three   *)
(* for the one it makes after a restart, and zero when the chain has no     *)
(* block of that round.  Genesis is zero.                                   *)
(***************************************************************************)
EXTENDS RoundManager

CONSTANTS a, b, c

MCValidators == {a, b, c}
MCPower == [v \in MCValidators |-> IF v = a THEN 2 ELSE 1]
MCLinks == {<<a, a>>, <<a, b>>, <<b, a>>, <<b, b>>, <<c, a>>}
MCLastRound == [v \in MCValidators |-> IF v = c THEN 1 ELSE 3]
MCLeader == <<a, b, c, a>>

MCBlockOf(round, parent, kind) == parent + (kind + 2) * 4^(round - 1)
MCLast(x) == IF x = 0 THEN 0 ELSE IF x < 4 THEN 1 ELSE IF x < 16 THEN 2 ELSE 3
MCRoundOf == [x \in 0..63 |-> MCLast(x)]
MCParentOf == [x \in 0..63 |-> IF x < 4 THEN 0 ELSE IF x < 16 THEN x % 4 ELSE x % 16]
=============================================================================
