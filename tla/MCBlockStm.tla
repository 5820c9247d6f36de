----------------------------- MODULE MCBlockStm -----------------------------
(***************************************************************************)
(* BlockStm on small blocks, with a coordinator and one worker, or two for  *)
(* the block that is about their commit hooks.                              *)
(***************************************************************************)
EXTENDS BlockStm, TLC

CONSTANTS x, y, m, w0, w1, w2

MCWorkers(b) == IF b = "hooks" THEN <<w1, w2>> ELSE <<w1>>

Out(s, w, d) == [status |-> s, writes |-> w, deltas |-> d]
Writes(w) == Out("Success", w, <<>>)
Adds(d) == Out("Success", <<>>, d)

\* "chain": each transaction reads what the one before writes, and the second writes
\* another key when it has not seen the first.  "skip": the first ends the block; "gas": it
\* uses up the block's gas; "both": it does both.  "sum": two add to x and the third reads
\* it.  "publish": the first publishes a module that the second reads.  "long": the second
\* writes what it reads of the first, unless that is nothing.  "hooks": both add to x.
MCSize(b) == CASE b \in {"publish", "gas", "both", "hooks"} -> 2 [] b = "long" -> 4 [] OTHER -> 3

MCReads(b, t) ==
  CASE t = 0 \/ (b \in {"sum", "hooks"} /\ t = 1) \/ (b = "long" /\ t > 1) -> <<>>
    [] b = "publish" -> <<m, x>>
    [] b = "chain" /\ t = 2 -> <<y>>
    [] OTHER -> <<x>>

\* What a transaction writes tells which values it has read.
Sum(vals) == IF vals = <<>> THEN 0 ELSE vals[1] + vals[Len(vals)]

MCOutput(b, t, vals) ==
  CASE b = "publish" /\ t = 0 -> Writes((m :> 1) @@ (x :> 1))
    [] b = "hooks" -> Adds(x :> t + 1)
    [] b = "sum" -> IF t = 2 THEN Writes(y :> vals[1]) ELSE Adds(x :> t + 1)
    [] b \in {"skip", "both"} /\ t = 0 -> Out("SkipRest", (x :> 1), <<>>)
    [] b = "chain" /\ t = 1 -> Writes(IF vals[1] = 0 THEN (y :> 2) ELSE (x :> 2))
    [] b = "long" /\ t > 0 -> Writes(IF Sum(vals) = 0 THEN <<>> ELSE (y :> 1))
    [] OTHER -> Writes(x :> t + 1 + Sum(vals))

MCGas(b, t) == 1
MCGasLimit(b) == IF b \in {"gas", "both"} THEN 1 ELSE -1
=============================================================================
