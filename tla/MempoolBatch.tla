---------------------------- MODULE MempoolBatch ----------------------------
(***************************************************************************)
(* get_batch of mempool/src/core_mempool/mempool.rs: the transactions pulled *)
(* for the next block, as a function of the store, evaluated in every state *)
(* CoreMempool reaches.  The priority index is walked in some order; which  *)
(* one depends on scores and ages, so every order is tried.                 *)
(***************************************************************************)
EXTENDS CoreMempool, SequencesExt

CONSTANTS
  MaxTxns,   \* get_batch is tried with every max_txns in 1..MaxTxns
  MaxBytes   \* max_bytes

\* Transactions already in consensus, each with the gas price it went with, less
\* the ones whose gas was raised since.
SeenAtFirst(exclude, includeUpgraded) ==
  {p \in DOMAIN exclude :
     ~(includeUpgraded /\ p \in store.upgraded /\ store.txns[p].gas > exclude[p])}

\* How many skipped transactions follow p without a gap.
Follow(skipped, p) ==
  Cardinality({k \in Seqs : p[2] < k /\ \A j \in (p[2] + 1)..k : <<p[1], j>> \in skipped})

\* Mutant of Walk: a skipped transaction is not looked at again.
WalkNoRecheck(walk, p, max) ==
  IF Len(walk.result) = max \/ p \in walk.seen THEN walk
  ELSE IF <<p[1], p[2] - 1>> \in walk.seen \/ store.seqNums[p[1]] = p[2]
       THEN [walk EXCEPT !.result = Append(@, p), !.seen = @ \cup {p}]
       ELSE [walk EXCEPT !.skipped = @ \cup {p}]

\* Mutant of Walk: a transaction is taken without its predecessor.
WalkTakesAll(walk, p, max) ==
  IF Len(walk.result) = max \/ p \in walk.seen THEN walk
  ELSE [walk EXCEPT !.result = Append(@, p), !.seen = @ \cup {p}]

\* One round of the main loop: p is taken if it is next for its account or its
\* predecessor has been seen, and then so are the skipped ones right behind it.
Walk(walk, p, max) ==
  IF Len(walk.result) = max \/ p \in walk.seen THEN walk
  ELSE IF <<p[1], p[2] - 1>> \in walk.seen \/ store.seqNums[p[1]] = p[2]
       THEN LET behind == [i \in 1..Follow(walk.skipped, p) |-> <<p[1], p[2] + i>>]
                all == Append(walk.result, p) \o behind
                result == SubSeq(all, 1, Min({max, Len(all)}))
            IN [walk EXCEPT !.result = result, !.seen = @ \cup ToSet(result)]
       ELSE [walk EXCEPT !.skipped = @ \cup {p}]

\* The whole call, for a walk in the given order.
GetBatch(order, exclude, includeUpgraded, returnNonFull, max) ==
  LET start == [result |-> <<>>, seen |-> SeenAtFirst(exclude, includeUpgraded), skipped |-> {}]
      result == FoldLeft(LAMBDA walk, p : Walk(walk, p, max), start, order).result
      fitting == {n \in 0..Len(result) : Bytes(ToSet(SubSeq(result, 1, n))) <= MaxBytes}
      block == SubSeq(result, 1, Max(fitting))
  IN IF ~returnNonFull /\ Len(block) = Len(result) /\ Len(block) < max THEN <<>> ELSE block

-----------------------------------------------------------------------------

\* The transactions that may be in consensus when a batch is pulled, some with the
\* gas price they had before an upgrade.  A transaction that went with the highest
\* price is seen at first whether or not upgraded ones are included, so with these
\* functions one value of include_gas_upgraded covers both.
Excludes == UNION {[S -> Gases] : S \in SUBSET store.priority}

\* A block can be executed in its order: each transaction is its account's next, or
\* its predecessor went before, in this block or in one still in consensus.  It
\* holds none twice and none that is in consensus at the same gas price.
BatchIsExecutable ==
  \A order \in SetToSeqs(store.priority), exclude \in Excludes, max \in 1..MaxTxns :
    LET block == GetBatch(order, exclude, TRUE, TRUE, max)
    IN \A i \in DOMAIN block :
         LET p == block[i] IN
         /\ p \in Present(store) /\ p \notin SeenAtFirst(exclude, TRUE)
         /\ \A j \in DOMAIN block : block[j] = p => j = i
         /\ \/ p[2] = store.seqNums[p[1]]
            \/ <<p[1], p[2] - 1>> \in SeenAtFirst(exclude, TRUE)
            \/ \E j \in 1..(i - 1) : block[j] = <<p[1], p[2] - 1>>

\* A block leaves nothing behind it had room for: if neither limit was met, every
\* ready transaction that is not in consensus and whose predecessor is settled has
\* been pulled, whatever the order of the walk.  Upgraded ones are not included, so
\* the gas prices in consensus do not matter.
BatchIsComplete ==
  \A order \in SetToSeqs(store.priority), inConsensus \in SUBSET store.priority :
    LET block == GetBatch(order, [p \in inConsensus |-> 0], FALSE, TRUE, MaxTxns)
        settled == ToSet(block) \cup inConsensus
    IN Len(block) < MaxTxns /\ Bytes(store.priority) <= MaxBytes =>
         \A p \in store.priority \ settled :
           p[2] # store.seqNums[p[1]] /\ <<p[1], p[2] - 1>> \notin settled
=============================================================================
