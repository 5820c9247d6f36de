---------------------------- MODULE CoreMempool ----------------------------
(***************************************************************************)
(* The core mempool of mempool/src/core_mempool: one store of transactions *)
(* with the indexes TransactionStore keeps beside it, and the calls that   *)
(* change them.  A call is one step, as every caller holds the mempool's   *)
(* lock.                                                                    *)
(*                                                                          *)
(* A transaction is named by its sender and sequence number; of its content *)
(* only the gas price matters.  Indexes are sets of these names: the order  *)
(* inside an index (by score, by age) is left out, and where it decides     *)
(* which transaction is taken, any may be.                                  *)
(***************************************************************************)
EXTENDS Integers, FiniteSets

CONSTANTS
  Accounts,   \* senders
  MaxSeq,     \* bound on sequence numbers
  MaxGas,     \* bound on gas prices
  BigSeqs,    \* transactions with these sequence numbers count twice in size_bytes
  Capacity,   \* MempoolConfig.capacity
  CapacityBytes, \* MempoolConfig.capacity_bytes
  PerUser     \* MempoolConfig.capacity_per_user

ASSUME MempoolAssumption ==
  /\ IsFiniteSet(Accounts)
  /\ MaxSeq \in Nat /\ MaxGas \in Nat
  /\ Capacity \in Nat /\ CapacityBytes \in Nat /\ PerUser \in Nat \ {0}

VARIABLE store

vars == <<store>>

Seqs == 0..MaxSeq
Gases == 0..MaxGas
Pointers == Accounts \X Seqs
Absent == [gas |-> -1, state |-> "Absent"]
NoSeq == -1
States == {"NotReady", "Ready", "NonQualified"}

\* TransactionStore: the main map, sequence_numbers, the two TTL indexes (which
\* change together), the priority index, the timeline index, the parking lot, the
\* hash index, size_bytes, gas_upgraded_index.
Stores ==
  [txns : [Pointers -> [gas : Gases, state : States] \cup {Absent}],
   seqNums : [Accounts -> Nat \cup {NoSeq}],
   ttl : SUBSET Pointers, priority : SUBSET Pointers, timeline : SUBSET Pointers,
   parking : SUBSET Pointers, hashes : SUBSET (Pointers \X Gases),
   size : Int, upgraded : SUBSET Pointers]

TypeOK == store \in Stores

Init ==
  store = [txns |-> [p \in Pointers |-> Absent], seqNums |-> [a \in Accounts |-> NoSeq],
           ttl |-> {}, priority |-> {}, timeline |-> {}, parking |-> {},
           hashes |-> {}, size |-> 0, upgraded |-> {}]

Present(m) == {p \in Pointers : m.txns[p] # Absent}
OfAccount(m, a) == {p \in Present(m) : p[1] = a}
Bytes(S) == Cardinality(S) + Cardinality({p \in S : p[2] \in BigSeqs})
InTimeline(m) == {p \in Present(m) : m.txns[p].state = "Ready"}

-----------------------------------------------------------------------------
(* TransactionStore's helpers, as functions from a store to a store. *)

\* Mutant of RemoveAll: the hash index keeps its entry.
RemoveAllKeepsHash(m, S) ==
  LET left == Present(m) \ S
      emptied == {a \in Accounts : (\E p \in S : p[1] = a) /\ ~\E p \in left : p[1] = a}
  IN [m EXCEPT !.txns = [p \in Pointers |-> IF p \in S THEN Absent ELSE m.txns[p]],
               !.seqNums = [a \in Accounts |-> IF a \in emptied THEN NoSeq ELSE m.seqNums[a]],
               !.ttl = @ \ S, !.priority = @ \ S, !.timeline = @ \ (S \cap InTimeline(m)),
               !.parking = @ \ S, !.size = @ - Bytes(S), !.upgraded = @ \ S]

\* index_remove for each transaction of S, with its removal from the main map: an
\* account without transactions loses its sequence number as well.
RemoveAll(m, S) ==
  LET left == Present(m) \ S
      emptied == {a \in Accounts : (\E p \in S : p[1] = a) /\ ~\E p \in left : p[1] = a}
  IN [m EXCEPT !.txns = [p \in Pointers |-> IF p \in S THEN Absent ELSE m.txns[p]],
               !.seqNums = [a \in Accounts |-> IF a \in emptied THEN NoSeq ELSE m.seqNums[a]],
               !.ttl = @ \ S, !.priority = @ \ S, !.timeline = @ \ (S \cap InTimeline(m)),
               !.parking = @ \ S, !.hashes = @ \ {<<p, m.txns[p].gas>> : p \in S},
               !.size = @ - Bytes(S), !.upgraded = @ \ S]

\* clean_committed_transactions: everything of the account below seq.
CleanCommitted(m, a, seq) == RemoveAll(m, {p \in OfAccount(m, a) : p[2] < seq})

\* The account's pooled transactions that follow each other from seq on.
ReadyRun(m, a, seq) ==
  {p \in OfAccount(m, a) : seq <= p[2] /\ \A k \in seq..p[2] : m.txns[<<a, k>>] # Absent}

\* Mutant of ProcessReady: what is not sequential is not parked.
ProcessReadyNoParking(m, a, seq) ==
  LET run == ReadyRun(m, a, seq)
      promoted == {p \in run : m.txns[p].state = "NotReady"}
  IN [m EXCEPT !.txns = [p \in Pointers |-> IF p \in promoted
                                            THEN [m.txns[p] EXCEPT !.state = "Ready"]
                                            ELSE m.txns[p]],
               !.priority = @ \cup run, !.timeline = @ \cup promoted,
               !.parking = @ \ run]

\* process_ready_transactions: the run goes into the priority index and, unless
\* it never qualifies, into the timeline; what lies beyond is parked unless it is
\* already on the timeline.
ProcessReady(m, a, seq) ==
  LET run == ReadyRun(m, a, seq)
      promoted == {p \in run : m.txns[p].state = "NotReady"}
      beyond == {p \in OfAccount(m, a) \ run : seq <= p[2] /\ m.txns[p].state # "Ready"}
  IN [m EXCEPT !.txns = [p \in Pointers |-> IF p \in promoted
                                            THEN [m.txns[p] EXCEPT !.state = "Ready"]
                                            ELSE m.txns[p]],
               !.priority = @ \cup run, !.timeline = @ \cup promoted,
               !.parking = (@ \ run) \cup beyond]

IsFull(m) == Cardinality(m.ttl) >= Capacity \/ m.size >= CapacityBytes

\* check_txn_ready, before the transaction is inserted.
CheckTxnReady(m, p, acc) ==
  \/ p[2] = acc
  \/ <<p[1], p[2] - 1>> \in InTimeline(m)

\* get_poppable: the highest parked transaction of some account.
Poppable(m) == {p \in m.parking : \A q \in m.parking : q[1] = p[1] => q[2] <= p[2]}

\* check_is_full_after_eviction: a full mempool gives up a parked transaction for
\* one that would be ready.
AfterEviction(m, p, acc) ==
  IF IsFull(m) /\ CheckTxnReady(m, p, acc) /\ m.parking # {}
  THEN {RemoveAll(m, {q} \cap Present(m)) : q \in Poppable(m)}
  ELSE {m}

\* Mutant of Put: the TTL indexes file the transaction under the next sequence number.
PutShiftsTtl(m, p, gas, acc, state) ==
  [m EXCEPT !.txns[p] = [gas |-> gas, state |-> state], !.seqNums[p[1]] = acc,
            !.ttl = @ \cup {<<p[1], p[2] + 1>>}, !.hashes = @ \cup {<<p, gas>>},
            !.size = @ + Bytes({p})]

\* Mutant of Put: size_bytes is not increased.
PutNoSize(m, p, gas, acc, state) ==
  [m EXCEPT !.txns[p] = [gas |-> gas, state |-> state], !.seqNums[p[1]] = acc,
            !.ttl = @ \cup {p}, !.hashes = @ \cup {<<p, gas>>}]

\* The inserting half of insert: storage, indexes, sequence number.
Put(m, p, gas, acc, state) ==
  [m EXCEPT !.txns[p] = [gas |-> gas, state |-> state], !.seqNums[p[1]] = acc,
            !.ttl = @ \cup {p}, !.hashes = @ \cup {<<p, gas>>}, !.size = @ + Bytes({p})]

\* A sequence number below the account's, the same transaction again and a lower
\* gas price are refused without a change.
Refused(m, p, gas, acc) == acc > p[2] \/ (m.txns[p] # Absent /\ m.txns[p].gas >= gas)

\* Mutant of Inserted: nobody looks whether the mempool is full.
InsertedUnlimited(m, p, gas, acc, state) ==
  {ProcessReady(Put(CleanCommitted(RemoveAll(m, {p} \cap Present(m)), p[1], acc),
                    p, gas, acc, state), p[1], acc)}

\* add_txn and insert, past the refusals.  A higher gas price takes the old version
\* out before the capacity is looked at.
Inserted(m, p, gas, acc, state) ==
  LET upgrade == m.txns[p] # Absent
      taken == IF upgrade THEN RemoveAll(m, {p}) ELSE m
      Outcome(e) ==
        LET clean == CleanCommitted(e, p[1], acc)
            put == Put(clean, p, gas, acc, state)
            marked == IF upgrade THEN [put EXCEPT !.upgraded = @ \cup {p}] ELSE put
        IN IF IsFull(e) THEN e
           ELSE IF Cardinality(OfAccount(clean, p[1])) >= PerUser THEN clean
           ELSE ProcessReady(marked, p[1], acc)
  IN {Outcome(e) : e \in AfterEviction(taken, p, acc)}

\* Mutant of Committed: the committed transaction itself stays.
CommittedShort(m, a, seq) ==
  LET new == IF m.seqNums[a] > seq + 1 THEN m.seqNums[a] ELSE seq + 1
  IN ProcessReady(CleanCommitted([m EXCEPT !.seqNums[a] = new], a, seq), a, new)

\* Mutant of Committed: process_ready_transactions is not called.
CommittedNoPromotion(m, a, seq) ==
  LET new == IF m.seqNums[a] > seq + 1 THEN m.seqNums[a] ELSE seq + 1
  IN CleanCommitted([m EXCEPT !.seqNums[a] = new], a, new)

\* commit_transaction: the account moves on to the next sequence number, and not
\* back.
Committed(m, a, seq) ==
  LET new == IF m.seqNums[a] > seq + 1 THEN m.seqNums[a] ELSE seq + 1
  IN ProcessReady(CleanCommitted([m EXCEPT !.seqNums[a] = new], a, new), a, new)

-----------------------------------------------------------------------------
(* The calls. *)

AddTxn(p, gas, acc, state) ==
  /\ ~Refused(store, p, gas, acc)
  /\ store' \in Inserted(store, p, gas, acc, state)

CommitTransaction(a, seq) == store' = Committed(store, a, seq)

\* reject_transaction finds its transaction by hash and looks at no other.
RejectTransaction(p, gas) ==
  /\ <<p, gas>> \in store.hashes
  /\ store' = RemoveAll(store, {p} \cap Present(store))

\* gc: the expired transactions go, and what follows one of them in its account
\* is parked and no longer ready.
Gc(expired) ==
  /\ expired # {}
  /\ LET parked == {p \in Present(store) \ expired :
                      \E e \in expired : e[1] = p[1] /\ e[2] < p[2]}
         unready == parked \cap InTimeline(store)
         m == [store EXCEPT !.txns = [p \in Pointers |-> IF p \in unready
                                        THEN [store.txns[p] EXCEPT !.state = "NotReady"]
                                        ELSE store.txns[p]],
                            !.priority = @ \ parked, !.timeline = @ \ unready,
                            !.parking = @ \cup parked]
     IN store' = RemoveAll(m, expired \cap Present(m))

Next ==
  \/ \E p \in Pointers, gas \in Gases, acc \in Seqs, state \in {"NotReady", "NonQualified"} :
       AddTxn(p, gas, acc, state)
  \/ \E a \in Accounts, seq \in Seqs : CommitTransaction(a, seq)
  \/ \E p \in Pointers, gas \in Gases : RejectTransaction(p, gas)
  \/ \E expired \in SUBSET store.ttl : Gc(expired)

Spec == Init /\ [][Next]_vars

-----------------------------------------------------------------------------
(* What every call preserves. *)

\* The indexes describe the store: each is about pooled transactions only, the TTL
\* indexes and the hash index about all of them, with the gas price of the version
\* that is pooled, and the timeline about those marked ready, which are all in the
\* priority index.  A leftover entry would count against the capacity forever.
Coherent(m) ==
  /\ m.ttl = Present(m)
  /\ m.hashes = {<<p, m.txns[p].gas>> : p \in Present(m)}
  /\ m.priority \cup m.parking \cup m.upgraded \subseteq Present(m)
  /\ m.timeline = InTimeline(m)
  /\ m.timeline \subseteq m.priority

\* The indexes stay coherent through every insertion, gas upgrade, eviction, commit,
\* rejection and expiry.
IndexesAgree == Coherent(store)

\* size_bytes follows the main map through every insertion and removal: it is
\* never decremented below what is there.
SizeIsExact == store.size = Bytes(Present(store))

\* No transaction is stranded: what is pooled can be pulled into a block or
\* evicted from the parking lot.  And an eviction never takes one that has been
\* broadcast as ready: what is on the timeline is not parked.
NothingStranded ==
  /\ Present(store) \subseteq store.priority \cup store.parking
  /\ store.parking \cap store.timeline = {}

\* An account with pooled transactions has a sequence number, and none of them is
\* below it.
NoStalePending ==
  \A p \in Present(store) : store.seqNums[p[1]] # NoSeq /\ store.seqNums[p[1]] <= p[2]

\* An account's next transaction, once pooled, is in the priority index after any
\* mix of insertions out of order, commits, rejections, evictions and expiries:
\* get_batch can always start with it.
NextIsReady ==
  \A p \in Present(store) : p[2] = store.seqNums[p[1]] => p \in store.priority

\* The limits hold whatever is upgraded, evicted or re-inserted; the one on bytes
\* is overrun by less than one transaction.
WithinCapacity ==
  /\ Cardinality(Present(store)) <= Capacity
  /\ store.size <= CapacityBytes + 1
  /\ \A a \in Accounts : Cardinality(OfAccount(store, a)) <= PerUser
=============================================================================
