----------------------------- MODULE ParkingLot -----------------------------
(***************************************************************************)
(* ParkingLotIndex of mempool/src/core_mempool/index.rs: the transactions   *)
(* that are not ready, as a vector of accounts with their sequence numbers, *)
(* the position of each account in it, and a count.  Removing an account    *)
(* moves the last one of the vector into its place.  CoreMempool takes the  *)
(* index for a set of transactions; here it is shown to be one.             *)
(***************************************************************************)
EXTENDS Integers, FiniteSets, Sequences

CONSTANTS
  Senders,   \* the accounts
  Numbers    \* the sequence numbers of their transactions

ASSUME ParkingLotAssumption == IsFiniteSet(Senders) /\ IsFiniteSet(Numbers) /\ Numbers \subseteq Nat

VARIABLES
  data,      \* ParkingLotIndex.data
  indices,   \* ParkingLotIndex.account_indices
  size,      \* ParkingLotIndex.size
  evicted    \* what get_poppable returned last, or none

lotVars == <<data, indices, size, evicted>>

Entries == [account : Senders, seqs : SUBSET Numbers]

LotTypeOK ==
  /\ data \in Seq(Entries)
  /\ \E S \in SUBSET Senders : indices \in [S -> 1..Len(data)]
  /\ size \in Int
  /\ evicted \subseteq Senders \X Numbers

LotInit ==
  /\ data = <<>>
  /\ indices = [a \in {} |-> 0]
  /\ size = 0
  /\ evicted = {}

\* insert.  Its branch for a position outside data is never taken, by DataInvariants.
LotInsert(a, s) ==
  /\ IF a \in DOMAIN indices
     THEN LET i == indices[a] IN
          /\ data' = [data EXCEPT ![i].seqs = @ \cup {s}]
          /\ size' = IF s \in data[i].seqs THEN size ELSE size + 1
          /\ UNCHANGED indices
     ELSE /\ data' = Append(data, [account |-> a, seqs |-> {s}])
          /\ indices' = [b \in DOMAIN indices \cup {a} |->
                           IF b = a THEN Len(data) + 1 ELSE indices[b]]
          /\ size' = size + 1
  /\ UNCHANGED evicted

\* Mutant of SwapRemove: the account that was moved keeps its old position.
SwapRemoveKeepsIndex(i) ==
  LET n == Len(data) IN
  /\ data' = [j \in 1..(n - 1) |-> IF j = i THEN data[n] ELSE data[j]]
  /\ indices' = [b \in DOMAIN indices \ {data[i].account} |-> indices[b]]

\* swap_remove of the entry at i, and the new position of the one that fills its place.
SwapRemove(i) ==
  LET n == Len(data) IN
  /\ data' = [j \in 1..(n - 1) |-> IF j = i THEN data[n] ELSE data[j]]
  /\ indices' = [b \in DOMAIN indices \ {data[i].account} |->
                   IF i < n /\ b = data[n].account THEN i ELSE indices[b]]

\* Mutant of LotRemove: the count goes down although nothing was there.
LotRemoveAlwaysCounts(a, s) ==
  /\ a \in DOMAIN indices
  /\ LET i == indices[a]
         left == data[i].seqs \ {s}
     IN /\ size' = size - 1
        /\ IF left = {} THEN SwapRemove(i)
           ELSE data' = [data EXCEPT ![i].seqs = left] /\ UNCHANGED indices
  /\ UNCHANGED evicted

LotRemove(a, s) ==
  /\ a \in DOMAIN indices
  /\ LET i == indices[a]
         left == data[i].seqs \ {s}
     IN /\ size' = IF s \in data[i].seqs THEN size - 1 ELSE size
        /\ IF left = {} THEN SwapRemove(i)
           ELSE data' = [data EXCEPT ![i].seqs = left] /\ UNCHANGED indices
  /\ UNCHANGED evicted

\* get_poppable: an account at random, its highest sequence number.
GetPoppable ==
  /\ data # <<>>
  /\ \E i \in DOMAIN data : \E s \in data[i].seqs :
       /\ \A t \in data[i].seqs : t <= s
       /\ evicted' = {<<data[i].account, s>>}
  /\ UNCHANGED <<data, indices, size>>

LotNext ==
  \/ \E a \in Senders, s \in Numbers : LotInsert(a, s) \/ LotRemove(a, s)
  \/ GetPoppable

LotSpec == LotInit /\ [][LotNext]_lotVars

-----------------------------------------------------------------------------

\* "For each entry (account, txns) in data, txns is never empty", and "for all
\* accounts, data.get(account_indices.get(account)) == (account, sequence numbers of
\* account's txns)": after any mix of insertions and swap_removes, every account is in
\* the vector once, at the position account_indices has for it.
DataInvariants ==
  /\ \A i \in DOMAIN data :
       /\ data[i].seqs # {}
       /\ data[i].account \in DOMAIN indices /\ indices[data[i].account] = i
  /\ \A a \in DOMAIN indices : data[indices[a]].account = a

LotContains(a, s) == a \in DOMAIN indices /\ s \in data[indices[a]].seqs

Parked == {p \in Senders \X Numbers : LotContains(p[1], p[2])}

Set == INSTANCE ParkedSet
         WITH Accounts <- Senders, Seqs <- Numbers, parked <- Parked, count <- size

\* Seen through contains, size and get_poppable, the index is a set of transactions:
\* an insertion or a removal changes one transaction's membership and no other's, the
\* count is exact, and what is offered for eviction is in the set and the last of its
\* account.
IsASet == Set!Spec
=============================================================================
