--------------------------- MODULE MempoolProofs ---------------------------
(***************************************************************************)
(* The pool of the node: what it keeps (CoreMempool), how it indexes what   *)
(* is not ready (ParkingLot), and how what it has gets into a block         *)
(* (Wakeup).  The three specifications are independent of each other and    *)
(* are proved one after the other, each for every value of its constants.   *)
(***************************************************************************)
EXTENDS CoreMempool, ParkingLot, Wakeup, FiniteSetTheorems, SequenceTheorems, TLAPS

-----------------------------------------------------------------------------
(* ParkingLot: ParkingLotIndex implements a set of transactions, for every   *)
(* set of accounts and of sequence numbers.  The vector and the positions    *)
(* must agree before an insertion or a removal can be said to change one     *)
(* transaction only, and the count must be exact before it can be said to    *)
(* stay so: the inductive invariant is the three together.                   *)

\* The type invariant, the struct's own data invariants, and the exact count.
LotInv == LotTypeOK /\ DataInvariants /\ size = Cardinality(Parked)

\* What the provers use of the type invariant.
LEMMA Positions ==
  ASSUME LotTypeOK
  PROVE  /\ Len(data) \in Nat /\ DOMAIN data = 1..Len(data)
         /\ \A j \in 1..Len(data) : /\ data[j] \in Entries /\ data[j].account \in Senders
                                    /\ data[j].seqs \in SUBSET Numbers
         /\ DOMAIN indices \subseteq Senders
         /\ \A a \in DOMAIN indices : indices[a] \in 1..Len(data)
<1>1. data \in Seq(Entries)
  BY Zenon DEF LotTypeOK
<1>2. PICK S \in SUBSET Senders : indices \in [S -> 1..Len(data)]
  BY Zenon DEF LotTypeOK
<1>3. Len(data) \in Nat /\ DOMAIN data = 1..Len(data)
  BY <1>1
<1>4. \A j \in 1..Len(data) : data[j] \in Entries
  BY <1>1
<1>5. \A e \in Entries : e.account \in Senders /\ e.seqs \in SUBSET Numbers
  BY Zenon DEF Entries
<1>6. DOMAIN indices = S /\ \A a \in S : indices[a] \in 1..Len(data)
  BY <1>2, Zenon
<1> QED BY <1>3, <1>4, <1>5, <1>6, Zenon

\* A function on 1..n is a sequence of length n.
LEMMA Vector ==
  ASSUME NEW S, NEW n \in Nat, NEW f \in [1..n -> S]
  PROVE  f \in Seq(S) /\ Len(f) = n /\ DOMAIN f = 1..n
<1>1. f \in Seq(S)
  BY SeqDef, Zenon
<1> QED BY <1>1, LenProperties

LEMMA ParkedFinite ==
  ASSUME NEW S \in SUBSET (Senders \X Numbers)
  PROVE  IsFiniteSet(S) /\ Cardinality(S) \in Nat
<1>1. IsFiniteSet(Senders \X Numbers)
  BY ParkingLotAssumption, FS_Product, Zenon
<1>2. IsFiniteSet(S)
  BY <1>1, FS_Subset, Zenon
<1> QED BY <1>2, FS_CardinalityType, Zenon

LEMMA CountAdded ==
  ASSUME NEW S \in SUBSET (Senders \X Numbers), NEW p \in Senders \X Numbers, p \notin S
  PROVE  Cardinality(S \cup {p}) = Cardinality(S) + 1
BY ParkedFinite, FS_AddElement, Zenon

LEMMA CountRemoved ==
  ASSUME NEW S \in SUBSET (Senders \X Numbers), NEW p \in S
  PROVE  Cardinality(S \ {p}) = Cardinality(S) - 1
BY ParkedFinite, FS_RemoveElement, Zenon

-----------------------------------------------------------------------------
(* The three ways the vector changes. *)

\* One account's sequence numbers are replaced by others, at least one.
LEMMA Replaced ==
  ASSUME LotTypeOK, DataInvariants,
         NEW a \in DOMAIN indices, NEW new \in SUBSET Numbers, new # {},
         data' = [data EXCEPT ![indices[a]].seqs = new], UNCHANGED indices
  PROVE  /\ data' \in Seq(Entries) /\ Len(data') = Len(data)
         /\ DataInvariants'
         /\ \A b, t : LotContains(b, t)' <=> IF b = a THEN t \in new ELSE LotContains(b, t)
<1> DEFINE i == indices[a]
<1>1. /\ i \in 1..Len(data) /\ DOMAIN data = 1..Len(data) /\ Len(data) \in Nat
      /\ data[i].account = a /\ a \in Senders
      /\ \A j \in 1..Len(data) : /\ data[j] \in Entries /\ data[j].account \in Senders
                                 /\ data[j].seqs \in SUBSET Numbers
  BY Positions, Zenon DEF DataInvariants
<1>2. data \in Seq(Entries)
  BY Zenon DEF LotTypeOK
<1>3. data' = [j \in 1..Len(data) |-> IF j = i THEN [account |-> a, seqs |-> new] ELSE data[j]]
  <2>1. [data[i] EXCEPT !.seqs = new] = [account |-> a, seqs |-> new]
    BY <1>1, SMTT(30) DEF Entries
  <2> QED BY <1>1, <1>2, <2>1, ZenonT(40)
<1> HIDE DEF i
<1>4. [account |-> a, seqs |-> new] \in Entries
  BY <1>1, Zenon DEF Entries
<1>5. data' \in Seq(Entries) /\ Len(data') = Len(data) /\ DOMAIN data' = 1..Len(data)
  <2>1. data' \in [1..Len(data) -> Entries]
    BY <1>1, <1>3, <1>4, Zenon
  <2> QED BY <1>1, <2>1, Vector, SMTT(30)
<1>6. \A j \in 1..Len(data) : /\ data'[j].account = data[j].account
                              /\ data'[j].seqs = IF j = i THEN new ELSE data[j].seqs
  <2> SUFFICES ASSUME NEW j \in 1..Len(data)
               PROVE  /\ data'[j].account = data[j].account
                      /\ data'[j].seqs = IF j = i THEN new ELSE data[j].seqs
    OBVIOUS
  <2>1. CASE j = i
    BY <1>1, <1>3, <2>1, SMTT(30)
  <2>2. CASE j # i
    BY <1>3, <2>2, Zenon
  <2> QED BY <2>1, <2>2, Zenon
<1>7. \A b \in DOMAIN indices : indices[b] \in 1..Len(data) /\ (indices[b] = i => b = a)
  BY <1>1, Positions, ZenonT(40) DEF DataInvariants
<1>8. DataInvariants'
  BY <1>1, <1>5, <1>6, <1>7, SMTT(30) DEF DataInvariants
<1>9. ASSUME NEW b, NEW t
      PROVE  LotContains(b, t)' <=> IF b = a THEN t \in new ELSE LotContains(b, t)
  BY <1>1, <1>6, <1>7, SMTT(30) DEF LotContains, i
<1> QED BY <1>5, <1>8, <1>9, Zenon

\* An account the index does not have is added at the end.
LEMMA Appended ==
  ASSUME LotTypeOK, DataInvariants,
         NEW a \in Senders, a \notin DOMAIN indices, NEW s \in Numbers,
         data' = Append(data, [account |-> a, seqs |-> {s}]),
         indices' = [b \in DOMAIN indices \cup {a} |->
                       IF b = a THEN Len(data) + 1 ELSE indices[b]]
  PROVE  /\ data' \in Seq(Entries)
         /\ indices' \in [DOMAIN indices \cup {a} -> 1..Len(data')]
         /\ DataInvariants'
         /\ \A b, t : LotContains(b, t)' <=> (b = a /\ t = s) \/ LotContains(b, t)
<1> DEFINE n == Len(data)
           e == [account |-> a, seqs |-> {s}]
<1>1. /\ n \in Nat /\ DOMAIN data = 1..n
      /\ \A j \in 1..n : data[j].account \in DOMAIN indices
      /\ \A b \in DOMAIN indices : indices[b] \in 1..n
  BY Positions, Zenon DEF DataInvariants
<1>2. data \in Seq(Entries) /\ e \in Entries
  BY Zenon DEF LotTypeOK, Entries
<1>3. e.account = a /\ e.seqs = {s}
  OBVIOUS
<1> HIDE DEF n, e
<1>4. /\ data' \in Seq(Entries) /\ Len(data') = n + 1 /\ DOMAIN data' = 1..(n + 1)
      /\ data'[n + 1] = e /\ \A j \in 1..n : data'[j] = data[j]
  BY <1>1, <1>2, AppendProperties, SMTT(30) DEF n, e
<1>5. /\ DOMAIN indices' = DOMAIN indices \cup {a} /\ indices'[a] = n + 1
      /\ \A b \in DOMAIN indices : indices'[b] = indices[b]
  BY Zenon DEF n
<1>6. indices' \in [DOMAIN indices \cup {a} -> 1..(n + 1)]
  BY <1>1, SMTT(30) DEF n
<1>7. DataInvariants'
  <2>1. ASSUME NEW j \in 1..(n + 1)
        PROVE  /\ data'[j].seqs # {} /\ data'[j].account \in DOMAIN indices'
               /\ indices'[data'[j].account] = j
    <3>1. CASE j = n + 1
      BY <1>3, <1>4, <1>5, <3>1, Zenon
    <3>2. CASE j \in 1..n
      BY <1>1, <1>4, <1>5, <3>2, ZenonT(40) DEF DataInvariants
    <3>3. n \in Nat
      BY <1>1, Zenon
    <3>4. j = n + 1 \/ j \in 1..n
      BY <3>3, SMTT(30)
    <3> QED BY <3>1, <3>2, <3>4, Zenon
  <2>2. ASSUME NEW b \in DOMAIN indices'
        PROVE  data'[indices'[b]].account = b
    BY <1>1, <1>3, <1>4, <1>5, SMTT(30) DEF DataInvariants
  <2> QED BY <1>4, <2>1, <2>2, Zenon DEF DataInvariants
<1>8. ASSUME NEW b, NEW t
      PROVE  LotContains(b, t)' <=> (b = a /\ t = s) \/ LotContains(b, t)
  <2>1. CASE b = a
    BY <1>3, <1>4, <1>5, <2>1, SMTT(30) DEF LotContains
  <2>2. CASE b # a
    BY <1>1, <1>4, <1>5, <2>2, Zenon DEF LotContains
  <2> QED BY <2>1, <2>2, ZenonT(40)
<1> QED BY <1>4, <1>6, <1>7, <1>8, Zenon

\* The account a goes, and the last account of the vector takes its place.
LEMMA SwapRemoved ==
  ASSUME LotTypeOK, DataInvariants, NEW a \in DOMAIN indices, SwapRemove(indices[a])
  PROVE  /\ data' \in Seq(Entries)
         /\ indices' \in [DOMAIN indices \ {a} -> 1..Len(data')]
         /\ DataInvariants'
         /\ \A b, t : LotContains(b, t)' <=> b # a /\ LotContains(b, t)
<1> DEFINE n == Len(data)
           i == indices[a]
<1>1. /\ n \in Nat /\ i \in 1..n /\ DOMAIN data = 1..n
      /\ data[i].account = a
      /\ \A j \in 1..n : /\ data[j] \in Entries /\ data[j].seqs # {}
                         /\ data[j].account \in DOMAIN indices
                         /\ indices[data[j].account] = j
      /\ \A b \in DOMAIN indices : indices[b] \in 1..n /\ data[indices[b]].account = b
  BY Positions, Zenon DEF DataInvariants
<1>2. /\ data' = [j \in 1..(n - 1) |-> IF j = i THEN data[n] ELSE data[j]]
      /\ indices' = [b \in DOMAIN indices \ {a} |->
                       IF i < n /\ b = data[n].account THEN i ELSE indices[b]]
  BY <1>1, Zenon DEF SwapRemove
<1> HIDE DEF n, i
<1>3. /\ data' \in Seq(Entries) /\ Len(data') = n - 1 /\ DOMAIN data' = 1..(n - 1)
  <2>1. data' \in [1..(n - 1) -> Entries]
    BY <1>1, <1>2, SMTT(30)
  <2>2. n - 1 \in Nat
    BY <1>1
  <2> QED BY <2>1, <2>2, Vector, Zenon
<1>4. \A j \in 1..(n - 1) : data'[j] = IF j = i THEN data[n] ELSE data[j]
  BY <1>2, Zenon
<1>5. /\ DOMAIN indices' = DOMAIN indices \ {a}
      /\ \A b \in DOMAIN indices \ {a} :
           indices'[b] = IF i < n /\ b = data[n].account THEN i ELSE indices[b]
  BY <1>2, Zenon
\* Where an account that stays is found, and that it is the same entry.
<1>6. ASSUME NEW b \in DOMAIN indices \ {a}
      PROVE  indices'[b] \in 1..(n - 1) /\ data'[indices'[b]] = data[indices[b]]
  <2>1. indices[b] \in 1..n /\ indices[b] # i
    BY <1>1, Zenon
  <2>2. CASE indices[b] = n
    <3>1. data[n].account = b /\ i < n /\ i \in 1..(n - 1)
      BY <1>1, <2>1, <2>2, SMTT(30)
    <3>2. indices'[b] = i
      BY <1>5, <3>1, Zenon
    <3> QED BY <1>4, <2>2, <3>1, <3>2, Zenon
  <2>3. CASE indices[b] # n
    <3>1. indices[b] \in 1..(n - 1)
      BY <1>1, <2>1, <2>3, SMTT(30)
    <3>2. b # data[n].account
      <4>1. n \in 1..n
        BY <1>1, SMTT(30)
      <4> QED BY <1>1, <2>3, <4>1, Zenon
    <3>3. indices'[b] = indices[b]
      BY <1>5, <3>2, Zenon
    <3> QED BY <1>4, <2>1, <3>1, <3>3, Zenon
  <2> QED BY <2>2, <2>3, Zenon
<1>7. indices' \in [DOMAIN indices \ {a} -> 1..(n - 1)]
  BY <1>2, <1>5, <1>6, Zenon
<1>8. DataInvariants'
  <2>1. ASSUME NEW j \in 1..(n - 1)
        PROVE  /\ data'[j].seqs # {} /\ data'[j].account \in DOMAIN indices'
               /\ indices'[data'[j].account] = j
    <3>1. CASE j = i
      <4> DEFINE b == data[n].account
      <4>1. n \in 1..n /\ i < n /\ i # n
        BY <1>1, <3>1, SMTT(30)
      <4>2. data'[j] = data[n] /\ data[n].seqs # {} /\ b \in DOMAIN indices /\ indices[b] = n
        BY <1>1, <1>4, <3>1, <4>1, Zenon
      <4>3. b \in DOMAIN indices \ {a}
        BY <1>1, <4>1, <4>2, Zenon DEF i
      <4>4. indices'[b] = i
        BY <1>5, <4>1, <4>3, Zenon
      <4> QED BY <1>5, <3>1, <4>2, <4>3, <4>4, Zenon
    <3>2. CASE j # i
      <4> DEFINE b == data[j].account
      <4>1. data'[j] = data[j]
        BY <1>4, <3>2, ZenonT(40)
      <4>2. j \in 1..n /\ n \in 1..n /\ j # n
        BY <1>1, SMTT(30)
      <4>3. b \in DOMAIN indices /\ indices[b] = j /\ b # a /\ data[j].seqs # {}
        BY <1>1, <3>2, <4>2, Zenon DEF i
      <4>4. b # data[n].account
        BY <1>1, <4>2, <4>3, Zenon
      <4> HIDE DEF b
      <4>5. indices'[b] = j
        BY <1>5, <4>3, <4>4, Zenon
      <4> QED BY <1>5, <4>1, <4>3, <4>5, Zenon DEF b
    <3> QED BY <3>1, <3>2, Zenon
  <2>2. ASSUME NEW b \in DOMAIN indices'
        PROVE  data'[indices'[b]].account = b
    BY <1>1, <1>5, <1>6, Zenon
  <2> QED BY <1>3, <2>1, <2>2, Zenon DEF DataInvariants
<1>9. ASSUME NEW b, NEW t
      PROVE  LotContains(b, t)' <=> b # a /\ LotContains(b, t)
  BY <1>5, <1>6, Zenon DEF LotContains
<1> QED BY <1>3, <1>7, <1>8, <1>9, Zenon

-----------------------------------------------------------------------------
(* The operations. *)

\* An insertion adds its transaction to the set, and keeps the invariant.
LEMMA InsertStep ==
  ASSUME LotInv, NEW a \in Senders, NEW s \in Numbers, LotInsert(a, s)
  PROVE  LotInv' /\ Parked' = Parked \cup {<<a, s>>}
<1>1. LotTypeOK /\ DataInvariants /\ size = Cardinality(Parked) /\ evicted' = evicted
  BY Zenon DEF LotInv, LotInsert
<1>2. /\ LotTypeOK' /\ DataInvariants'
      /\ \A b, t : LotContains(b, t)' <=> (b = a /\ t = s) \/ LotContains(b, t)
      /\ size' = IF LotContains(a, s) THEN size ELSE size + 1
  <2>1. CASE a \in DOMAIN indices
    <3> DEFINE i == indices[a]
               new == data[i].seqs \cup {s}
    <3>1. /\ data' = [data EXCEPT ![i].seqs = new] /\ UNCHANGED indices
          /\ size' = IF LotContains(a, s) THEN size ELSE size + 1
      BY <2>1, Zenon DEF LotInsert, LotContains
    <3>2. new \in SUBSET Numbers /\ new # {}
      BY <1>1, <2>1, Positions, Zenon
    <3>3. /\ data' \in Seq(Entries) /\ Len(data') = Len(data) /\ DataInvariants'
          /\ \A b, t : LotContains(b, t)' <=> IF b = a THEN t \in new ELSE LotContains(b, t)
      BY <1>1, <2>1, <3>1, <3>2, Replaced, Zenon
    <3>4. \A t : LotContains(a, t) <=> t \in data[i].seqs
      BY <2>1, ZenonT(40) DEF LotContains
    <3>5. size' \in Int
      BY <1>1, <3>1, SMTT(30) DEF LotTypeOK
    <3>6. LotTypeOK'
      BY <1>1, <3>1, <3>3, <3>5, Zenon DEF LotTypeOK
    <3> QED BY <3>1, <3>3, <3>4, <3>6, Zenon
  <2>2. CASE a \notin DOMAIN indices
    <3>1. /\ data' = Append(data, [account |-> a, seqs |-> {s}])
          /\ indices' = [b \in DOMAIN indices \cup {a} |->
                           IF b = a THEN Len(data) + 1 ELSE indices[b]]
          /\ size' = size + 1 /\ ~LotContains(a, s)
      BY <2>2, Zenon DEF LotInsert, LotContains
    <3>2. /\ data' \in Seq(Entries) /\ DataInvariants'
          /\ indices' \in [DOMAIN indices \cup {a} -> 1..Len(data')]
          /\ \A b, t : LotContains(b, t)' <=> (b = a /\ t = s) \/ LotContains(b, t)
      BY <1>1, <2>2, <3>1, Appended, Zenon
    <3>3. DOMAIN indices \cup {a} \in SUBSET Senders /\ size' \in Int
      BY <1>1, <3>1, Positions, SMTT(30) DEF LotTypeOK
    <3>4. LotTypeOK'
      BY <1>1, <3>2, <3>3, Zenon DEF LotTypeOK
    <3> QED BY <3>1, <3>2, <3>4, Zenon
  <2> QED BY <2>1, <2>2, Zenon
<1>3. Parked' = Parked \cup {<<a, s>>}
  BY <1>2, SMTT(30) DEF Parked
<1>4. size' = Cardinality(Parked')
  <2>1. Parked \in SUBSET (Senders \X Numbers) /\ (<<a, s>> \in Parked <=> LotContains(a, s))
    BY Zenon DEF Parked
  <2>2. CASE LotContains(a, s)
    <3>1. Parked' = Parked
      BY <1>3, <2>1, <2>2, Zenon
    <3> QED BY <1>1, <1>2, <2>2, <3>1, Zenon
  <2>3. CASE ~LotContains(a, s)
    <3>1. Cardinality(Parked \cup {<<a, s>>}) = Cardinality(Parked) + 1
      BY <2>1, <2>3, CountAdded, Zenon
    <3> QED BY <1>1, <1>2, <1>3, <2>3, <3>1, Zenon
  <2> QED BY <2>2, <2>3, Zenon
<1> QED BY <1>2, <1>3, <1>4, Zenon DEF LotInv

\* A removal takes its transaction out of the set, and keeps the invariant.
LEMMA RemoveStep ==
  ASSUME LotInv, NEW a \in Senders, NEW s \in Numbers, LotRemove(a, s)
  PROVE  LotInv' /\ Parked' = Parked \ {<<a, s>>}
<1> DEFINE i == indices[a]
           left == data[i].seqs \ {s}
<1>1. /\ LotTypeOK /\ DataInvariants /\ size = Cardinality(Parked) /\ evicted' = evicted
      /\ a \in DOMAIN indices /\ size' = IF LotContains(a, s) THEN size - 1 ELSE size
  BY Zenon DEF LotInv, LotRemove, LotContains
<1>2. \A t : LotContains(a, t) <=> t \in data[i].seqs
  BY <1>1, Zenon DEF LotContains
<1>3. size' \in Int
  BY <1>1 DEF LotTypeOK
<1>4. /\ LotTypeOK' /\ DataInvariants'
      /\ \A b, t : LotContains(b, t)' <=> ~(b = a /\ t = s) /\ LotContains(b, t)
  <2>1. CASE left = {}
    <3>1. SwapRemove(i)
      BY <2>1, Zenon DEF LotRemove
    <3>2. /\ data' \in Seq(Entries) /\ DataInvariants'
          /\ indices' \in [DOMAIN indices \ {a} -> 1..Len(data')]
          /\ \A b, t : LotContains(b, t)' <=> b # a /\ LotContains(b, t)
      BY <1>1, <3>1, SwapRemoved, Zenon
    <3>3. DOMAIN indices \ {a} \in SUBSET Senders
      BY <1>1, Positions, Zenon
    <3>4. LotTypeOK'
      BY <1>1, <1>3, <3>2, <3>3, Zenon DEF LotTypeOK
    <3> QED BY <1>2, <2>1, <3>2, <3>4, Zenon
  <2>2. CASE left # {}
    <3>1. data' = [data EXCEPT ![i].seqs = left] /\ UNCHANGED indices
      BY <2>2, Zenon DEF LotRemove
    <3>2. left \in SUBSET Numbers
      BY <1>1, Positions, Zenon
    <3>3. /\ data' \in Seq(Entries) /\ Len(data') = Len(data) /\ DataInvariants'
          /\ \A b, t : LotContains(b, t)' <=> IF b = a THEN t \in left ELSE LotContains(b, t)
      BY <1>1, <2>2, <3>1, <3>2, Replaced, Zenon
    <3>4. LotTypeOK'
      BY <1>1, <1>3, <3>1, <3>3, Zenon DEF LotTypeOK
    <3> QED BY <1>2, <3>3, <3>4, Zenon
  <2> QED BY <2>1, <2>2, Zenon
<1>5. Parked' = Parked \ {<<a, s>>}
  BY <1>4 DEF Parked
<1>6. size' = Cardinality(Parked')
  <2>1. Parked \in SUBSET (Senders \X Numbers) /\ (<<a, s>> \in Parked <=> LotContains(a, s))
    BY Zenon DEF Parked
  <2>2. CASE ~LotContains(a, s)
    <3>1. Parked' = Parked
      BY <1>5, <2>1, <2>2, Zenon
    <3> QED BY <1>1, <2>2, <3>1, Zenon
  <2>3. CASE LotContains(a, s)
    <3>1. Cardinality(Parked \ {<<a, s>>}) = Cardinality(Parked) - 1
      BY <2>1, <2>3, CountRemoved, Zenon
    <3> QED BY <1>1, <1>5, <2>3, <3>1, Zenon
  <2> QED BY <2>2, <2>3, Zenon
<1> QED BY <1>4, <1>5, <1>6, Zenon DEF LotInv

\* What get_poppable offers is parked, and the highest of its account.
LEMMA PoppableStep ==
  ASSUME LotInv, GetPoppable
  PROVE  LotInv' /\ \E p \in Parked : Set!GetPoppable(p)
<1>1. /\ LotTypeOK /\ DataInvariants /\ size = Cardinality(Parked)
      /\ UNCHANGED <<data, indices, size>>
  BY Zenon DEF LotInv, GetPoppable
<1>i. PICK i \in DOMAIN data : \E s \in data[i].seqs :
        /\ \A t \in data[i].seqs : t <= s
        /\ evicted' = {<<data[i].account, s>>}
  BY Zenon DEF GetPoppable
<1>2. PICK s \in data[i].seqs :
        /\ \A t \in data[i].seqs : t <= s
        /\ evicted' = {<<data[i].account, s>>}
  BY <1>i, Zenon
<1> DEFINE a == data[i].account
           p == <<a, s>>
<1>3. /\ a \in Senders /\ s \in Numbers /\ a \in DOMAIN indices /\ indices[a] = i
  BY <1>1, Positions, Zenon DEF DataInvariants
<1>4. p \in Parked /\ p \in Senders \X Numbers
  BY <1>3, Zenon DEF Parked, LotContains
<1>5. ASSUME NEW q \in Parked, q[1] = a
      PROVE  q[2] <= s
  BY <1>2, <1>3, <1>5, Zenon DEF Parked, LotContains
<1>6. Parked' = Parked
  BY <1>1, Zenon DEF Parked, LotContains
<1>7. Set!GetPoppable(p)
  BY <1>1, <1>2, <1>5, <1>6, Zenon DEF Set!GetPoppable
<1>8. LotTypeOK' /\ DataInvariants'
  BY <1>1, <1>2, <1>4, Zenon DEF LotTypeOK, DataInvariants
<1> QED BY <1>1, <1>4, <1>6, <1>7, <1>8, Zenon DEF LotInv

-----------------------------------------------------------------------------

\* The cardinality of the abstract module is the one of this module.
LEMMA SameCardinality == \A S : Set!Cardinality(S) = Cardinality(S)
BY Zenon DEF Cardinality, Set!Cardinality

\* The invariant, through every insertion, removal and eviction.
THEOREM LotInvariant == LotSpec => []LotInv
<1>1. LotInit => LotInv
  <2> SUFFICES ASSUME LotInit PROVE LotInv
    OBVIOUS
  <2>1. data = <<>> /\ DOMAIN indices = {} /\ size = 0 /\ evicted = {} /\ indices \in [{} -> 1..0]
    BY Zenon DEF LotInit
  <2>2. LotTypeOK
    BY <2>1 DEF LotTypeOK
  <2>3. DataInvariants /\ Parked = {}
    BY <2>1 DEF DataInvariants, Parked, LotContains
  <2> QED BY <2>1, <2>2, <2>3, FS_EmptySet, Zenon DEF LotInv
<1>2. LotInv /\ [LotNext]_lotVars => LotInv'
  <2> SUFFICES ASSUME LotInv, [LotNext]_lotVars PROVE LotInv'
    OBVIOUS
  <2>1. ASSUME NEW a \in Senders, NEW s \in Numbers, LotInsert(a, s) PROVE LotInv'
    BY <2>1, InsertStep, Zenon
  <2>2. ASSUME NEW a \in Senders, NEW s \in Numbers, LotRemove(a, s) PROVE LotInv'
    BY <2>2, RemoveStep, Zenon
  <2>3. CASE GetPoppable
    BY <2>3, PoppableStep, Zenon
  <2>4. CASE UNCHANGED lotVars
    BY <2>4, Zenon DEF lotVars, LotInv, LotTypeOK, DataInvariants, Parked, LotContains
  <2> QED BY <2>1, <2>2, <2>3, <2>4, Zenon DEF LotNext
<1> QED BY <1>1, <1>2, PTL DEF LotSpec

\* "For each entry (account, txns) in data, txns is never empty" and account_indices has
\* the position of every account (ParkingLotIndex's invariants), for any accounts and
\* any sequence numbers.
THEOREM IndexesPositions == LotSpec => []DataInvariants
<1>1. LotInv => DataInvariants
  BY Zenon DEF LotInv
<1> QED BY <1>1, LotInvariant, PTL

\* ParkingLotIndex implements a set of transactions with an exact count: insert, remove
\* and get_poppable are the operations of the set, seen through contains and size.
THEOREM LotIsASet == LotSpec => IsASet
<1>1. LotInit => Set!Init
  <2> SUFFICES ASSUME LotInit PROVE Set!Init
    OBVIOUS
  <2>1. Parked = {}
    BY Zenon DEF LotInit, Parked, LotContains
  <2> QED BY <2>1, Zenon DEF LotInit, Set!Init
<1>2. LotInv /\ [LotNext]_lotVars => [Set!Next]_(Set!vars)
  <2> SUFFICES ASSUME LotInv, [LotNext]_lotVars PROVE [Set!Next]_(Set!vars)
    OBVIOUS
  <2>1. ASSUME NEW a \in Senders, NEW s \in Numbers, LotInsert(a, s) PROVE Set!Insert(a, s)
    <3>1. LotInv' /\ Parked' = Parked \cup {<<a, s>>}
      BY <2>1, InsertStep, Zenon
    <3>2. size' = Cardinality(Parked') /\ evicted' = evicted
      BY <2>1, <3>1, Zenon DEF LotInv, LotInsert
    <3> QED BY <3>1, <3>2, SameCardinality, Zenon DEF Set!Insert, Set!Becomes
  <2>2. ASSUME NEW a \in Senders, NEW s \in Numbers, LotRemove(a, s) PROVE Set!Remove(a, s)
    <3>1. LotInv' /\ Parked' = Parked \ {<<a, s>>}
      BY <2>2, RemoveStep, Zenon
    <3>2. size' = Cardinality(Parked') /\ evicted' = evicted
      BY <2>2, <3>1, Zenon DEF LotInv, LotRemove
    <3> QED BY <3>1, <3>2, SameCardinality, Zenon DEF Set!Remove, Set!Becomes
  <2>3. CASE GetPoppable
    BY <2>3, PoppableStep, Zenon DEF Set!Next
  <2>4. CASE UNCHANGED lotVars
    BY <2>4, Zenon DEF lotVars, Set!vars, Parked, LotContains
  <2> QED BY <2>1, <2>2, <2>3, <2>4, Zenon DEF LotNext, Set!Next
<1> QED BY <1>1, <1>2, LotInvariant, PTL DEF LotSpec, IsASet, Set!Spec

-----------------------------------------------------------------------------
(* CoreMempool: its invariants for every number of accounts, every bound     *)
(* and every capacity.  Each helper of the store is a function, so the       *)
(* argument is about helpers first: what RemoveAll, Put and ProcessReady do  *)
(* to a coherent store, and then the calls, which only chain them.           *)

USE DEF NoSeq

\* What no helper may break: types, indexes, size, and that nothing on the timeline is
\* parked.
Base(m) ==
  /\ m \in Stores
  /\ Coherent(m)
  /\ m.parking \cap m.timeline = {}
  /\ m.size = Bytes(Present(m))

\* What ProcessReady restores for the transactions of an account.
Fine(m, p) ==
  /\ p \in m.priority \cup m.parking
  /\ m.seqNums[p[1]] # NoSeq /\ m.seqNums[p[1]] <= p[2]
  /\ p[2] = m.seqNums[p[1]] => p \in m.priority

Good(m) == Base(m) /\ \A p \in Present(m) : Fine(m, p)

\* WithinCapacity, of any store.
Within(m) ==
  /\ Cardinality(Present(m)) <= Capacity
  /\ m.size <= CapacityBytes + 1
  /\ \A a \in Accounts : Cardinality(OfAccount(m, a)) <= PerUser

-----------------------------------------------------------------------------
(* Finite sets of pointers. *)

LEMMA PointersFinite ==
  ASSUME NEW S \in SUBSET Pointers
  PROVE  IsFiniteSet(S) /\ Cardinality(S) \in Nat
<1>1. IsFiniteSet(Seqs)
  BY MempoolAssumption, FS_Interval DEF Seqs
<1>2. IsFiniteSet(Pointers)
  BY <1>1, MempoolAssumption, FS_Product, Zenon DEF Pointers
<1>3. IsFiniteSet(S)
  BY <1>2, FS_Subset, Zenon
<1> QED BY <1>3, FS_CardinalityType, Zenon

LEMMA CardRemove ==
  ASSUME NEW P \in SUBSET Pointers, NEW S \in SUBSET P
  PROVE  /\ Cardinality(P) \in Nat /\ Cardinality(S) \in Nat
         /\ Cardinality(P \ S) = Cardinality(P) - Cardinality(S)
<1>1. IsFiniteSet(P) /\ Cardinality(P) \in Nat /\ Cardinality(S) \in Nat
  BY PointersFinite, Zenon
<1>2. P \cap S = S
  OBVIOUS
<1>3. Cardinality(P \ S) = Cardinality(P) - Cardinality(P \cap S)
  BY <1>1, FS_Difference, ZenonT(40)
<1> QED BY <1>1, <1>2, <1>3, Zenon

\* The size of what is left is the size of all less the size of what is taken.
LEMMA BytesRemove ==
  ASSUME NEW P \in SUBSET Pointers, NEW S \in SUBSET P
  PROVE  /\ Bytes(P) \in Nat /\ Bytes(S) \in Nat
         /\ Bytes(P \ S) = Bytes(P) - Bytes(S)
<1> DEFINE BigP == {p \in P : p[2] \in BigSeqs}
           BigS == {p \in S : p[2] \in BigSeqs}
           BigLeft == {p \in P \ S : p[2] \in BigSeqs}
<1>1. BigP \in SUBSET Pointers /\ BigS \in SUBSET BigP /\ BigLeft = BigP \ BigS
  OBVIOUS
<1>2. /\ Bytes(P) = Cardinality(P) + Cardinality(BigP)
      /\ Bytes(S) = Cardinality(S) + Cardinality(BigS)
      /\ Bytes(P \ S) = Cardinality(P \ S) + Cardinality(BigLeft)
  BY Zenon DEF Bytes
<1> HIDE DEF BigP, BigS, BigLeft
<1>3. /\ Cardinality(BigP) \in Nat /\ Cardinality(BigS) \in Nat
      /\ Cardinality(BigLeft) = Cardinality(BigP) - Cardinality(BigS)
  BY <1>1, CardRemove, Zenon
<1>4. /\ Cardinality(P) \in Nat /\ Cardinality(S) \in Nat
      /\ Cardinality(P \ S) = Cardinality(P) - Cardinality(S)
  BY CardRemove, Zenon
<1> QED BY <1>2, <1>3, <1>4

LEMMA BytesAdd ==
  ASSUME NEW P \in SUBSET Pointers, NEW p \in Pointers, p \notin P
  PROVE  /\ Bytes({p}) \in 1..2 /\ Bytes(P) \in Nat
         /\ Bytes(P \cup {p}) = Bytes(P) + Bytes({p})
<1> DEFINE Q == P \cup {p}
<1>1. /\ Bytes(Q) \in Nat /\ Bytes({p}) \in Nat
      /\ Bytes(Q \ {p}) = Bytes(Q) - Bytes({p})
  BY BytesRemove, Zenon
<1>2. Q \ {p} = P
  OBVIOUS
<1>3. Bytes({p}) \in 1..2
  <2> DEFINE B == {q \in {p} : q[2] \in BigSeqs}
  <2>1. B = {p} \/ B = {}
    OBVIOUS
  <2>2. Bytes({p}) = Cardinality({p}) + Cardinality(B)
    BY Zenon DEF Bytes
  <2> HIDE DEF B
  <2>3. Cardinality({p}) = 1 /\ Cardinality(B) \in {0, 1}
    BY <2>1, FS_Singleton, FS_EmptySet, Zenon
  <2> QED BY <2>2, <2>3
<1>4. Bytes(P) \in Nat
  BY BytesRemove, Zenon
<1>5. Bytes(P) = Bytes(Q) - Bytes({p})
  BY <1>1, <1>2, Zenon
<1> HIDE DEF Q
<1>6. Bytes(Q) = Bytes(P) + Bytes({p})
  BY <1>1, <1>4, <1>5
<1> QED BY <1>3, <1>4, <1>6, Zenon DEF Q

LEMMA CardAdd ==
  ASSUME NEW P \in SUBSET Pointers, NEW p \in Pointers, p \notin P
  PROVE  /\ Cardinality(P) \in Nat
         /\ Cardinality(P \cup {p}) = Cardinality(P) + 1
<1>1. IsFiniteSet(P) /\ Cardinality(P) \in Nat
  BY PointersFinite, Zenon
<1>2. Cardinality(P \cup {p}) = Cardinality(P) + 1
  BY <1>1, FS_AddElement, ZenonT(40)
<1> QED BY <1>1, <1>2, Zenon

LEMMA Smaller ==
  ASSUME NEW P \in SUBSET Pointers, NEW Q \in SUBSET P
  PROVE  /\ Cardinality(P) \in Nat /\ Cardinality(Q) \in Nat /\ Cardinality(Q) <= Cardinality(P)
         /\ Bytes(P) \in Nat /\ Bytes(Q) \in Nat /\ Bytes(Q) <= Bytes(P)
<1>1. P \ Q \in SUBSET Pointers
  OBVIOUS
<1>2. /\ Cardinality(P) \in Nat /\ Cardinality(Q) \in Nat /\ Cardinality(P \ Q) \in Nat
      /\ Cardinality(P \ Q) = Cardinality(P) - Cardinality(Q)
  BY <1>1, CardRemove, PointersFinite, Zenon
<1>3. Bytes(P) \in Nat /\ Bytes(Q) \in Nat /\ Bytes(P \ Q) = Bytes(P) - Bytes(Q)
  BY BytesRemove, Zenon
<1>4. Bytes(P \ Q) \in Nat
  BY <1>1, BytesRemove, Zenon
<1> QED BY <1>2, <1>3, <1>4

\* A store that loses transactions does not become full.
LEMMA FullIsKept ==
  ASSUME NEW m, Base(m), ~IsFull(m), NEW r, Base(r), Present(r) \subseteq Present(m)
  PROVE  ~IsFull(r)
<1>1. /\ Present(m) \in SUBSET Pointers /\ m.size = Bytes(Present(m))
      /\ r.size = Bytes(Present(r)) /\ m.ttl = Present(m) /\ r.ttl = Present(r)
  BY Zenon DEF Present, Base, Coherent
<1>2. /\ Cardinality(Present(m)) \in Nat /\ Cardinality(Present(r)) \in Nat
      /\ Cardinality(Present(r)) <= Cardinality(Present(m))
      /\ m.size \in Nat /\ r.size \in Nat /\ r.size <= m.size
  BY <1>1, Smaller, Zenon
<1> QED BY <1>1, <1>2, MempoolAssumption DEF IsFull

\* A store that holds less than one within the limits is within them.
LEMMA WithinSmaller ==
  ASSUME NEW m, Base(m), Within(m), NEW r, Base(r), Present(r) \subseteq Present(m)
  PROVE  Within(r)
<1>1. Present(m) \in SUBSET Pointers /\ m.size = Bytes(Present(m)) /\ r.size = Bytes(Present(r))
  BY Zenon DEF Present, Base
<1>2. Cardinality(Present(r)) <= Capacity
  <2>1. /\ Cardinality(Present(m)) \in Nat /\ Cardinality(Present(r)) \in Nat
        /\ Cardinality(Present(r)) <= Cardinality(Present(m))
    BY <1>1, Smaller, Zenon
  <2>2. Cardinality(Present(m)) <= Capacity
    BY Zenon DEF Within
  <2> QED BY <2>1, <2>2, MempoolAssumption
<1>3. r.size <= CapacityBytes + 1
  <2>1. m.size \in Nat /\ r.size \in Nat /\ r.size <= m.size
    BY <1>1, Smaller, Zenon
  <2>2. m.size <= CapacityBytes + 1
    BY Zenon DEF Within
  <2> QED BY <2>1, <2>2, MempoolAssumption
<1>4. ASSUME NEW a \in Accounts PROVE Cardinality(OfAccount(r, a)) <= PerUser
  <2>1. OfAccount(m, a) \in SUBSET Pointers /\ OfAccount(r, a) \in SUBSET OfAccount(m, a)
    BY <1>1, Zenon DEF OfAccount
  <2>2. /\ Cardinality(OfAccount(m, a)) \in Nat /\ Cardinality(OfAccount(r, a)) \in Nat
        /\ Cardinality(OfAccount(r, a)) <= Cardinality(OfAccount(m, a))
    BY <2>1, Smaller, Zenon
  <2>3. Cardinality(OfAccount(m, a)) <= PerUser
    BY Zenon DEF Within
  <2> QED BY <2>2, <2>3, MempoolAssumption
<1> QED BY <1>2, <1>3, <1>4, Zenon DEF Within

\* One transaction more, where the store was not full and the account below its limit.
LEMMA WithinLarger ==
  ASSUME NEW m, Base(m), Within(m), ~IsFull(m), NEW p \in Pointers, p \notin Present(m),
         Cardinality(OfAccount(m, p[1])) < PerUser,
         NEW r, Base(r), Present(r) = Present(m) \cup {p}
  PROVE  Within(r)
<1>1. /\ Present(m) \in SUBSET Pointers /\ m.size = Bytes(Present(m))
      /\ r.size = Bytes(Present(r)) /\ m.ttl = Present(m)
  BY Zenon DEF Present, Base, Coherent
<1>2. Cardinality(Present(m)) \in Nat /\ Cardinality(Present(r)) = Cardinality(Present(m)) + 1
  BY <1>1, CardAdd, Zenon
<1>3. m.size \in Nat /\ Bytes({p}) \in 1..2 /\ r.size = m.size + Bytes({p})
  BY <1>1, BytesAdd, Zenon
<1>4. Cardinality(Present(m)) < Capacity /\ m.size < CapacityBytes
  BY <1>1, <1>2, <1>3, MempoolAssumption DEF IsFull
<1>5. ASSUME NEW a \in Accounts PROVE Cardinality(OfAccount(r, a)) <= PerUser
  <2> DEFINE A == OfAccount(m, a)
  <2>1. A \in SUBSET Pointers /\ p \notin A
    BY <1>1, Zenon DEF OfAccount
  <2>2. CASE p[1] = a
    <3>1. OfAccount(r, a) = A \cup {p}
      BY <2>2, Zenon DEF OfAccount
    <3>2. Cardinality(A) < PerUser
      BY <2>2, Zenon
    <3> HIDE DEF A
    <3>3. Cardinality(A) \in Nat /\ Cardinality(A \cup {p}) = Cardinality(A) + 1
      BY <2>1, CardAdd, Zenon
    <3> QED BY <3>1, <3>2, <3>3, MempoolAssumption
  <2>3. CASE p[1] # a
    <3>1. OfAccount(r, a) = OfAccount(m, a)
      BY <2>3, Zenon DEF OfAccount
    <3> QED BY <3>1, Zenon DEF Within
  <2> QED BY <2>2, <2>3, Zenon
<1> QED BY <1>2, <1>3, <1>4, <1>5, MempoolAssumption, SMTT(30) DEF Within

-----------------------------------------------------------------------------
(* RemoveAll. *)

LEMMA RemoveFields ==
  ASSUME NEW m \in Stores, NEW S \in SUBSET Present(m), NEW r, r = RemoveAll(m, S)
  PROVE  /\ r.txns = [p \in Pointers |-> IF p \in S THEN Absent ELSE m.txns[p]]
         /\ r.ttl = m.ttl \ S /\ r.priority = m.priority \ S
         /\ r.timeline = m.timeline \ (S \cap InTimeline(m))
         /\ r.parking = m.parking \ S /\ r.upgraded = m.upgraded \ S
         /\ r.hashes = m.hashes \ {<<p, m.txns[p].gas>> : p \in S}
         /\ r.size = m.size - Bytes(S)
BY Zenon DEF RemoveAll, Stores

LEMMA RemoveType ==
  ASSUME NEW m \in Stores, NEW S \in SUBSET Present(m), NEW r, r = RemoveAll(m, S)
  PROVE  r \in Stores /\ Present(r) = Present(m) \ S
<1> DEFINE left == Present(m) \ S
           emptied == {a \in Accounts : (\E p \in S : p[1] = a) /\ ~\E p \in left : p[1] = a}
           tx == [p \in Pointers |-> IF p \in S THEN Absent ELSE m.txns[p]]
           sn == [a \in Accounts |-> IF a \in emptied THEN NoSeq ELSE m.seqNums[a]]
           hs == m.hashes \ {<<p, m.txns[p].gas>> : p \in S}
<1>1. Bytes(S) \in Nat
  BY BytesRemove, Zenon DEF Present
<1>2. tx \in [Pointers -> [gas : Gases, state : States] \cup {Absent}]
  BY Zenon DEF Stores
<1>3. sn \in [Accounts -> Nat \cup {NoSeq}]
  BY Zenon DEF Stores
<1>4. hs \in SUBSET (Pointers \X Gases)
  BY Zenon DEF Stores
<1>5. r = [m EXCEPT !.txns = tx, !.seqNums = sn, !.ttl = @ \ S, !.priority = @ \ S,
                    !.timeline = @ \ (S \cap InTimeline(m)), !.parking = @ \ S,
                    !.hashes = hs, !.size = @ - Bytes(S), !.upgraded = @ \ S]
  BY Zenon DEF RemoveAll
<1> HIDE DEF left, emptied, tx, sn, hs
<1>6. r \in Stores
  <2>1. /\ r.txns = tx /\ r.seqNums = sn /\ r.ttl = m.ttl \ S /\ r.priority = m.priority \ S
        /\ r.timeline = m.timeline \ (S \cap InTimeline(m)) /\ r.parking = m.parking \ S
        /\ r.hashes = hs /\ r.size = m.size - Bytes(S) /\ r.upgraded = m.upgraded \ S
    BY <1>5, ZenonT(40) DEF Stores
  <2>2. r = [txns |-> r.txns, seqNums |-> r.seqNums, ttl |-> r.ttl, priority |-> r.priority,
             timeline |-> r.timeline, parking |-> r.parking, hashes |-> r.hashes,
             size |-> r.size, upgraded |-> r.upgraded]
    BY <1>5, Zenon DEF Stores
  <2>3. /\ m.ttl \in SUBSET Pointers /\ m.priority \in SUBSET Pointers
        /\ m.timeline \in SUBSET Pointers /\ m.parking \in SUBSET Pointers
        /\ m.upgraded \in SUBSET Pointers /\ m.size \in Int
    BY Zenon DEF Stores
  <2>4. /\ r.ttl \in SUBSET Pointers /\ r.priority \in SUBSET Pointers
        /\ r.timeline \in SUBSET Pointers /\ r.parking \in SUBSET Pointers
        /\ r.upgraded \in SUBSET Pointers /\ r.size \in Int
    BY <1>1, <2>1, <2>3
  <2> QED BY <1>2, <1>3, <1>4, <2>1, <2>2, <2>4, Zenon DEF Stores
<1>7. r.txns = [p \in Pointers |-> IF p \in S THEN Absent ELSE m.txns[p]]
  BY RemoveFields
<1>8. Present(r) = Present(m) \ S
  BY <1>7, Zenon DEF Present
<1> QED BY <1>6, <1>8, Zenon

\* Taking transactions out keeps the indexes, and what is left stays as it was.
LEMMA RemoveBase ==
  ASSUME NEW m, Base(m), NEW S \in SUBSET Present(m)
  PROVE  Base(RemoveAll(m, S))
<1> DEFINE r == RemoveAll(m, S)
<1>1. m \in Stores /\ Coherent(m) /\ m.parking \cap m.timeline = {} /\ m.size = Bytes(Present(m))
  BY Zenon DEF Base
<1>2. r \in Stores /\ Present(r) = Present(m) \ S
  BY <1>1, RemoveType, Zenon
<1>3. /\ r.txns = [p \in Pointers |-> IF p \in S THEN Absent ELSE m.txns[p]]
      /\ r.ttl = m.ttl \ S /\ r.priority = m.priority \ S
      /\ r.timeline = m.timeline \ (S \cap InTimeline(m))
      /\ r.parking = m.parking \ S /\ r.upgraded = m.upgraded \ S
      /\ r.hashes = m.hashes \ {<<p, m.txns[p].gas>> : p \in S}
      /\ r.size = m.size - Bytes(S)
  BY <1>1, RemoveFields
<1> HIDE DEF r
<1>4. \A p \in Present(r) : p \in Pointers /\ r.txns[p] = m.txns[p]
  BY <1>2, <1>3, Zenon DEF Present
<1>5. r.ttl = Present(r)
  BY <1>1, <1>2, <1>3, Zenon DEF Coherent
<1>6. r.hashes = {<<p, r.txns[p].gas>> : p \in Present(r)}
  <2>1. r.hashes = {<<p, m.txns[p].gas>> : p \in Present(m) \ S}
    BY <1>1, <1>3 DEF Coherent
  <2> QED BY <2>1, <1>2, <1>4, ZenonT(40)
<1>7. InTimeline(r) = InTimeline(m) \ S
  BY <1>2, <1>4, Zenon DEF InTimeline
<1>8. Coherent(r)
  <2>1. r.priority \cup r.parking \cup r.upgraded \subseteq Present(r)
    BY <1>1, <1>2, <1>3, ZenonT(40) DEF Coherent
  <2>2. r.timeline = InTimeline(r) /\ r.timeline \subseteq r.priority
    BY <1>1, <1>3, <1>7 DEF Coherent
  <2> QED BY <1>5, <1>6, <2>1, <2>2, Zenon DEF Coherent
<1>9. r.parking \cap r.timeline = {}
  BY <1>1, <1>3, Zenon
<1>10. r.size = Bytes(Present(r))
  <2>1. Present(m) \in SUBSET Pointers
    BY Zenon DEF Present
  <2> QED BY <1>1, <1>2, <1>3, <2>1, BytesRemove, Zenon
<1> QED BY <1>2, <1>8, <1>9, <1>10, Zenon DEF Base, r

\* Only an account that loses its last transaction loses its sequence number.
LEMMA RemoveSeqNums ==
  ASSUME NEW m \in Stores, NEW S \in SUBSET Present(m), NEW r, r = RemoveAll(m, S),
         NEW p \in Pointers, p \in Present(m), p \notin S
  PROVE  r.seqNums[p[1]] = m.seqNums[p[1]]
<1>1. p[1] \in Accounts
  BY Zenon DEF Pointers
<1> QED BY <1>1, Zenon DEF RemoveAll, Stores

LEMMA RemoveFine ==
  ASSUME NEW m \in Stores, NEW S \in SUBSET Present(m), NEW r, r = RemoveAll(m, S)
  PROVE  \A p \in Present(m) \ S : Fine(m, p) => Fine(r, p)
<1>1. r.priority = m.priority \ S /\ r.parking = m.parking \ S
  BY Zenon DEF RemoveAll, Stores
<1> SUFFICES ASSUME NEW p \in Pointers, p \in Present(m), p \notin S, Fine(m, p)
             PROVE  Fine(r, p)
  BY Zenon DEF Present
<1>2. r.seqNums[p[1]] = m.seqNums[p[1]]
  BY RemoveSeqNums, ZenonT(40)
<1> QED BY <1>1, <1>2, Zenon DEF Fine

LEMMA RemoveGood ==
  ASSUME NEW m, Good(m), NEW S \in SUBSET Present(m)
  PROVE  Good(RemoveAll(m, S))
<1>1. m \in Stores /\ Base(m) /\ \A p \in Present(m) : Fine(m, p)
  BY Zenon DEF Good, Base
<1>2. Present(RemoveAll(m, S)) = Present(m) \ S
  BY <1>1, RemoveType, Zenon
<1>3. \A p \in Present(m) \ S : Fine(RemoveAll(m, S), p)
  BY <1>1, RemoveFine, Zenon
<1> QED BY <1>1, <1>2, <1>3, RemoveBase, Zenon DEF Good

-----------------------------------------------------------------------------
(* ProcessReady. *)

LEMMA RunIsPooled ==
  ASSUME NEW m, NEW a, NEW seq
  PROVE  ReadyRun(m, a, seq) \subseteq OfAccount(m, a) /\ OfAccount(m, a) \subseteq Present(m)
BY Zenon DEF ReadyRun, OfAccount

LEMMA ProcessBase ==
  ASSUME NEW m, Base(m), NEW a \in Accounts, NEW seq \in Nat, NEW r, r = ProcessReady(m, a, seq)
  PROVE  Base(r) /\ Present(r) = Present(m)
<1> DEFINE run == ReadyRun(m, a, seq)
           promoted == {p \in run : m.txns[p].state = "NotReady"}
           beyond == {p \in OfAccount(m, a) \ run : seq <= p[2] /\ m.txns[p].state # "Ready"}
<1>1. m \in Stores /\ Coherent(m) /\ m.parking \cap m.timeline = {} /\ m.size = Bytes(Present(m))
  BY Zenon DEF Base
<1>2. /\ r.txns = [p \in Pointers |-> IF p \in promoted
                                     THEN [m.txns[p] EXCEPT !.state = "Ready"]
                                     ELSE m.txns[p]]
      /\ r.priority = m.priority \cup run /\ r.timeline = m.timeline \cup promoted
      /\ r.parking = (m.parking \ run) \cup beyond
      /\ r.seqNums = m.seqNums /\ r.ttl = m.ttl /\ r.hashes = m.hashes
      /\ r.size = m.size /\ r.upgraded = m.upgraded
      /\ r = [txns |-> r.txns, seqNums |-> r.seqNums, ttl |-> r.ttl, priority |-> r.priority,
              timeline |-> r.timeline, parking |-> r.parking, hashes |-> r.hashes,
              size |-> r.size, upgraded |-> r.upgraded]
  BY <1>1, Zenon DEF ProcessReady, Stores
<1>3. /\ run \subseteq Present(m) /\ promoted \subseteq run /\ beyond \subseteq Present(m)
      /\ Present(m) \subseteq Pointers
      /\ \A p \in promoted : m.txns[p].state = "NotReady"
      /\ \A p \in beyond : p \notin run /\ m.txns[p].state # "Ready"
  BY RunIsPooled, Zenon DEF Present
<1> HIDE DEF run, promoted, beyond
<1>4. \A p \in Present(m) : m.txns[p] \in [gas : Gases, state : States]
  BY <1>1, ZenonT(40) DEF Stores, Present
<1>5. \A p \in Pointers :
        /\ r.txns[p] = Absent <=> m.txns[p] = Absent
        /\ p \in Present(m) => r.txns[p].gas = m.txns[p].gas
        /\ p \in Present(m) => r.txns[p].state = IF p \in promoted THEN "Ready" ELSE m.txns[p].state
        /\ p \in Present(m) => r.txns[p] \in [gas : Gases, state : States]
  BY <1>2, <1>3, <1>4, SMTT(30) DEF Absent, States, Present
<1>6. Present(r) = Present(m)
  BY <1>5, Zenon DEF Present
<1>7. r \in Stores
  <2>1. r.txns \in [Pointers -> [gas : Gases, state : States] \cup {Absent}]
    BY <1>2, <1>5, <1>3, Zenon DEF Present
  <2>2. /\ r.seqNums \in [Accounts -> Nat \cup {NoSeq}] /\ r.ttl \in SUBSET Pointers
        /\ r.hashes \in SUBSET (Pointers \X Gases) /\ r.size \in Int
        /\ r.upgraded \in SUBSET Pointers
    BY <1>1, <1>2, Zenon DEF Stores
  <2>3. m.priority \in SUBSET Pointers /\ m.timeline \in SUBSET Pointers /\ m.parking \in SUBSET Pointers
    BY <1>1, Zenon DEF Stores
  <2>4. r.priority \in SUBSET Pointers /\ r.timeline \in SUBSET Pointers /\ r.parking \in SUBSET Pointers
    BY <1>2, <1>3, <2>3, Zenon
  <2> QED BY <1>2, <2>1, <2>2, <2>4, Zenon DEF Stores
<1>8. InTimeline(r) = InTimeline(m) \cup promoted
  BY <1>3, <1>5, <1>6, ZenonT(40) DEF InTimeline
<1>9. Coherent(r)
  <2>1. r.hashes = {<<p, r.txns[p].gas>> : p \in Present(r)}
    BY <1>1, <1>2, <1>3, <1>5, <1>6, SMTT(30) DEF Coherent
  <2>2. r.priority \cup r.parking \cup r.upgraded \subseteq Present(r)
    BY <1>1, <1>2, <1>3, <1>6, Zenon DEF Coherent
  <2>3. r.timeline = InTimeline(r) /\ r.timeline \subseteq r.priority
    BY <1>1, <1>2, <1>3, <1>8, Zenon DEF Coherent
  <2> QED BY <1>1, <1>2, <1>6, <2>1, <2>2, <2>3, Zenon DEF Coherent
<1>10. r.parking \cap r.timeline = {}
  <2>1. beyond \cap InTimeline(m) = {}
    BY <1>3, Zenon DEF InTimeline
  <2> QED BY <1>1, <1>2, <1>3, <2>1, SMTT(30) DEF Coherent
<1> QED BY <1>1, <1>2, <1>6, <1>7, <1>9, <1>10, Zenon DEF Base

\* ProcessReady puts every transaction of the account where it belongs, wherever
\* it was before.
LEMMA ProcessGood ==
  ASSUME NEW m, Base(m), NEW a \in Accounts, NEW seq \in Nat, NEW r, r = ProcessReady(m, a, seq),
         \A p \in OfAccount(m, a) : seq <= p[2] /\ m.seqNums[a] = seq,
         \A p \in Present(m) : p[1] # a => Fine(m, p)
  PROVE  Good(r)
<1> DEFINE run == ReadyRun(m, a, seq)
           promoted == {p \in run : m.txns[p].state = "NotReady"}
           beyond == {p \in OfAccount(m, a) \ run : seq <= p[2] /\ m.txns[p].state # "Ready"}
<1>1. m \in Stores /\ Coherent(m)
  BY Zenon DEF Base
<1>2. Base(r) /\ Present(r) = Present(m)
  BY ProcessBase, Zenon
<1>3. /\ r.priority = m.priority \cup run /\ r.parking = (m.parking \ run) \cup beyond
      /\ r.seqNums = m.seqNums
  BY <1>1, Zenon DEF ProcessReady, Stores
<1>4. run \subseteq OfAccount(m, a)
  BY RunIsPooled, Zenon
<1>5. SUFFICES ASSUME NEW p \in Present(m)
               PROVE  Fine(r, p)
  BY <1>2, Zenon DEF Good
<1>6. CASE p[1] # a
  <2>1. Fine(m, p) /\ p \notin run
    BY <1>4, <1>6, Zenon DEF OfAccount
  <2> HIDE DEF run, beyond
  <2> QED BY <1>3, <2>1, Zenon DEF Fine
<1>7. CASE p[1] = a
  <2>1. p \in OfAccount(m, a) /\ seq <= p[2] /\ m.seqNums[a] = seq
    BY <1>7, Zenon DEF OfAccount
  <2>2. p[2] = seq => p \in run
    <3> SUFFICES ASSUME p[2] = seq
                 PROVE  p \in run
      OBVIOUS
    <3>1. p = <<a, seq>> /\ m.txns[p] # Absent
      BY <1>7 DEF Present, Pointers
    <3>2. \A k \in seq..p[2] : m.txns[<<a, k>>] # Absent
      BY <3>1
    <3> QED BY <2>1, <3>2, Zenon DEF ReadyRun
  <2>3. p \in run \/ p \in beyond \/ p \in m.priority
    <3>1. p \in InTimeline(m) => p \in m.priority
      BY <1>1, Zenon DEF Coherent
    <3> QED BY <2>1, <3>1, Zenon DEF InTimeline
  <2> HIDE DEF run, beyond
  <2> QED BY <1>3, <1>7, <2>1, <2>2, <2>3, SMTT(30) DEF Fine
<1> QED BY <1>6, <1>7, Zenon

-----------------------------------------------------------------------------
(* Put, and the insertion that follows a clean-up. *)

LEMMA PutBase ==
  ASSUME NEW m, Base(m), NEW p \in Pointers, p \notin Present(m), NEW gas \in Gases,
         NEW acc \in Nat, NEW state \in {"NotReady", "NonQualified"},
         NEW r, r = Put(m, p, gas, acc, state)
  PROVE  /\ Base(r) /\ Present(r) = Present(m) \cup {p}
         /\ r.seqNums = [m.seqNums EXCEPT ![p[1]] = acc]
         /\ r.priority = m.priority /\ r.parking = m.parking
<1> DEFINE t == [gas |-> gas, state |-> state]
<1>1. m \in Stores /\ Coherent(m) /\ m.parking \cap m.timeline = {} /\ m.size = Bytes(Present(m))
  BY Zenon DEF Base
<1>2. p[1] \in Accounts
  BY Zenon DEF Pointers
<1>3. /\ r.txns = [m.txns EXCEPT ![p] = t]
      /\ r.seqNums = [m.seqNums EXCEPT ![p[1]] = acc]
      /\ r.ttl = m.ttl \cup {p} /\ r.hashes = m.hashes \cup {<<p, gas>>}
      /\ r.size = m.size + Bytes({p})
      /\ r.priority = m.priority /\ r.parking = m.parking /\ r.timeline = m.timeline
      /\ r.upgraded = m.upgraded
      /\ r = [txns |-> r.txns, seqNums |-> r.seqNums, ttl |-> r.ttl, priority |-> r.priority,
              timeline |-> r.timeline, parking |-> r.parking, hashes |-> r.hashes,
              size |-> r.size, upgraded |-> r.upgraded]
  BY <1>1, Zenon DEF Put, Stores
<1>4. t \in [gas : Gases, state : States] /\ t # Absent /\ t.gas = gas /\ t.state # "Ready"
  BY Zenon DEF States, Absent
<1> HIDE DEF t
<1>5. /\ r.txns[p] = t
      /\ \A q \in Pointers : q # p => r.txns[q] = m.txns[q]
      /\ r.txns \in [Pointers -> [gas : Gases, state : States] \cup {Absent}]
  BY <1>1, <1>3, <1>4, SMTT(30) DEF Stores
<1>6. Present(r) = Present(m) \cup {p} /\ Present(m) \in SUBSET Pointers
  BY <1>4, <1>5, ZenonT(40) DEF Present
<1>7. /\ Bytes({p}) \in 1..2 /\ Bytes(Present(m)) \in Nat
      /\ Bytes(Present(m) \cup {p}) = Bytes(Present(m)) + Bytes({p})
  BY <1>6, BytesAdd, Zenon
<1>8. r \in Stores
  <2>1. /\ r.seqNums \in [Accounts -> Nat \cup {NoSeq}] /\ r.ttl \in SUBSET Pointers
        /\ r.hashes \in SUBSET (Pointers \X Gases)
    BY <1>1, <1>2, <1>3, SMTT(30) DEF Stores
  <2>2. r.size \in Int
    BY <1>1, <1>3, <1>7, SMTT(30)
  <2>3. /\ r.priority \in SUBSET Pointers /\ r.timeline \in SUBSET Pointers
        /\ r.parking \in SUBSET Pointers /\ r.upgraded \in SUBSET Pointers
    BY <1>1, <1>3, Zenon DEF Stores
  <2> QED BY <1>3, <1>5, <2>1, <2>2, <2>3, Zenon DEF Stores
<1>9. InTimeline(r) = InTimeline(m)
  BY <1>4, <1>5, <1>6, SMTT(30) DEF InTimeline
<1>10. Coherent(r)
  <2>1. r.hashes = {<<q, r.txns[q].gas>> : q \in Present(r)}
    <3>1. m.hashes = {<<q, m.txns[q].gas>> : q \in Present(m)}
      BY <1>1, Zenon DEF Coherent
    <3>2. r.hashes = m.hashes \cup {<<p, gas>>} /\ r.txns[p].gas = gas
      BY <1>3, <1>4, <1>5, Zenon
    <3>3. \A q \in Present(m) : r.txns[q] = m.txns[q]
      BY <1>5, <1>6, Zenon
    <3>4. {<<q, r.txns[q].gas>> : q \in Present(m)} = {<<q, m.txns[q].gas>> : q \in Present(m)}
      BY <3>3, Zenon
    <3>5. {<<q, r.txns[q].gas>> : q \in Present(m) \cup {p}}
            = {<<q, r.txns[q].gas>> : q \in Present(m)} \cup {<<p, r.txns[p].gas>>}
      BY Zenon
    <3> QED BY <1>6, <3>1, <3>2, <3>4, <3>5, Zenon
  <2>2. r.priority \cup r.parking \cup r.upgraded \subseteq Present(r)
    BY <1>1, <1>3, <1>6, Zenon DEF Coherent
  <2> QED BY <1>1, <1>3, <1>6, <1>9, <2>1, <2>2, ZenonT(40) DEF Coherent
<1>11. r.size = Bytes(Present(r)) /\ r.parking \cap r.timeline = {}
  BY <1>1, <1>3, <1>6, <1>7, Zenon
<1> QED BY <1>3, <1>6, <1>8, <1>10, <1>11, Zenon DEF Base

\* Marking a gas upgrade touches nothing else.
LEMMA MarkBase ==
  ASSUME NEW m, Base(m), NEW p \in Present(m), NEW r, r = [m EXCEPT !.upgraded = @ \cup {p}]
  PROVE  /\ Base(r) /\ Present(r) = Present(m) /\ r.seqNums = m.seqNums
         /\ r.priority = m.priority /\ r.parking = m.parking
<1>1. m \in Stores /\ Coherent(m) /\ m.parking \cap m.timeline = {} /\ m.size = Bytes(Present(m))
  BY Zenon DEF Base
<1>2. /\ r.txns = m.txns /\ r.seqNums = m.seqNums /\ r.ttl = m.ttl /\ r.priority = m.priority
      /\ r.timeline = m.timeline /\ r.parking = m.parking /\ r.hashes = m.hashes
      /\ r.size = m.size /\ r.upgraded = m.upgraded \cup {p}
      /\ r = [txns |-> r.txns, seqNums |-> r.seqNums, ttl |-> r.ttl, priority |-> r.priority,
              timeline |-> r.timeline, parking |-> r.parking, hashes |-> r.hashes,
              size |-> r.size, upgraded |-> r.upgraded]
  BY <1>1, Zenon DEF Stores
<1>3. Present(r) = Present(m) /\ InTimeline(r) = InTimeline(m)
  BY <1>2 DEF Present, InTimeline
<1>4. r \in Stores
  BY <1>1, <1>2, ZenonT(40) DEF Stores, Present
<1>5. Coherent(r)
  <2>1. r.hashes = {<<q, r.txns[q].gas>> : q \in Present(r)}
    <3>1. m.hashes = {<<q, m.txns[q].gas>> : q \in Present(m)}
      BY <1>1, Zenon DEF Coherent
    <3>2. r.hashes = m.hashes /\ r.txns = m.txns /\ Present(r) = Present(m)
      BY <1>2, <1>3, Zenon
    <3>3. {<<q, r.txns[q].gas>> : q \in Present(r)} = {<<q, m.txns[q].gas>> : q \in Present(m)}
      BY <3>2, Zenon
    <3> QED BY <3>1, <3>2, <3>3, Zenon
  <2>2. r.priority \cup r.parking \cup r.upgraded \subseteq Present(r)
    BY <1>1, <1>2, <1>3, Zenon DEF Coherent
  <2> QED BY <1>1, <1>2, <1>3, <2>1, <2>2, Zenon DEF Coherent
<1> QED BY <1>1, <1>2, <1>3, <1>4, <1>5, Zenon DEF Base

LEMMA CleanGood ==
  ASSUME NEW m, Base(m), NEW a \in Accounts, NEW seq \in Nat, NEW r, r = CleanCommitted(m, a, seq)
  PROVE  /\ Base(r) /\ Present(r) \subseteq Present(m)
         /\ \A p \in OfAccount(r, a) : seq <= p[2]
         /\ \A p \in Present(r) : Fine(m, p) => Fine(r, p)
         /\ \A p \in OfAccount(r, a) : r.seqNums[a] = m.seqNums[a]
<1> DEFINE S == {p \in OfAccount(m, a) : p[2] < seq}
<1>1. m \in Stores /\ S \in SUBSET Present(m) /\ r = RemoveAll(m, S)
  BY Zenon DEF Base, CleanCommitted, OfAccount
<1>2. \A p \in Present(m) \ S : p[1] = a => seq <= p[2]
  BY DEF OfAccount, Present, Pointers, Seqs
<1> HIDE DEF S
<1>3. Base(r)
  BY <1>1, RemoveBase, Zenon
<1>4. Present(r) = Present(m) \ S
  BY <1>1, RemoveType, Zenon
<1>5. \A p \in Present(m) \ S : Fine(m, p) => Fine(r, p)
  BY <1>1, RemoveFine, Zenon
<1>6. \A p \in OfAccount(r, a) : r.seqNums[a] = m.seqNums[a]
  <2> SUFFICES ASSUME NEW p \in OfAccount(r, a)
               PROVE  r.seqNums[a] = m.seqNums[a]
    OBVIOUS
  <2>1. p \in Pointers /\ p \in Present(m) /\ p \notin S /\ p[1] = a
    BY <1>4, Zenon DEF OfAccount, Present
  <2> QED BY <1>1, <2>1, RemoveSeqNums, Zenon
<1> QED BY <1>2, <1>3, <1>4, <1>5, <1>6, Zenon DEF OfAccount

-----------------------------------------------------------------------------
(* The calls. *)

\* An eviction, or none: the store stays good and gains nothing.
LEMMA EvictionGood ==
  ASSUME NEW m, Good(m), NEW p, NEW acc, NEW r \in AfterEviction(m, p, acc)
  PROVE  Good(r) /\ Present(r) \subseteq Present(m)
<1>1. m \in Stores
  BY Zenon DEF Good, Base
<1>2. CASE r = m
  BY <1>2, Zenon
<1>3. CASE \E q \in Poppable(m) : r = RemoveAll(m, {q} \cap Present(m))
  <2>1. PICK q \in Poppable(m) : r = RemoveAll(m, {q} \cap Present(m))
    BY <1>3, Zenon
  <2> DEFINE S == {q} \cap Present(m)
  <2>2. S \in SUBSET Present(m) /\ r = RemoveAll(m, S)
    BY <2>1, Zenon
  <2> HIDE DEF S
  <2>3. Good(r)
    BY <2>2, RemoveGood, Zenon
  <2>4. Present(r) = Present(m) \ S
    BY <1>1, <2>2, RemoveType, Zenon
  <2> QED BY <2>3, <2>4, Zenon
<1> QED BY <1>2, <1>3, Zenon DEF AfterEviction

\* The last part of an insertion: from a good store without the transaction to a
\* good one with it.
LEMMA InsertGood ==
  ASSUME NEW m, Good(m), NEW p \in Pointers, p \notin Present(m), NEW gas \in Gases,
         NEW acc \in Nat, acc <= p[2], NEW state \in {"NotReady", "NonQualified"},
         NEW clean, clean = CleanCommitted(m, p[1], acc),
         NEW put, put = Put(clean, p, gas, acc, state),
         NEW marked, marked = put \/ marked = [put EXCEPT !.upgraded = @ \cup {p}]
  PROVE  Good(clean) /\ Good(ProcessReady(marked, p[1], acc))
<1>1. p[1] \in Accounts /\ Base(m)
  BY Zenon DEF Pointers, Good
<1>2. /\ Base(clean) /\ Present(clean) \subseteq Present(m)
      /\ \A q \in OfAccount(clean, p[1]) : acc <= q[2]
      /\ \A q \in Present(clean) : Fine(m, q) => Fine(clean, q)
  BY <1>1, CleanGood
<1>3. \A q \in Present(clean) : Fine(clean, q)
  BY <1>2, Zenon DEF Good
<1>4. Good(clean)
  BY <1>2, <1>3, Zenon DEF Good
<1>5. /\ Base(put) /\ Present(put) = Present(clean) \cup {p}
      /\ put.seqNums = [clean.seqNums EXCEPT ![p[1]] = acc]
      /\ put.priority = clean.priority /\ put.parking = clean.parking
  BY <1>2, PutBase
<1>6. /\ Base(marked) /\ Present(marked) = Present(clean) \cup {p}
      /\ marked.seqNums = [clean.seqNums EXCEPT ![p[1]] = acc]
      /\ marked.priority = clean.priority /\ marked.parking = clean.parking
  <2>1. CASE marked = put
    BY <1>5, <2>1, ZenonT(40)
  <2>2. CASE marked = [put EXCEPT !.upgraded = @ \cup {p}]
    BY <1>5, <2>2, MarkBase, SMTT(30)
  <2> QED BY <2>1, <2>2, Zenon
<1>7. clean.seqNums \in [Accounts -> Nat \cup {NoSeq}]
  BY <1>2, Zenon DEF Base, Stores
<1>8. marked.seqNums[p[1]] = acc
  BY <1>1, <1>6, <1>7, Zenon
<1>9. \A q \in OfAccount(marked, p[1]) : acc <= q[2] /\ marked.seqNums[p[1]] = acc
  BY <1>2, <1>6, <1>8, Zenon DEF OfAccount
<1>10. \A q \in Present(marked) : q[1] # p[1] => Fine(marked, q)
  <2> SUFFICES ASSUME NEW q \in Present(marked), q[1] # p[1]
               PROVE  Fine(marked, q)
    OBVIOUS
  <2>1. q \in Present(clean) /\ Fine(clean, q)
    BY <1>3, <1>6, Zenon
  <2>2. marked.seqNums[q[1]] = clean.seqNums[q[1]]
    BY <1>6, <1>7, <2>1, Zenon DEF Present, Pointers
  <2> QED BY <1>6, <2>1, <2>2, Zenon DEF Fine
<1>11. Good(ProcessReady(marked, p[1], acc))
  <2> DEFINE a == p[1]
  <2>1. /\ a \in Accounts /\ Base(marked)
        /\ \A q \in OfAccount(marked, a) : acc <= q[2] /\ marked.seqNums[a] = acc
        /\ \A q \in Present(marked) : q[1] # a => Fine(marked, q)
    BY <1>1, <1>6, <1>9, <1>10, Zenon
  <2> HIDE DEF a
  <2>2. Good(ProcessReady(marked, a, acc))
    BY <2>1, ProcessGood
  <2> QED BY <2>2, Zenon DEF a
<1> QED BY <1>4, <1>11, Zenon

\* And from one within the limits to one within them, if the limits are looked at.
LEMMA InsertWithin ==
  ASSUME NEW m, Good(m), NEW p \in Pointers, p \notin Present(m), NEW gas \in Gases,
         NEW acc \in Nat, acc <= p[2], NEW state \in {"NotReady", "NonQualified"},
         NEW clean, clean = CleanCommitted(m, p[1], acc),
         NEW put, put = Put(clean, p, gas, acc, state),
         NEW marked, marked = put \/ marked = [put EXCEPT !.upgraded = @ \cup {p}],
         Within(m)
  PROVE  /\ Within(clean)
         /\ ~IsFull(m) /\ ~(Cardinality(OfAccount(clean, p[1])) >= PerUser)
              => Within(ProcessReady(marked, p[1], acc))
<1>1. p[1] \in Accounts /\ Base(m)
  BY Zenon DEF Pointers, Good
<1>2. Base(clean) /\ Present(clean) \subseteq Present(m) /\ p \notin Present(clean)
  BY <1>1, CleanGood
<1>3. Within(clean)
  BY <1>1, <1>2, WithinSmaller, Zenon
<1> SUFFICES ASSUME ~IsFull(m), ~(Cardinality(OfAccount(clean, p[1])) >= PerUser)
             PROVE  Within(ProcessReady(marked, p[1], acc))
  BY <1>3, Zenon
<1>4. /\ Base(put) /\ Present(put) = Present(clean) \cup {p}
      /\ put.seqNums = [clean.seqNums EXCEPT ![p[1]] = acc]
      /\ put.priority = clean.priority /\ put.parking = clean.parking
  BY <1>2, PutBase
<1>5. Base(marked) /\ Present(marked) = Present(clean) \cup {p}
  <2>1. CASE marked = put
    BY <1>4, <2>1, SMTT(30)
  <2>2. CASE marked = [put EXCEPT !.upgraded = @ \cup {p}]
    BY <1>4, <2>2, MarkBase, SMTT(30)
  <2> QED BY <2>1, <2>2
<1> DEFINE r == ProcessReady(marked, p[1], acc)
<1>6. Base(r) /\ Present(r) = Present(marked)
  BY <1>1, <1>5, ProcessBase
<1> HIDE DEF r
<1>7. Cardinality(OfAccount(clean, p[1])) < PerUser
  <2>1. OfAccount(clean, p[1]) \in SUBSET Pointers
    BY Zenon DEF OfAccount, Present
  <2>2. Cardinality(OfAccount(clean, p[1])) \in Nat
    BY <2>1, PointersFinite, Zenon
  <2> QED BY <2>2, MempoolAssumption
<1>8. ~IsFull(clean)
  BY <1>1, <1>2, FullIsKept, Zenon
<1>9. Within(r)
  BY <1>2, <1>3, <1>5, <1>6, <1>7, <1>8, WithinLarger, SMTT(30)
<1> QED BY <1>9, Zenon DEF r

LEMMA AddGood ==
  ASSUME Good(store), NEW p \in Pointers, NEW gas \in Gases, NEW acc \in Seqs,
         NEW state \in {"NotReady", "NonQualified"}, AddTxn(p, gas, acc, state)
  PROVE  Good(store') /\ (Within(store) => Within(store'))
<1> DEFINE upgrade == store.txns[p] # Absent
           taken == IF upgrade THEN RemoveAll(store, {p}) ELSE store
           clean(m) == CleanCommitted(m, p[1], acc)
           put(m) == Put(clean(m), p, gas, acc, state)
           marked(m) == IF upgrade THEN [put(m) EXCEPT !.upgraded = @ \cup {p}] ELSE put(m)
<1>1. Good(taken) /\ p \notin Present(taken) /\ Present(taken) \subseteq Present(store)
  <2>1. CASE upgrade
    <3>1. {p} \in SUBSET Present(store) /\ store \in Stores
      BY <2>1, Zenon DEF Present, Good, Base
    <3>2. Good(RemoveAll(store, {p}))
      BY <3>1, RemoveGood, Zenon
    <3>3. Present(RemoveAll(store, {p})) = Present(store) \ {p}
      BY <3>1, RemoveType, Zenon
    <3> QED BY <2>1, <3>2, <3>3, Zenon
  <2>2. CASE ~upgrade
    BY <2>2, Zenon DEF Present
  <2> QED BY <2>1, <2>2, Zenon
<1>2. acc <= p[2] /\ acc \in Nat
  BY DEF AddTxn, Refused, Seqs, Pointers
<1>3. PICK m \in AfterEviction(taken, p, acc) :
        store' = IF IsFull(m) THEN m
                 ELSE IF Cardinality(OfAccount(clean(m), p[1])) >= PerUser THEN clean(m)
                 ELSE ProcessReady(marked(m), p[1], acc)
  BY Zenon DEF AddTxn, Inserted
<1>4. Good(m) /\ p \notin Present(m) /\ Present(m) \subseteq Present(store)
  BY <1>1, EvictionGood, Zenon
<1>5. marked(m) = put(m) \/ marked(m) = [put(m) EXCEPT !.upgraded = @ \cup {p}]
  OBVIOUS
<1> DEFINE c == clean(m)
           t == put(m)
           k == marked(m)
           r == ProcessReady(k, p[1], acc)
<1>6. /\ c = CleanCommitted(m, p[1], acc) /\ t = Put(c, p, gas, acc, state)
      /\ k = t \/ k = [t EXCEPT !.upgraded = @ \cup {p}]
      /\ r = ProcessReady(k, p[1], acc)
  BY <1>5, Zenon
<1>7. \/ store' = m \/ store' = c
      \/ /\ store' = r
         /\ ~IsFull(m) /\ ~(Cardinality(OfAccount(c, p[1])) >= PerUser)
  BY <1>3, Zenon
<1> HIDE DEF c, t, k, r
<1>8. Good(c) /\ Good(r)
  BY <1>2, <1>4, <1>6, InsertGood, SMTT(30)
<1>9. ASSUME Within(store) PROVE Within(store')
  <2>1. Base(store) /\ Base(m)
    BY <1>4, Zenon DEF Good
  <2>2. Within(m)
    BY <1>4, <1>9, <2>1, WithinSmaller, ZenonT(40)
  <2>3. Within(c)
    BY <1>2, <1>4, <1>6, <2>2, InsertWithin, SMTT(30)
  <2>4. CASE /\ store' = r
             /\ ~IsFull(m) /\ ~(Cardinality(OfAccount(c, p[1])) >= PerUser)
    BY <1>2, <1>4, <1>6, <2>2, <2>4, InsertWithin, SMTT(30)
  <2> QED BY <1>7, <2>2, <2>3, <2>4, Zenon
<1> QED BY <1>4, <1>7, <1>8, <1>9, Zenon

LEMMA CommitGood ==
  ASSUME Good(store), NEW a \in Accounts, NEW seq \in Seqs, CommitTransaction(a, seq)
  PROVE  Good(store') /\ Present(store') \subseteq Present(store)
<1> DEFINE new == IF store.seqNums[a] > seq + 1 THEN store.seqNums[a] ELSE seq + 1
           m == [store EXCEPT !.seqNums[a] = new]
           c == CleanCommitted(m, a, new)
<1>1. store \in Stores /\ Base(store)
  BY Zenon DEF Good, Base
<1>2. new \in Nat /\ store' = ProcessReady(c, a, new)
  <2>1. store.seqNums[a] \in Nat \cup {NoSeq} /\ seq \in Nat
    BY <1>1 DEF Stores, Seqs
  <2> QED BY <2>1 DEF CommitTransaction, Committed
<1>3. /\ m.txns = store.txns /\ m.ttl = store.ttl /\ m.priority = store.priority
      /\ m.timeline = store.timeline /\ m.parking = store.parking /\ m.hashes = store.hashes
      /\ m.size = store.size /\ m.upgraded = store.upgraded
      /\ m.seqNums = [store.seqNums EXCEPT ![a] = new]
      /\ m = [txns |-> m.txns, seqNums |-> m.seqNums, ttl |-> m.ttl, priority |-> m.priority,
              timeline |-> m.timeline, parking |-> m.parking, hashes |-> m.hashes,
              size |-> m.size, upgraded |-> m.upgraded]
  BY <1>1 DEF Stores
<1> HIDE DEF new, m, c
<1>4. Present(m) = Present(store) /\ InTimeline(m) = InTimeline(store)
  BY <1>3, Zenon DEF Present, InTimeline
<1>5. m \in Stores
  BY <1>1, <1>2, <1>3, ZenonT(40) DEF Stores
<1>6. Base(m)
  <2>1. Coherent(m)
    <3>1. m.hashes = {<<q, m.txns[q].gas>> : q \in Present(m)}
      BY <1>1, <1>3, <1>4 DEF Coherent, Base
    <3> QED BY <1>1, <1>3, <1>4, <3>1, Zenon DEF Coherent, Base
  <2> QED BY <1>1, <1>3, <1>4, <1>5, <2>1, Zenon DEF Base
<1>7. /\ Base(c) /\ Present(c) \subseteq Present(m)
      /\ \A p \in OfAccount(c, a) : new <= p[2]
      /\ \A p \in Present(c) : Fine(m, p) => Fine(c, p)
      /\ \A p \in OfAccount(c, a) : c.seqNums[a] = m.seqNums[a]
  BY <1>2, <1>6, CleanGood, Zenon DEF c
<1>8. m.seqNums[a] = new
  BY <1>1, <1>3, Zenon DEF Stores
<1>9. \A p \in OfAccount(c, a) : new <= p[2] /\ c.seqNums[a] = new
  BY <1>7, <1>8, Zenon
<1>10. \A p \in Present(c) : p[1] # a => Fine(c, p)
  <2> SUFFICES ASSUME NEW p \in Present(c), p[1] # a
               PROVE  Fine(c, p)
    OBVIOUS
  <2>1. Fine(store, p)
    BY <1>4, <1>7, Zenon DEF Good
  <2>2. m.seqNums[p[1]] = store.seqNums[p[1]]
    BY <1>1, <1>3, <1>7, SMTT(30) DEF Stores, Present, Pointers
  <2>3. Fine(m, p)
    BY <1>3, <2>1, <2>2, Zenon DEF Fine
  <2> QED BY <1>7, <2>3, Zenon
<1>11. Good(store')
  BY <1>2, <1>7, <1>9, <1>10, ProcessGood, Zenon
<1>12. Present(store') = Present(c)
  BY <1>2, <1>7, ProcessBase, Zenon
<1> QED BY <1>4, <1>7, <1>11, <1>12, Zenon

LEMMA RejectGood ==
  ASSUME Good(store), NEW p \in Pointers, NEW gas \in Gases, RejectTransaction(p, gas)
  PROVE  Good(store') /\ Present(store') \subseteq Present(store)
<1> DEFINE S == {p} \cap Present(store)
<1>1. S \in SUBSET Present(store) /\ store \in Stores /\ store' = RemoveAll(store, S)
  BY Zenon DEF RejectTransaction, Good, Base
<1> HIDE DEF S
<1>2. Good(store') /\ Present(store') = Present(store) \ S
  BY <1>1, RemoveGood, RemoveType, Zenon
<1> QED BY <1>2, Zenon

\* An expiry parks what it unreadies, and the account's next transaction has
\* nothing below it that could expire.
LEMMA GcGood ==
  ASSUME Good(store), NEW expired \in SUBSET store.ttl, Gc(expired)
  PROVE  Good(store') /\ Present(store') \subseteq Present(store)
<1> DEFINE parked == {p \in Present(store) \ expired :
                        \E e \in expired : e[1] = p[1] /\ e[2] < p[2]}
           unready == parked \cap InTimeline(store)
           tx == [p \in Pointers |-> IF p \in unready
                                     THEN [store.txns[p] EXCEPT !.state = "NotReady"]
                                     ELSE store.txns[p]]
           m == [store EXCEPT !.txns = tx, !.priority = @ \ parked, !.timeline = @ \ unready,
                              !.parking = @ \cup parked]
<1>1. /\ store \in Stores /\ Coherent(store) /\ store.parking \cap store.timeline = {}
      /\ store.size = Bytes(Present(store)) /\ \A p \in Present(store) : Fine(store, p)
  BY Zenon DEF Good, Base
<1>3. store' = RemoveAll(m, expired \cap Present(m))
  BY Zenon DEF Gc
<1>4. /\ parked \subseteq Present(store) /\ unready = parked \cap InTimeline(store)
      /\ Present(store) \subseteq Pointers
  BY Zenon DEF Present
<1>5. \A p \in parked : p[2] # store.seqNums[p[1]]
  <2> SUFFICES ASSUME NEW p \in Present(store), NEW e \in expired, e[1] = p[1], e[2] < p[2]
               PROVE  p[2] # store.seqNums[p[1]]
    OBVIOUS
  <2>1. e \in Present(store)
    BY <1>1, Zenon DEF Coherent
  <2>2. store.seqNums[e[1]] <= e[2]
    BY <1>1, <2>1, Zenon DEF Fine
  <2>3. e[1] \in Accounts /\ e[2] \in Nat /\ p[2] \in Nat
    BY <2>1, SMTT(30) DEF Present, Pointers, Seqs
  <2>4. store.seqNums[e[1]] \in Int
    BY <1>1, <2>3 DEF Stores
  <2> QED BY <2>2, <2>3, <2>4, SMTT(30)
<1> HIDE DEF parked, unready
<1>2. /\ m.txns = [p \in Pointers |-> IF p \in unready
                                     THEN [store.txns[p] EXCEPT !.state = "NotReady"]
                                     ELSE store.txns[p]]
      /\ m.priority = store.priority \ parked /\ m.timeline = store.timeline \ unready
      /\ m.parking = store.parking \cup parked
      /\ m.seqNums = store.seqNums /\ m.ttl = store.ttl /\ m.hashes = store.hashes
      /\ m.size = store.size /\ m.upgraded = store.upgraded
      /\ m = [txns |-> m.txns, seqNums |-> m.seqNums, ttl |-> m.ttl, priority |-> m.priority,
              timeline |-> m.timeline, parking |-> m.parking, hashes |-> m.hashes,
              size |-> m.size, upgraded |-> m.upgraded]
  <2>1. m = [store EXCEPT !.txns = tx, !.priority = @ \ parked, !.timeline = @ \ unready,
                          !.parking = @ \cup parked]
    OBVIOUS
  <2> HIDE DEF m, tx
  <2>2. /\ m.txns = tx
        /\ m.priority = store.priority \ parked /\ m.timeline = store.timeline \ unready
        /\ m.parking = store.parking \cup parked
        /\ m.seqNums = store.seqNums /\ m.ttl = store.ttl /\ m.hashes = store.hashes
        /\ m.size = store.size /\ m.upgraded = store.upgraded
        /\ m = [txns |-> m.txns, seqNums |-> m.seqNums, ttl |-> m.ttl, priority |-> m.priority,
                timeline |-> m.timeline, parking |-> m.parking, hashes |-> m.hashes,
                size |-> m.size, upgraded |-> m.upgraded]
    BY <1>1, <2>1, Zenon DEF Stores
  <2> QED BY <2>2, Zenon DEF tx
<1> HIDE DEF m, tx
<1>6. \A p \in Present(store) : store.txns[p] \in [gas : Gases, state : States]
  BY <1>1, Zenon DEF Stores, Present
<1>7. \A p \in Pointers :
        /\ m.txns[p] = Absent <=> store.txns[p] = Absent
        /\ p \in Present(store) => m.txns[p].gas = store.txns[p].gas
        /\ p \in Present(store) =>
             m.txns[p].state = IF p \in unready THEN "NotReady" ELSE store.txns[p].state
        /\ p \in Present(store) => m.txns[p] \in [gas : Gases, state : States]
  BY <1>2, <1>4, <1>6, SMTT(30) DEF Absent, States, Present
<1>8. Present(m) = Present(store)
  BY <1>7, Zenon DEF Present
<1>9. InTimeline(m) = InTimeline(store) \ unready
  BY <1>4, <1>7, <1>8, Zenon DEF InTimeline
<1>10. m \in Stores
  <2>1. m.txns \in [Pointers -> [gas : Gases, state : States] \cup {Absent}]
    BY <1>2, <1>4, <1>7, Zenon DEF Present
  <2>2. /\ m.seqNums \in [Accounts -> Nat \cup {NoSeq}] /\ m.ttl \in SUBSET Pointers
        /\ m.hashes \in SUBSET (Pointers \X Gases) /\ m.size \in Int
        /\ m.upgraded \in SUBSET Pointers
    BY <1>1, <1>2, Zenon DEF Stores
  <2>3. /\ store.priority \in SUBSET Pointers /\ store.timeline \in SUBSET Pointers
        /\ store.parking \in SUBSET Pointers
    BY <1>1, Zenon DEF Stores
  <2>4. m.priority \in SUBSET Pointers /\ m.timeline \in SUBSET Pointers /\ m.parking \in SUBSET Pointers
    BY <1>2, <1>4, <2>3, SMTT(30)
  <2> QED BY <1>2, <2>1, <2>2, <2>4, Zenon DEF Stores
<1>11. Coherent(m)
  <2>1. m.hashes = {<<p, m.txns[p].gas>> : p \in Present(m)}
    BY <1>1, <1>2, <1>4, <1>7, <1>8 DEF Coherent
  <2>2. m.priority \cup m.parking \cup m.upgraded \subseteq Present(m)
    BY <1>1, <1>2, <1>4, <1>8, Zenon DEF Coherent
  <2>3. m.timeline = InTimeline(m) /\ m.timeline \subseteq m.priority
    BY <1>1, <1>2, <1>4, <1>9, Zenon DEF Coherent
  <2> QED BY <1>1, <1>2, <1>8, <2>1, <2>2, <2>3, Zenon DEF Coherent
<1>12. m.parking \cap m.timeline = {}
  BY <1>1, <1>2, <1>4, ZenonT(40) DEF Coherent
<1>13. \A p \in Present(m) : Fine(m, p)
  BY <1>1, <1>2, <1>5, <1>8, Zenon DEF Fine
<1>14. Good(m)
  BY <1>1, <1>2, <1>8, <1>10, <1>11, <1>12, <1>13, SMTT(30) DEF Good, Base
<1>15. expired \cap Present(m) \in SUBSET Present(m)
  OBVIOUS
<1>16. Good(store') /\ Present(store') = Present(m) \ (expired \cap Present(m))
  BY <1>3, <1>10, <1>14, <1>15, RemoveGood, RemoveType, Zenon
<1> QED BY <1>8, <1>16, Zenon

GoodStore == Good(store) /\ Within(store)

LEMMA GoodInit == Init => GoodStore
<1> SUFFICES ASSUME Init PROVE Good(store) /\ Within(store)
  BY Zenon DEF GoodStore
<1>1. Present(store) = {} /\ InTimeline(store) = {}
  BY Zenon DEF Init, Present, InTimeline
<1>2. Bytes({}) = 0
  <2>1. {p \in {} : p[2] \in BigSeqs} = {}
    OBVIOUS
  <2> QED BY <2>1, FS_EmptySet DEF Bytes
<1>3. store \in Stores
  BY SMTT(30) DEF Init, Stores
<1>4. Coherent(store)
  BY <1>1, Zenon DEF Init, Coherent
<1>5. Good(store)
  BY <1>1, <1>2, <1>3, <1>4, Zenon DEF Good, Base, Init
<1>6. Within(store)
  <2>1. Cardinality(Present(store)) = 0 /\ store.size = 0
    <3>1. Cardinality(Present(store)) = 0
      BY <1>1, FS_EmptySet, Zenon
    <3> QED BY <3>1, Zenon DEF Init
  <2>2. \A a \in Accounts : Cardinality(OfAccount(store, a)) = 0
    BY <1>1, FS_EmptySet, Zenon DEF OfAccount
  <2> QED BY <2>1, <2>2, MempoolAssumption DEF Within
<1> QED BY <1>5, <1>6, Zenon

LEMMA GoodStep == GoodStore /\ [Next]_vars => GoodStore'
<1> SUFFICES ASSUME Good(store), Within(store), [Next]_vars
             PROVE  Good(store') /\ Within(store')
  BY Zenon DEF GoodStore
<1>1. CASE UNCHANGED vars
  BY <1>1, Zenon DEF vars
<1>2. CASE Next
  <2>1. ASSUME Good(store'), Present(store') \subseteq Present(store)
        PROVE  Within(store')
    BY <2>1, WithinSmaller, Zenon DEF Good
  <2> QED BY <1>2, <2>1, AddGood, CommitGood, RejectGood, GcGood, Zenon DEF Next
<1> QED BY <1>1, <1>2, Zenon

LEMMA GoodAlways == Spec => []GoodStore
BY GoodInit, GoodStep, PTL DEF Spec

\* The store keeps its type, for every instance.
THEOREM TypeCorrect == Spec => []TypeOK
<1>1. GoodStore => TypeOK
  BY Zenon DEF GoodStore, Good, Base, TypeOK
<1> QED BY <1>1, GoodAlways, PTL

\* After any sequence of insertions, gas upgrades, evictions, commits, rejections and
\* expiries the indexes of TransactionStore describe exactly what is pooled.
THEOREM IndexesCorrect == Spec => []IndexesAgree
<1>1. GoodStore => IndexesAgree
  BY Zenon DEF GoodStore, Good, Base, IndexesAgree
<1> QED BY <1>1, GoodAlways, PTL

\* size_bytes is exact after every call, so index_remove never underflows it.
THEOREM SizeCorrect == Spec => []SizeIsExact
<1>1. GoodStore => SizeIsExact
  BY Zenon DEF GoodStore, Good, Base, SizeIsExact
<1> QED BY <1>1, GoodAlways, PTL

\* A pooled transaction can always be pulled or evicted, and none on the timeline is
\* evicted, whatever insert, commit_transaction, reject_transaction and gc did before.
THEOREM NothingIsStranded == Spec => []NothingStranded
<1>1. GoodStore => NothingStranded
  BY Zenon DEF GoodStore, Good, Base, Fine, NothingStranded
<1> QED BY <1>1, GoodAlways, PTL

\* clean_committed_transactions leaves nothing below an account's sequence number, and
\* no later call brings such a transaction back.
THEOREM NothingIsStale == Spec => []NoStalePending
<1>1. GoodStore => NoStalePending
  BY Zenon DEF GoodStore, Good, Base, Fine, NoStalePending
<1> QED BY <1>1, GoodAlways, PTL

\* An account's next transaction is in the priority index as soon as it is pooled.
THEOREM NextCanBePulled == Spec => []NextIsReady
<1>1. GoodStore => NextIsReady
  BY Zenon DEF GoodStore, Good, Base, Fine, NextIsReady
<1> QED BY <1>1, GoodAlways, PTL

\* The limits on the number of transactions, per account and in all, are never exceeded,
\* and the one on bytes by less than a transaction: a gas upgrade frees its place and an
\* eviction another's before the capacity is looked at, and process_ready_transactions
\* adds nothing.
THEOREM CapacityKept == Spec => []WithinCapacity
<1>1. GoodStore => WithinCapacity
  BY Zenon DEF GoodStore, Within, WithinCapacity
<1> QED BY <1>1, GoodAlways, PTL

-----------------------------------------------------------------------------
(* Wakeup: for any transactions, handlers, batch size, timeout and engine    *)
(* bounds, with or without the handlers' lock.                               *)

USE DEF flags, engine, ghosts

Tasks == [pc : Steps, txs : SUBSET Txs, then : {"free", "notify", "build"}]

LEMMA AtType == \A step \in Steps : At(step) \in Tasks
<1>1. "free" \in Steps
  BY Zenon DEF Steps
<1>2. QED
  BY <1>1, Zenon DEF At, Tasks

LEMMA GotoType ==
  ASSUME task \in [Handlers -> Tasks], NEW h \in Handlers, NEW step \in Steps, Goto(h, step)
  PROVE  task' \in [Handlers -> Tasks]
BY AtType, Zenon DEF Goto

LEMMA WakeupTypeInit == WakeupInit => WakeupTypeOK
<1> SUFFICES ASSUME WakeupInit PROVE WakeupTypeOK
  OBVIOUS
<1>1. task \in [Handlers -> Tasks]
  <2>1. "free" \in Steps
    BY Zenon DEF Steps
  <2>2. At("free") \in Tasks
    BY <2>1, AtType, Zenon
  <2>3. QED
    BY <2>2, Zenon DEF WakeupInit
<1>2. processing \in Seq(SUBSET Txs) /\ Len(processing) <= MaxProcessing
  BY WakeupAssumption DEF WakeupInit
<1>3. since \in 0..(Timeout + 1) /\ wakes \in 0..MaxWakes
  BY WakeupAssumption DEF WakeupInit
<1>4. QED
  BY <1>1, <1>2, <1>3, Zenon DEF WakeupInit, WakeupTypeOK, Tasks

\* A handler's record after each of its steps.
LEMMA TaskStep == WakeupTypeOK /\ [WakeupNext]_wakeupVars => task' \in [Handlers -> Tasks]
<1> SUFFICES ASSUME WakeupTypeOK, [WakeupNext]_wakeupVars PROVE task' \in [Handlers -> Tasks]
  OBVIOUS
<1>t. task \in [Handlers -> Tasks] /\ pool \subseteq Txs
  BY Zenon DEF WakeupTypeOK, Tasks
<1>s. \A step \in Steps : At(step) \in Tasks
  BY AtType, Zenon
<1>p. {"free", "add", "notify", "flag", "send", "mark", "build", "commit", "done"} \subseteq Steps
  BY Zenon DEF Steps
<1>1. ASSUME NEW h \in Handlers, AddPool(h) PROVE task' \in [Handlers -> Tasks]
  <2>1. task[h] \in Tasks /\ task[h].then \in Steps /\ task[h].txs \subseteq Txs
    BY <1>t, <1>p, Zenon DEF Tasks
  <2>2. CASE task[h].txs = {}
    BY <1>1, <1>t, <2>1, <2>2, GotoType, Zenon DEF AddPool
  <2>3. CASE task[h].txs # {}
    <3>1. PICK x \in task[h].txs : task' = [task EXCEPT ![h].txs = @ \ {x}]
      BY <1>1, <2>3, Zenon DEF AddPool
    <3>2. [task[h] EXCEPT !.txs = @ \ {x}] \in Tasks
      BY <2>1, Zenon DEF Tasks
    <3>3. QED
      BY <1>t, <3>1, <3>2, Zenon
  <2>4. QED
    BY <2>2, <2>3, Zenon
<1>2. ASSUME NEW h \in Handlers, NEW step \in Steps, Goto(h, step)
      PROVE  task' \in [Handlers -> Tasks]
  BY <1>2, <1>t, GotoType, Zenon
<1>3. ASSUME NEW h \in Handlers, BuildData(h) PROVE task' \in [Handlers -> Tasks]
  <2>1. PICK T \in Batches : task' = [task EXCEPT ![h] = [At("commit") EXCEPT !.txs = T]]
    BY <1>3, Zenon DEF BuildData
  <2>2. T \subseteq Txs
    BY <1>t, Zenon DEF Batches
  <2>3. [At("commit") EXCEPT !.txs = T] \in Tasks
    BY <1>p, <2>2, Zenon DEF At, Tasks
  <2>4. QED
    BY <1>t, <2>1, <2>3, Zenon
<1>4. ASSUME NEW h \in Handlers, NEW x \in Txs, NEW large \in BOOLEAN, SubmitTransaction(h, x, large)
      PROVE  task' \in [Handlers -> Tasks]
  <2>1. [pc |-> "add", txs |-> {x}, then |-> IF large THEN "build" ELSE "notify"] \in Tasks
    BY <1>p, Zenon DEF Tasks
  <2>2. QED
    BY <1>4, <1>t, <2>1, Zenon DEF SubmitTransaction
<1>5. ASSUME NEW h \in Handlers, NEW T \in SUBSET Txs, NEW someFailed \in BOOLEAN,
             SubmitTransactionBatch(h, T, someFailed)
      PROVE  task' \in [Handlers -> Tasks]
  <2>1. [pc |-> "add", txs |-> T, then |-> IF someFailed THEN "notify" ELSE "free"] \in Tasks
    BY <1>p, Zenon DEF Tasks
  <2>2. QED
    BY <1>5, <1>t, <2>1, Zenon DEF SubmitTransactionBatch
<1>6. CASE UNCHANGED task
  BY <1>6, <1>t, Zenon
<1>7. QED
  <2>1. ASSUME NEW h \in Handlers,
               ReadFlags(h) \/ SetPending(h) \/ SendPendingTxs(h) \/ MarkBuilding(h)
                 \/ CommitLarge(h) \/ FinishLarge(h)
        PROVE  task' \in [Handlers -> Tasks]
    <3>1. \E step \in Steps : Goto(h, step)
      BY <2>1, <1>p, Zenon DEF ReadFlags, SetPending, SendPendingTxs, MarkBuilding, CommitLarge, FinishLarge
    <3>2. QED
      BY <3>1, <1>2, Zenon
  <2>2. CASE TimerStep \/ Tick \/ BuildBlock \/ BuildBlockFails \/ Accept \/ FinishAccept
    BY <2>2, <1>6, Zenon DEF TimerStep, TimerWakes, TimerLooks, TimerClears, TimerSends, TimerMarks,
      TimerResets, Tick, BuildBlock, BuildBlockFails, Accept, FinishAccept
  <2>3. CASE \/ \E x \in Txs : AppGossip(x)
             \/ \E T \in SUBSET Txs : VerifyForeign(T) \/ AcceptSibling(T)
    BY <2>3, <1>6, Zenon DEF AppGossip, VerifyForeign, AcceptSibling
  <2>4. CASE UNCHANGED wakeupVars
    BY <2>4, <1>6, Zenon DEF wakeupVars
  <2>5. QED
    BY <1>1, <1>3, <1>4, <1>5, <2>1, <2>2, <2>3, <2>4, Zenon DEF WakeupNext, HandlerStep

\* The pool and the two sets of transactions inside it.
LEMMA SetsStep ==
  WakeupTypeOK /\ [WakeupNext]_wakeupVars => pool' \subseteq Txs /\ announced' \subseteq pool' /\ missed' \subseteq announced'
<1> SUFFICES ASSUME WakeupTypeOK, [WakeupNext]_wakeupVars
             PROVE  pool' \subseteq Txs /\ announced' \subseteq pool' /\ missed' \subseteq announced'
  OBVIOUS
<1>t. /\ task \in [Handlers -> Tasks]
      /\ pool \subseteq Txs /\ announced \subseteq pool /\ missed \subseteq announced
  BY Zenon DEF WakeupTypeOK, Tasks
<1>1. ASSUME NEW h \in Handlers, AddPool(h)
      PROVE  pool' \subseteq Txs /\ announced' \subseteq pool' /\ missed' \subseteq announced'
  <2>1. task[h].txs \subseteq Txs
    BY <1>t, Zenon DEF Tasks
  <2>2. QED
    BY <1>1, <1>t, <2>1, Zenon DEF AddPool
<1>2. ASSUME NEW T, pool' = pool \ T, announced' = announced \ T,
             missed' \subseteq (missed \cup announced) \ T
      PROVE  pool' \subseteq Txs /\ announced' \subseteq pool' /\ missed' \subseteq announced'
  BY <1>2, <1>t, Zenon
<1>3. CASE UNCHANGED <<pool, announced>> /\ missed' \subseteq missed \cup announced
  BY <1>3, <1>t, Zenon
<1>4. QED
  <2>1. CASE TimerStep \/ Tick \/ FinishAccept
    BY <2>1, <1>3, Zenon DEF TimerStep, TimerWakes, TimerLooks, TimerClears, TimerSends, TimerMarks,
      TimerResets, Tick, FinishAccept
  <2>2. CASE BuildBlock \/ BuildBlockFails
    <3>1. UNCHANGED <<pool, announced>> /\ missed' \subseteq missed \cup announced
      BY <2>2, Zenon DEF BuildBlock, BuildBlockFails
    <3>2. QED
      BY <3>1, <1>3, Zenon
  <2>3. ASSUME NEW h \in Handlers,
               ReadFlags(h) \/ SetPending(h) \/ SendPendingTxs(h) \/ MarkBuilding(h)
                 \/ FinishLarge(h) \/ BuildData(h)
        PROVE  UNCHANGED <<pool, announced>> /\ missed' \subseteq missed \cup announced
    BY <2>3, Zenon DEF ReadFlags, SetPending, SendPendingTxs, MarkBuilding, FinishLarge, BuildData
  <2>4. ASSUME NEW h \in Handlers, CommitLarge(h)
        PROVE  \E T : /\ pool' = pool \ T /\ announced' = announced \ T
                      /\ missed' \subseteq (missed \cup announced) \ T
    BY <2>4, Zenon DEF CommitLarge
  <2>5. CASE Accept
    BY <2>5, <1>2, Zenon DEF Accept
  <2>6. ASSUME NEW T \in SUBSET Txs, AcceptSibling(T)
        PROVE  /\ pool' = pool \ T /\ announced' = announced \ T
               /\ missed' \subseteq (missed \cup announced) \ T
    BY <2>6, Zenon DEF AcceptSibling
  <2>7. CASE \E x \in Txs : AppGossip(x)
    BY <2>7, <1>t, Zenon DEF AppGossip
  <2>8. ASSUME NEW T \in SUBSET Txs, VerifyForeign(T)
        PROVE  UNCHANGED <<pool, announced>> /\ missed' \subseteq missed \cup announced
    BY <2>8, Zenon DEF VerifyForeign
  <2>9. ASSUME NEW h \in Handlers,
               \/ \E x \in Txs, large \in BOOLEAN : SubmitTransaction(h, x, large)
               \/ \E T \in SUBSET Txs, f \in BOOLEAN : SubmitTransactionBatch(h, T, f)
        PROVE  UNCHANGED <<pool, announced>> /\ missed' \subseteq missed \cup announced
    BY <2>9, Zenon DEF SubmitTransaction, SubmitTransactionBatch
  <2>10. CASE UNCHANGED wakeupVars
    BY <2>10, <1>3, Zenon DEF wakeupVars
  <2>11. QED
    BY <1>1, <1>2, <1>3, <2>1, <2>2, <2>3, <2>4, <2>5, <2>6, <2>7, <2>8, <2>9, <2>10, Zenon DEF WakeupNext, HandlerStep

\* The blocks in consensus, the messages to the engine and the timer's clock.
LEMMA EngineStep ==
  WakeupTypeOK /\ [WakeupNext]_wakeupVars => /\ processing' \in Seq(SUBSET Txs) /\ Len(processing') <= MaxProcessing
                          /\ wakes' \in 0..MaxWakes /\ since' \in 0..(Timeout + 1)
<1> DEFINE Goal == /\ processing' \in Seq(SUBSET Txs) /\ Len(processing') <= MaxProcessing
                   /\ wakes' \in 0..MaxWakes /\ since' \in 0..(Timeout + 1)
<1> SUFFICES ASSUME WakeupTypeOK, [WakeupNext]_wakeupVars PROVE Goal
  OBVIOUS
<1>t. /\ processing \in Seq(SUBSET Txs) /\ Len(processing) <= MaxProcessing
      /\ wakes \in 0..MaxWakes /\ since \in 0..(Timeout + 1)
      /\ MaxWakes \in Nat /\ MaxProcessing \in Nat /\ Timeout \in Nat
  BY WakeupAssumption, Zenon DEF WakeupTypeOK
<1>p. pool \subseteq Txs
  BY Zenon DEF WakeupTypeOK
<1>1. ASSUME NEW T \in SUBSET Txs, Len(processing) < MaxProcessing,
             processing' = Append(processing, T), wakes' \in 0..MaxWakes, UNCHANGED since
      PROVE  Goal
  BY <1>1, <1>t
<1>2. CASE /\ processing # <<>> /\ UNCHANGED <<wakes, since>>
           /\ processing' = Tail(processing) \/ processing' = <<>>
  <2>1. Tail(processing) \in Seq(SUBSET Txs) /\ Len(Tail(processing)) <= MaxProcessing
    BY <1>2, <1>t
  <2>2. <<>> \in Seq(SUBSET Txs) /\ Len(<<>>) <= MaxProcessing
    BY <1>t
  <2>3. wakes' \in 0..MaxWakes /\ since' \in 0..(Timeout + 1)
    BY <1>2, <1>t, Zenon
  <2>4. QED
    BY <1>2, <2>1, <2>2, <2>3, Zenon
<1>3. CASE /\ UNCHANGED processing
           /\ Send \/ UNCHANGED wakes
           /\ UNCHANGED since \/ since' = 0 \/ (since <= Timeout /\ since' = since + 1)
  BY <1>3, <1>t, SMTT(30) DEF Send
<1>4. CASE BuildBlock
  <2>1. PICK T \in Batches : processing' = Append(processing, T)
    BY <1>4, Zenon DEF BuildBlock
  <2>2. T \in SUBSET Txs
    BY <1>p, Zenon DEF Batches
  <2>3. Len(processing) < MaxProcessing /\ wakes' \in 0..MaxWakes /\ UNCHANGED since
    BY <1>4, <1>t DEF BuildBlock
  <2>4. QED
    BY <1>1, <2>1, <2>2, <2>3, Zenon
<1>5. CASE BuildBlockFails
  <2>1. UNCHANGED <<processing, since>> /\ wakes > 0 /\ wakes' = wakes - 1
    BY <1>5, Zenon DEF BuildBlockFails
  <2>2. QED
    BY <2>1, <1>t
<1>6. ASSUME NEW T \in SUBSET Txs, VerifyForeign(T) PROVE Goal
  <2>1. /\ Len(processing) < MaxProcessing /\ processing' = Append(processing, T)
        /\ UNCHANGED <<wakes, since>>
    BY <1>6, Zenon DEF VerifyForeign
  <2>2. QED
    BY <1>1, <1>t, <2>1, Zenon
<1>7. CASE Accept \/ \E T \in SUBSET Txs : AcceptSibling(T)
  <2>1. /\ processing # <<>> /\ UNCHANGED <<wakes, since>>
        /\ processing' = Tail(processing) \/ processing' = <<>>
    BY <1>7, Zenon DEF Accept, AcceptSibling
  <2>2. QED
    BY <1>2, <2>1, Zenon
<1>8. QED
  <2>1. CASE TimerStep \/ Tick \/ FinishAccept
    <3>1. /\ UNCHANGED processing
          /\ Send \/ UNCHANGED wakes
          /\ UNCHANGED since \/ since' = 0 \/ (since <= Timeout /\ since' = since + 1)
      BY <2>1, Zenon DEF TimerStep, TimerWakes, TimerLooks, TimerClears, TimerSends, TimerMarks,
        TimerResets, Tick, FinishAccept
    <3>2. QED
      BY <3>1, <1>3, Zenon
  <2>2. ASSUME NEW h \in Handlers, HandlerStep(h)
        PROVE  UNCHANGED processing /\ (Send \/ UNCHANGED wakes) /\ UNCHANGED since
    BY <2>2, Zenon DEF HandlerStep, AddPool, ReadFlags, SetPending, SendPendingTxs, MarkBuilding,
      BuildData, CommitLarge, FinishLarge
  <2>3. ASSUME NEW h \in Handlers,
               \/ \E x \in Txs, large \in BOOLEAN : SubmitTransaction(h, x, large)
               \/ \E T \in SUBSET Txs, f \in BOOLEAN : SubmitTransactionBatch(h, T, f)
        PROVE  UNCHANGED <<processing, wakes, since>>
    BY <2>3, Zenon DEF SubmitTransaction, SubmitTransactionBatch
  <2>4. CASE \E x \in Txs : AppGossip(x)
    BY <2>4, <1>3, Zenon DEF AppGossip
  <2>5. CASE UNCHANGED wakeupVars
    BY <2>5, <1>3, Zenon DEF wakeupVars
  <2>6. QED
    BY <1>3, <1>4, <1>5, <1>6, <1>7, <2>1, <2>2, <2>3, <2>4, <2>5, Zenon DEF WakeupNext

\* The two flags, the timer's step and the accept in progress.
LEMMA FlagStep ==
  WakeupTypeOK /\ [WakeupNext]_wakeupVars =>
    /\ building' \in BOOLEAN /\ hasPending' \in BOOLEAN /\ accepting' \in BOOLEAN
    /\ timer' \in {"sleep", "look", "clear", "send", "mark", "reset"}
<1> DEFINE Goal == /\ building' \in BOOLEAN /\ hasPending' \in BOOLEAN /\ accepting' \in BOOLEAN
                   /\ timer' \in {"sleep", "look", "clear", "send", "mark", "reset"}
<1> SUFFICES ASSUME WakeupTypeOK, [WakeupNext]_wakeupVars PROVE Goal
  OBVIOUS
<1>t. /\ building \in BOOLEAN /\ hasPending \in BOOLEAN /\ accepting \in BOOLEAN
      /\ timer \in {"sleep", "look", "clear", "send", "mark", "reset"}
  BY Zenon DEF WakeupTypeOK
<1>1. CASE TimerStep \/ Tick
  BY <1>1, <1>t, Zenon DEF TimerStep, TimerWakes, TimerLooks, TimerClears, TimerSends, TimerMarks,
    TimerResets, Tick
<1>2. ASSUME NEW h \in Handlers, HandlerStep(h) PROVE Goal
  BY <1>2, <1>t, Zenon DEF HandlerStep, AddPool, ReadFlags, SetPending, SendPendingTxs, MarkBuilding,
    BuildData, CommitLarge, FinishLarge
<1>3. ASSUME NEW h \in Handlers,
             \/ \E x \in Txs, large \in BOOLEAN : SubmitTransaction(h, x, large)
             \/ \E T \in SUBSET Txs, f \in BOOLEAN : SubmitTransactionBatch(h, T, f)
      PROVE  Goal
  BY <1>3, <1>t, Zenon DEF SubmitTransaction, SubmitTransactionBatch
<1>4. CASE \/ \E x \in Txs : AppGossip(x)
           \/ \E T \in SUBSET Txs : VerifyForeign(T) \/ AcceptSibling(T)
  BY <1>4, <1>t, Zenon DEF AppGossip, VerifyForeign, AcceptSibling
<1>5. CASE BuildBlock \/ BuildBlockFails \/ Accept \/ FinishAccept
  BY <1>5, <1>t, Zenon DEF BuildBlock, BuildBlockFails, Accept, FinishAccept
<1>6. CASE UNCHANGED wakeupVars
  BY <1>6, <1>t, Zenon DEF wakeupVars
<1>7. QED
  BY <1>1, <1>2, <1>3, <1>4, <1>5, <1>6, Zenon DEF WakeupNext

LEMMA WakeupTypeStep == WakeupTypeOK /\ [WakeupNext]_wakeupVars => WakeupTypeOK'
<1> SUFFICES ASSUME WakeupTypeOK, [WakeupNext]_wakeupVars PROVE WakeupTypeOK'
  OBVIOUS
<1>1. task' \in [Handlers -> Tasks]
  BY TaskStep, Zenon
<1>2. pool' \subseteq Txs /\ announced' \subseteq pool' /\ missed' \subseteq announced'
  BY SetsStep, Zenon
<1>3. /\ processing' \in Seq(SUBSET Txs) /\ Len(processing') <= MaxProcessing
      /\ wakes' \in 0..MaxWakes /\ since' \in 0..(Timeout + 1)
  BY EngineStep, Zenon
<1>4. /\ building' \in BOOLEAN /\ hasPending' \in BOOLEAN /\ accepting' \in BOOLEAN
      /\ timer' \in {"sleep", "look", "clear", "send", "mark", "reset"}
  BY FlagStep, Zenon
<1>5. QED
  BY <1>1, <1>2, <1>3, <1>4, Zenon DEF WakeupTypeOK, Tasks

\* Every reachable state of handlers, timer and engine is well formed; the ghost
\* sets stay inside the pool whatever is removed from it.
THEOREM WakeupTypeCorrect == WakeupSpec => []WakeupTypeOK
BY WakeupTypeInit, WakeupTypeStep, PTL DEF WakeupSpec

-----------------------------------------------------------------------------
(* No wake-up is lost. *)

\* What a handler, the timer or the engine still has to do is not undone by a
\* step of another: a step that leaves a waiting transaction waiting keeps it on
\* its way.
LEMMA WakeupStep == WakeupTypeOK /\ NoLostWakeup /\ [WakeupNext]_wakeupVars => NoLostWakeup'
<1> SUFFICES ASSUME WakeupTypeOK, NoLostWakeup, [WakeupNext]_wakeupVars, NEW x \in (announced \ missed)'
             PROVE  OnItsWay(x)'
  BY Zenon DEF NoLostWakeup
<1>t. /\ task \in [Handlers -> Tasks] /\ processing \in Seq(SUBSET Txs)
      /\ wakes \in 0..MaxWakes /\ MaxWakes \in Nat \ {0}
      /\ announced \subseteq pool /\ missed \subseteq announced
  BY WakeupAssumption, Zenon DEF WakeupTypeOK, Tasks
<1>w. x \in announced \ missed => OnItsWay(x)
  BY Zenon DEF NoLostWakeup
<1>1. CASE UNCHANGED <<hasPending, task, timer, wakes, processing, announced, missed>>
  BY <1>1, <1>w, Zenon DEF OnItsWay
\* A handler's step leaves the other handlers where they are.
<1>2. ASSUME NEW h \in Handlers, HandlerStep(h) PROVE OnItsWay(x)'
  <2>o. \A g \in Handlers \ {h} : task'[g] = task[g]
    BY <1>2, <1>t, Zenon DEF HandlerStep, AddPool, ReadFlags, SetPending, SendPendingTxs, MarkBuilding,
      BuildData, CommitLarge, FinishLarge, Goto
  <2>s. UNCHANGED <<timer, processing>>
    BY <1>2, Zenon DEF HandlerStep, AddPool, ReadFlags, SetPending, SendPendingTxs, MarkBuilding,
      BuildData, CommitLarge, FinishLarge
  \* x was on its way by other means than this handler.
  <2>w. ASSUME x \in announced \ missed, UNCHANGED <<hasPending, wakes>>,
               ~(task[h].pc = "add" /\ task[h].then # "free"),
               task[h].pc \notin {"notify", "flag", "send", "build"},
               ~(task[h].pc = "commit" /\ x \in task[h].txs)
        PROVE  OnItsWay(x)'
    BY <1>w, <2>o, <2>s, <2>w, Zenon DEF OnItsWay
  <2>1. CASE AddPool(h)
    <3>1. UNCHANGED <<hasPending, wakes>> /\ task[h].pc = "add"
      BY <2>1, Zenon DEF AddPool
    <3>2. task[h].then \in {"free", "notify", "build"}
      BY <1>t, Zenon DEF Tasks
    <3>3. CASE task[h].txs = {} /\ task[h].then # "free"
      <4>1. task'[h].pc \in {"notify", "build"}
        BY <1>t, <2>1, <3>2, <3>3 DEF AddPool, Goto, At
      <4>2. QED
        BY <4>1, Zenon DEF OnItsWay
    <3>4. CASE task[h].txs # {} /\ task[h].then # "free"
      <4>1. task'[h].pc = "add" /\ task'[h].then = task[h].then
        BY <1>t, <2>1, <3>1, <3>4 DEF AddPool, Tasks
      <4>2. QED
        BY <3>4, <4>1, Zenon DEF OnItsWay
    <3>5. CASE task[h].then = "free"
      <4>1. UNCHANGED <<announced, missed>>
        BY <2>1, <3>5, Zenon DEF AddPool
      <4>2. QED
        BY <2>w, <3>1, <3>5, <4>1, Zenon
    <3>6. QED
      BY <3>3, <3>4, <3>5, Zenon
  <2>2. CASE ReadFlags(h)
    <3>1. UNCHANGED <<hasPending, wakes, announced, missed>>
      BY <2>2, Zenon DEF ReadFlags
    <3>2. CASE building /\ hasPending
      BY <3>1, <3>2, Zenon DEF OnItsWay
    <3>3. CASE ~(building /\ hasPending)
      <4>1. task'[h].pc \in {"send", "flag"}
        BY <1>t, <2>2, <3>3, Zenon DEF ReadFlags, Goto, At
      <4>2. QED
        BY <4>1, Zenon DEF OnItsWay
    <3>4. QED
      BY <3>2, <3>3, Zenon
  <2>3. CASE SetPending(h)
    BY <2>3, Zenon DEF SetPending, OnItsWay
  <2>4. CASE SendPendingTxs(h)
    <3>1. wakes' > 0
      BY <1>t, <2>4 DEF SendPendingTxs, Send
    <3>2. QED
      BY <3>1, Zenon DEF OnItsWay
  <2>5. CASE MarkBuilding(h)
    BY <2>5, <2>w, Zenon DEF MarkBuilding
  <2>6. CASE BuildData(h)
    <3>1. PICK T \in Batches : /\ task' = [task EXCEPT ![h] = [At("commit") EXCEPT !.txs = T]]
                               /\ missed' = missed \cup (announced \ T)
      BY <2>6, Zenon DEF BuildData
    <3>2. announced' = announced
      BY <2>6, Zenon DEF BuildData
    <3>3. x \in T
      BY <3>1, <3>2, Zenon
    <3>4. task'[h].pc = "commit" /\ x \in task'[h].txs
      BY <1>t, <3>1, <3>3, Zenon DEF At
    <3>5. QED
      BY <3>4, Zenon DEF OnItsWay
  <2>7. CASE CommitLarge(h)
    BY <2>7, <2>w, Zenon DEF CommitLarge
  <2>8. CASE FinishLarge(h)
    BY <2>8, <2>w, Zenon DEF FinishLarge
  <2>9. QED
    BY <1>2, <2>1, <2>2, <2>3, <2>4, <2>5, <2>6, <2>7, <2>8, Zenon DEF HandlerStep
\* A new request takes a free handler.
<1>3. ASSUME NEW h \in Handlers,
             \/ \E y \in Txs, large \in BOOLEAN : SubmitTransaction(h, y, large)
             \/ \E T \in SUBSET Txs, f \in BOOLEAN : SubmitTransactionBatch(h, T, f)
      PROVE  OnItsWay(x)'
  <2>1. /\ task[h].pc = "free" /\ \A g \in Handlers \ {h} : task'[g] = task[g]
        /\ UNCHANGED <<hasPending, timer, wakes, processing, announced, missed>>
    BY <1>3, <1>t, Zenon DEF SubmitTransaction, SubmitTransactionBatch
  <2>2. QED
    BY <1>w, <2>1, Zenon DEF OnItsWay
\* The timer lowers the flag only on its way to sending.
<1>4. CASE TimerStep
  <2>1. UNCHANGED <<task, processing, announced, missed>>
    BY <1>4, SMTT(30) DEF TimerStep, TimerWakes, TimerLooks, TimerClears, TimerSends, TimerMarks, TimerResets
  <2>2. CASE TimerClears
    BY <2>2, Zenon DEF TimerClears, OnItsWay
  <2>3. CASE TimerSends
    <3>1. wakes' > 0
      BY <1>t, <2>3 DEF TimerSends, Send
    <3>2. QED
      BY <3>1, Zenon DEF OnItsWay
  <2>4. CASE TimerWakes \/ TimerLooks \/ TimerMarks \/ TimerResets
    <3>1. UNCHANGED <<hasPending, wakes>> /\ timer # "send"
      BY <2>4, Zenon DEF TimerWakes, TimerLooks, TimerMarks, TimerResets
    <3>2. QED
      BY <1>w, <2>1, <3>1, Zenon DEF OnItsWay
  <2>5. QED
    BY <1>4, <2>2, <2>3, <2>4, Zenon DEF TimerStep
\* A build answers for the messages: what it does not take counts as missed.
<1>5. CASE BuildBlock
  <2>1. PICK T \in Batches : /\ processing' = Append(processing, T)
                             /\ missed' = missed \cup (announced \ T)
    BY <1>5, Zenon DEF BuildBlock
  <2>2. x \in T
    BY <1>5, <2>1, Zenon DEF BuildBlock
  <2>3. T \in SUBSET Txs
    BY Zenon DEF Batches, WakeupTypeOK
  <2>4. Len(processing) + 1 \in 1..Len(processing') /\ processing'[Len(processing) + 1] = T
    BY <1>t, <2>1, <2>3
  <2>5. QED
    BY <2>2, <2>4, Zenon DEF OnItsWay
<1>6. CASE BuildBlockFails
  BY <1>6, <1>t, Zenon DEF BuildBlockFails
<1>7. ASSUME NEW T \in SUBSET Txs, VerifyForeign(T) PROVE OnItsWay(x)'
  <2>1. /\ processing' = Append(processing, T)
        /\ UNCHANGED <<hasPending, task, timer, wakes, announced, missed>>
    BY <1>7, Zenon DEF VerifyForeign
  <2>2. \A i \in 1..Len(processing) : i \in 1..Len(processing') /\ processing'[i] = processing[i]
    BY <1>t, <2>1
  <2>3. QED
    BY <1>w, <2>1, <2>2, Zenon DEF OnItsWay
\* A block that leaves consensus takes its transactions out of the pool, or they
\* count as missed.
<1>8. CASE Accept
  <2>1. /\ processing # <<>> /\ processing' = Tail(processing)
        /\ announced' = announced \ Head(processing) /\ missed' = missed \ Head(processing)
        /\ UNCHANGED <<hasPending, task, timer, wakes>>
    BY <1>8, Zenon DEF Accept
  <2>2. x \in announced \ missed /\ x \notin processing[1]
    BY <1>t, <2>1
  <2>3. ASSUME NEW i \in 1..Len(processing), x \in processing[i]
        PROVE  i - 1 \in 1..Len(processing') /\ processing'[i - 1] = processing[i]
    BY <1>t, <2>1, <2>2, <2>3
  <2>4. QED
    BY <1>w, <2>1, <2>2, <2>3, Zenon DEF OnItsWay
<1>9. ASSUME NEW T \in SUBSET Txs, AcceptSibling(T) PROVE OnItsWay(x)'
  <2>1. /\ announced' = announced \ T
        /\ missed' = (missed \cup (announced \cap UNION {processing[i] : i \in 1..Len(processing)})) \ T
        /\ UNCHANGED <<hasPending, task, timer, wakes>>
    BY <1>9, Zenon DEF AcceptSibling
  <2>2. x \in announced \ missed /\ \A i \in 1..Len(processing) : x \notin processing[i]
    BY <2>1, Zenon
  <2>3. QED
    BY <1>w, <2>1, <2>2, Zenon DEF OnItsWay
<1>10. QED
  <2>1. CASE Tick \/ FinishAccept \/ (\E y \in Txs : AppGossip(y)) \/ UNCHANGED wakeupVars
    BY <2>1, <1>1, Zenon DEF Tick, FinishAccept, AppGossip, wakeupVars
  <2>2. QED
    BY <1>2, <1>3, <1>4, <1>5, <1>6, <1>7, <1>8, <1>9, <2>1, Zenon DEF WakeupNext

\* No wake-up is lost, for any number of transactions and concurrent handlers and
\* any timeout: the read of the two flags in notify_block_ready and the timer's
\* clear-before-send leave no window.
THEOREM WakeupCorrect == WakeupSpec => []NoLostWakeup
<1>1. WakeupInit => NoLostWakeup
  BY Zenon DEF WakeupInit, NoLostWakeup
<1>2. QED
  BY WakeupTypeInit, WakeupTypeStep, WakeupStep, <1>1, PTL DEF WakeupSpec
=============================================================================
