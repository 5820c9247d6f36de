------------------------------ MODULE ParkedSet ------------------------------
(* What the parking lot promises: a set of transactions, its size, and, when one *)
(* is asked for, the highest of some account.                                    *)
EXTENDS Integers, FiniteSets

CONSTANTS Accounts, Seqs

VARIABLES parked, count, evicted

vars == <<parked, count, evicted>>

Init == parked = {} /\ count = 0 /\ evicted = {}

Becomes(new) ==
  /\ parked' = new
  /\ count' = Cardinality(new)
  /\ UNCHANGED evicted

Insert(a, s) == Becomes(parked \cup {<<a, s>>})

Remove(a, s) == Becomes(parked \ {<<a, s>>})

GetPoppable(p) ==
  /\ \A q \in parked : q[1] = p[1] => q[2] <= p[2]
  /\ evicted' = {p}
  /\ UNCHANGED <<parked, count>>

Next ==
  \/ \E a \in Accounts, s \in Seqs : Insert(a, s) \/ Remove(a, s)
  \/ \E p \in parked : GetPoppable(p)

Spec == Init /\ [][Next]_vars
=============================================================================
