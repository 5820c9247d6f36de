---------------------------- MODULE ChainPromise ----------------------------
(***************************************************************************)
(* What a node of the subnet promises about its ledger, without saying how *)
(* it gets there: it follows the decided chain one block at a time,        *)
(* commits a block before it reports it as last accepted, commits it only  *)
(* if it advances the metadata clock of the blocks below it, and never     *)
(* takes anything back.  Stopping and starting again is invisible.         *)
(***************************************************************************)
EXTENDS Integers

CONSTANTS Ids, EmptyId, Genesis, Parent, Height, Timestamp, MetaTime

VARIABLES
  decided,    \* the blocks that consensus has accepted
  tip,        \* the block the node reports as last accepted
  committed   \* the blocks the node's ledger holds

vars == <<decided, tip, committed>>

Advances(b) ==
  /\ 0 < MetaTime[b]
  /\ \A c \in decided : Height[c] < Height[b] => MetaTime[c] < MetaTime[b]

Init ==
  /\ decided = {Genesis}
  /\ tip = EmptyId
  /\ committed = {}

Decide(b) ==
  /\ Parent[b] \in decided
  /\ Height[Parent[b]] = Height[b] - 1
  /\ Timestamp[Parent[b]] <= Timestamp[b]
  /\ \A c \in decided : Height[c] < Height[b]
  /\ decided' = decided \cup {b}
  /\ UNCHANGED <<tip, committed>>

Commit(b) ==
  /\ b \in decided
  /\ b # Genesis
  /\ Parent[b] = tip
  /\ Advances(b)
  /\ committed' = committed \cup {b}
  /\ UNCHANGED <<decided, tip>>

Advance(b) ==
  /\ b \in decided
  /\ Parent[b] = tip
  /\ b # Genesis /\ Advances(b) => b \in committed
  /\ tip' = b
  /\ UNCHANGED <<decided, committed>>

Next == \E b \in Ids : Decide(b) \/ Commit(b) \/ Advance(b)

Spec == Init /\ [][Next]_vars
=============================================================================
