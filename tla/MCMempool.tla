----------------------------- MODULE MCMempool -----------------------------
(* Instances of MempoolBatch and of ParkingLot side by side.  They share no     *)
(* state, so a behaviour is one of the mempool or one of the index alone.       *)
EXTENDS MempoolBatch, ParkingLot

BesideInit == Init /\ LotInit

BesideNext ==
  \/ Next /\ LotInit /\ UNCHANGED lotVars
  \/ LotNext /\ Init /\ UNCHANGED vars

BesideSpec == BesideInit /\ [][BesideNext]_<<vars, lotVars>>

Symmetry == Permutations(Accounts) \cup Permutations(Senders)
=============================================================================
