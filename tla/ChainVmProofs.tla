---------------------------- MODULE ChainVmProofs ----------------------------
(***************************************************************************)
(* Theorems about ChainVm, for any set of blocks and any bounds.           *)
(***************************************************************************)
EXTENDS ChainVm, TLAPS

USE DEF persistent, vmVars, engineVars, envVars

LEMMA TypeInit == Init => TypeOK
<1> SUFFICES ASSUME Init PROVE TypeOK
  OBVIOUS
<1>1. call \in Calls
  BY Zenon DEF Init, Idle, Calls
<1>2. reply \in Replies
  BY Zenon DEF Init, Replies
<1>3. up \in BOOLEAN /\ bootstrapped \in BOOLEAN
  BY Zenon DEF Init
<1>4. ledger \in Seq(Ids)
  BY SMTT(30) DEF Init
<1>5. QED
  BY <1>1, <1>2, <1>3, <1>4, ConstantsAssumption, Zenon DEF Init, TypeOK

LEMMA TypeStep == TypeOK /\ [Next]_vars => TypeOK'
<1> SUFFICES ASSUME TypeOK, [Next]_vars PROVE TypeOK'
  OBVIOUS
<1> USE ConstantsAssumption DEF TypeOK
<1>1. CASE Restart
  BY <1>1, SMTT(30) DEF Restart
<1>2. CASE FirstStart
  BY <1>2, SMTT(30) DEF FirstStart, Calls
<1>3. CASE WriteBlock
  BY <1>3, ZenonT(40) DEF WriteBlock, Calls
<1>4. CASE SetLastAccepted
  BY <1>4, Zenon DEF SetLastAccepted, Calls
<1>5. CASE RemoveVerified
  BY <1>5, SMTT(30) DEF RemoveVerified, Calls, Idle
<1>6. CASE Crash
  <2>1. call' \in Calls
    BY <1>6, Zenon DEF Crash, Idle, Calls
  <2>2. reply' \in Replies
    BY <1>6, Zenon DEF Crash, Replies
  <2>3. up' \in BOOLEAN /\ bootstrapped' \in BOOLEAN
    BY <1>6, Zenon DEF Crash
  <2>4. QED
    BY <1>6, <2>1, <2>2, <2>3, SMTT(30) DEF Crash
<1>7. CASE Tick
  BY <1>7, SMTT(30) DEF Tick
<1>8. ASSUME NEW normal \in BOOLEAN, SetState(normal) PROVE TypeOK'
  BY <1>8, SMTT(30) DEF SetState
<1>9. ASSUME NEW b \in Ids, Decide(b) PROVE TypeOK'
  BY <1>9, Zenon DEF Decide
<1>10. ASSUME NEW b \in Ids, Verify(b) PROVE TypeOK'
  <2>1. ParseAndVerify(b) \in BOOLEAN
    BY Zenon DEF ParseAndVerify, VerifyOk, VerifyDetached, Known
  <2>2. QED
    BY <1>10, <2>1, ZenonT(40) DEF Verify, Replies
<1>11. ASSUME NEW b \in Ids, Build(b) PROVE TypeOK'
  <2>1. VerifyOk(b) \in BOOLEAN
    BY Zenon DEF VerifyOk, Known
  <2>2. QED
    BY <1>11, <2>1, ZenonT(40) DEF Build, Replies
<1>12. ASSUME NEW b \in Ids, SetPreference(b) PROVE TypeOK'
  BY <1>12, SMTT(30) DEF SetPreference
<1>13. ASSUME NEW b \in Ids, Accept(b) PROVE TypeOK'
  <2>1. ledger' \in Seq(Ids)
    BY <1>13 DEF Accept, InnerBuild
  <2>2. call' \in Calls
    BY <1>13, Zenon DEF Accept, Calls
  <2>3. QED
    BY <1>13, <2>1, <2>2, Zenon DEF Accept
<1>14. ASSUME NEW b \in Ids, Reject(b) PROVE TypeOK'
  BY <1>14, Zenon DEF Reject, Calls
<1>15. CASE UNCHANGED vars
  BY <1>15, SMTT(30) DEF vars
<1>16. QED
  BY <1>1, <1>2, <1>3, <1>4, <1>5, <1>6, <1>7, <1>8, <1>9, <1>10, <1>11,
     <1>12, <1>13, <1>14, <1>15, Zenon DEF Next

\* Every variable keeps its type through every handler and every crash.
THEOREM TypeCorrect == Spec => []TypeOK
BY TypeInit, TypeStep, PTL DEF Spec

-----------------------------------------------------------------------------
(* The parts of the inductive invariant, one lemma each.  A lemma has one   *)
(* step per action that can disturb its part.                              *)

\* Only Decide changes the decided chain.
LEMMA DecidedStep ==
  ASSUME [Next]_vars PROVE (\E b \in Ids : Decide(b)) \/ decided' = decided
<1>1. CASE Restart \/ FirstStart \/ WriteBlock \/ SetLastAccepted \/ RemoveVerified
  BY <1>1, Zenon DEF Restart, FirstStart, WriteBlock, SetLastAccepted, RemoveVerified
<1>2. CASE Crash \/ Tick \/ (\E normal \in BOOLEAN : SetState(normal))
  BY <1>2, Zenon DEF Crash, Tick, SetState
<1>3. ASSUME NEW b \in Ids, Verify(b) \/ Build(b) \/ SetPreference(b)
      PROVE  decided' = decided
  BY <1>3, Zenon DEF Verify, Build, SetPreference
<1>4. ASSUME NEW b \in Ids, Accept(b) \/ Reject(b) PROVE decided' = decided
  BY <1>4, Zenon DEF Accept, Reject
<1>5. CASE UNCHANGED vars
  BY <1>5, Zenon DEF vars
<1>6. QED
  BY <1>1, <1>2, <1>3, <1>4, <1>5, Zenon DEF Next

\* The decided blocks stay one chain.
LEMMA ChainStep == TypeOK /\ ChainInv /\ [Next]_vars => ChainInv'
<1> SUFFICES ASSUME TypeOK, ChainInv, [Next]_vars PROVE ChainInv'
  OBVIOUS
<1>1. ASSUME NEW b \in Ids, Decide(b) PROVE ChainInv'
  <2>1. decided' = decided \cup {b} /\ Parent[b] \in decided /\ FollowsParent(b)
    BY <1>1, Zenon DEF Decide
  <2>2. \A c \in decided : Height[c] # Height[b]
    BY <1>1, ConstantsAssumption DEF Decide, TypeOK
  <2>3. QED
    BY <2>1, <2>2, Zenon DEF ChainInv, FollowsParent
<1>2. CASE decided' = decided
  BY <1>2, Zenon DEF ChainInv, FollowsParent
<1>3. QED
  BY <1>1, <1>2, DecidedStep, Zenon

\* What Advances says of a decided block does not change when the chain grows.
LEMMA AdvancesStable ==
  ASSUME TypeOK, ChainInv, [Next]_vars, NEW b \in decided
  PROVE  Advances(b)' <=> Advances(b)
<1>1. ASSUME NEW c \in Ids, Decide(c) PROVE Advances(b)' <=> Advances(b)
  <2>1. decided' = decided \cup {c}
    BY <1>1, Zenon DEF Decide
  <2>2. ~(Height[c] < Height[b])
    BY <1>1, ConstantsAssumption, SMTT(30) DEF Decide, TypeOK
  <2>3. QED
    BY <2>1, <2>2, Zenon DEF Advances
<1>2. CASE decided' = decided
  BY <1>2, Zenon DEF Advances
<1>3. QED
  BY <1>1, <1>2, DecidedStep, Zenon

\* A committed block's metadata time is not ahead of the ledger clock.
LEMMA LedgerClock ==
  ASSUME TypeOK, LedgerInv, NEW b \in Ids, InLedger(b)
  PROVE  MetaTime[b] <= LedgerTime
<1>1. PICK i \in 1..Len(ledger) : ledger[i] = b
  BY Zenon DEF InLedger
<1>2. ledger # <<>> /\ Len(ledger) \in 1..Len(ledger) /\ ledger[Len(ledger)] \in Ids
  BY <1>1 DEF TypeOK
<1>3. CASE i = Len(ledger)
  BY <1>1, <1>2, <1>3, ConstantsAssumption DEF LedgerTime
<1>4. CASE i < Len(ledger)
  <2>1. Height[b] < Height[ledger[Len(ledger)]]
    BY <1>1, <1>2, <1>4, Zenon DEF LedgerInv
  <2>2. Advances(ledger[Len(ledger)]) /\ b \in decided
    BY <1>1, <1>2, Zenon DEF LedgerInv, InLedger
  <2>3. MetaTime[b] < MetaTime[ledger[Len(ledger)]]
    BY <2>1, <2>2, Zenon DEF Advances
  <2>4. QED
    BY <1>2, <2>3, ConstantsAssumption, SMTT(30) DEF LedgerTime
<1>5. QED
  BY <1>1, <1>3, <1>4 DEF TypeOK

\* Between calls the block being accepted sits right above the last accepted one.
LEMMA AcceptHeight ==
  ASSUME TypeOK, ChainInv, NEW b \in decided, Parent[b] = lastAccepted, lastAccepted # EmptyId
  PROVE  b # Genesis /\ lastAccepted \in decided /\ Height[b] = Height[lastAccepted] + 1
<1>1. b # Genesis
  BY GenesisAssumption, Zenon
<1>2. lastAccepted \in decided /\ Height[lastAccepted] = Height[b] - 1
  BY <1>1, Zenon DEF ChainInv, FollowsParent
<1>3. Height[b] \in Nat /\ Height[lastAccepted] \in Nat
  BY <1>2, ConstantsAssumption, Zenon DEF TypeOK
<1>4. QED
  BY <1>1, <1>2, <1>3

\* The commit inside inner_build_block keeps the ledger a function of the chain.
LEMMA InnerBuildCorrect ==
  ASSUME IInv, NEW b \in decided, Parent[b] = lastAccepted, lastAccepted # EmptyId,
         ledger' = InnerBuild(b)
  PROVE  /\ Len(ledger') \in Nat
         /\ \A i \in 1..Len(ledger') : ledger'[i] = b \/ \E k \in 1..Len(ledger) : ledger'[i] = ledger[k]
         /\ \A x \in Ids : InLedger(x) => InLedger(x)'
         /\ InLedger(b)' => Advances(b)
         /\ Advances(b) => InLedger(b)'
         /\ MetaTime[b] <= LedgerTime' /\ LedgerTime <= LedgerTime'
         /\ \A i, j \in 1..Len(ledger') : i < j => Height[ledger'[i]] < Height[ledger'[j]]
<1> TypeOK /\ ChainInv /\ LastAcceptedIsStored /\ LedgerInv
  BY Zenon DEF IInv
<1>t. ledger \in Seq(Ids) /\ decided \subseteq Ids
  BY Zenon DEF TypeOK
<1>c. Height \in [Ids -> Nat] /\ MetaTime \in [Ids -> Nat]
  BY ConstantsAssumption, Zenon
<1>1. b # Genesis /\ lastAccepted \in decided /\ Height[b] = Height[lastAccepted] + 1
  BY AcceptHeight, Zenon
<1>2. b \in Ids /\ Height[b] \in Nat /\ MetaTime[b] \in Nat /\ LedgerTime \in Nat /\ Len(ledger) \in Nat
  BY <1>t, <1>c DEF LedgerTime
<1>3. \A c \in decided : Height[c] < Height[b] => MetaTime[c] <= LedgerTime
  <2> TAKE c \in decided
  <2> HAVE Height[c] < Height[b]
  <2>1. c \in Ids /\ Height[c] <= Height[lastAccepted]
    BY <1>1, <1>t, <1>c, SMTT(30)
  <2>2. stored[c] = "Accepted"
    BY <2>1, <1>1, Zenon DEF LastAcceptedIsStored
  <2>3. QED
    BY <2>1, <2>2, Zenon DEF LedgerInv
<1>4. \A i \in 1..Len(ledger) :
        /\ ledger[i] \in decided
        /\ Height[ledger[i]] \in Nat
        /\ Height[ledger[i]] <= Height[b]
        /\ Height[ledger[i]] = Height[b] => ledger[i] = b
  <2> TAKE i \in 1..Len(ledger)
  <2>1. ledger[i] \in Ids /\ InLedger(ledger[i])
    BY <1>t DEF InLedger
  <2>2. ledger[i] \in decided /\ Height[ledger[i]] <= Height[lastAccepted] + 1
    BY <2>1, Zenon DEF LedgerInv
  <2>3. Height[ledger[i]] = Height[b] => ledger[i] = b
    BY <2>2, Zenon DEF ChainInv
  <2>4. QED
    BY <1>1, <1>c, <2>1, <2>2, <2>3, Zenon
<1>5. CASE LedgerTime < MetaTime[b]
  <2>1. ledger' = Append(ledger, b)
    BY <1>5, Zenon DEF InnerBuild
  <2>2. /\ Len(ledger') = Len(ledger) + 1
        /\ ledger'[Len(ledger) + 1] = b
        /\ \A i \in 1..Len(ledger) : ledger'[i] = ledger[i]
    BY <1>t, <1>2, <2>1
  <2>3. Advances(b)
    BY <1>t, <1>c, <1>2, <1>3, <1>5 DEF Advances
  <2>4. ~InLedger(b)
    BY <1>2, <1>5, LedgerClock
  <2>5. \A i \in 1..Len(ledger) : Height[ledger[i]] < Height[b]
    BY <1>2, <1>4, <2>4 DEF InLedger
  <2>6. LedgerTime' = MetaTime[b]
    BY <1>2, <2>2 DEF LedgerTime
  <2>7. \A x \in Ids : InLedger(x) => InLedger(x)'
    BY <1>2, <2>2 DEF InLedger
  <2>8. InLedger(b)'
    BY <1>2, <2>2 DEF InLedger
  <2>9. \A i, j \in 1..Len(ledger') : i < j => Height[ledger'[i]] < Height[ledger'[j]]
    <3> TAKE i, j \in 1..Len(ledger')
    <3> HAVE i < j
    <3>1. i \in 1..Len(ledger) /\ (j \in 1..Len(ledger) \/ j = Len(ledger) + 1)
      BY <1>2, <2>2
    <3>2. QED
      BY <3>1, <2>2, <2>5, Zenon DEF LedgerInv
  <2>10. \A i \in 1..Len(ledger') : ledger'[i] = b \/ \E k \in 1..Len(ledger) : ledger'[i] = ledger[k]
    <3> TAKE i \in 1..Len(ledger')
    <3>1. i \in 1..Len(ledger) \/ i = Len(ledger) + 1
      BY <1>2, <2>2
    <3>2. QED
      BY <3>1, <2>2, Zenon
  <2>11. QED
    BY <1>2, <1>5, <2>2, <2>3, <2>6, <2>7, <2>8, <2>9, <2>10
<1>6. CASE ~(LedgerTime < MetaTime[b])
  <2>1. ledger' = ledger
    BY <1>6, Zenon DEF InnerBuild
  <2>2. LedgerTime' = LedgerTime /\ \A x \in Ids : InLedger(x)' <=> InLedger(x)
    BY <2>1, Zenon DEF LedgerTime, InLedger
  <2>3. Advances(b) => InLedger(b)
    <3> HAVE Advances(b)
    <3>1. ledger # <<>> /\ MetaTime[b] <= MetaTime[ledger[Len(ledger)]]
      BY <1>2, <1>6 DEF Advances, LedgerTime
    <3>2. Len(ledger) \in 1..Len(ledger)
      BY <1>t, <1>2, <3>1
    <3>3. ledger[Len(ledger)] \in decided /\ ~(Height[ledger[Len(ledger)]] < Height[b])
      BY <1>t, <1>c, <1>2, <1>4, <3>1, <3>2, SMTT(30) DEF Advances
    <3>4. ledger[Len(ledger)] = b
      BY <1>2, <1>4, <3>2, <3>3
    <3>5. QED
      BY <3>2, <3>4, Zenon DEF InLedger
  <2>4. InLedger(b) => Advances(b)
    BY <1>2, Zenon DEF LedgerInv
  <2>5. QED
    BY <1>2, <1>6, <2>1, <2>2, <2>3, <2>4 DEF LedgerInv
<1>7. QED
  BY <1>5, <1>6, Zenon

LEMMA LedgerStep == IInv /\ [Next]_vars => LedgerInv'
<1> SUFFICES ASSUME IInv, [Next]_vars PROVE LedgerInv'
  OBVIOUS
<1> TypeOK /\ ChainInv /\ CallInv /\ StoreInv /\ LastAcceptedIsStored /\ LedgerInv
  BY Zenon DEF IInv
<1>t. ledger \in Seq(Ids) /\ decided \subseteq Ids /\ stored \in [Ids -> {"None", "Accepted", "Rejected"}]
  BY Zenon DEF TypeOK
<1>c. Height \in [Ids -> Nat] /\ MetaTime \in [Ids -> Nat] /\ Genesis \in Ids /\ EmptyId \notin Ids
  BY ConstantsAssumption, Zenon
<1>l. LedgerTime \in Nat
  BY <1>t, <1>c DEF LedgerTime
<1>1. ASSUME NEW b \in Ids, Decide(b) PROVE LedgerInv'
  <2>1. UNCHANGED <<ledger, stored, lastAccepted>> /\ decided \subseteq decided'
    BY <1>1, Zenon DEF Decide
  <2>2. LedgerTime' = LedgerTime /\ \A x \in Ids : InLedger(x)' <=> InLedger(x)
    BY <2>1, Zenon DEF LedgerTime, InLedger
  <2>3. \A x \in Ids : stored[x] = "Accepted" => x \in decided
    BY Zenon DEF StoreInv
  <2>4. \A x \in decided : Advances(x)' <=> Advances(x)
    BY AdvancesStable, Zenon
  <2>5. QED
    BY <2>1, <2>2, <2>3, <2>4, Zenon DEF LedgerInv
<1>2. CASE WriteBlock
  <2>1. UNCHANGED <<ledger, decided, lastAccepted>>
    BY <1>2, Zenon DEF WriteBlock
  <2>2. LedgerTime' = LedgerTime /\ \A x \in Ids : (InLedger(x)' <=> InLedger(x)) /\ (Advances(x)' <=> Advances(x))
    BY <2>1, Zenon DEF LedgerTime, InLedger, Advances
  <2>3. call.op \in {"init", "accept", "reject"}
    BY <1>2 DEF WriteBlock, CallInv, Idle, TypeOK, Calls
  <2>4. \A x \in Ids : stored'[x] = "Accepted" =>
          stored[x] = "Accepted" \/ (x = call.blk /\ call.op \in {"init", "accept"})
    BY <1>t, <1>2, <2>3, Zenon DEF WriteBlock
  <2>5. call.op = "init" => call.blk = Genesis /\ MetaTime[Genesis] <= LedgerTime
    BY <1>l, GenesisAssumption DEF CallInv
  <2>6. call.op = "accept" => MetaTime[call.blk] <= LedgerTime /\ (Advances(call.blk) => InLedger(call.blk))
    BY Zenon DEF CallInv
  <2>7. \A x \in Ids : stored'[x] = "Accepted" =>
          MetaTime[x] <= LedgerTime /\ (x # Genesis /\ Advances(x) => InLedger(x))
    BY <2>4, <2>5, <2>6, Zenon DEF LedgerInv
  <2>8. QED
    BY <2>1, <2>2, <2>7, Zenon DEF LedgerInv
<1>3. CASE SetLastAccepted
  <2>1. UNCHANGED <<ledger, decided, stored>> /\ lastAccepted' = call.blk
    BY <1>3, Zenon DEF SetLastAccepted
  <2>2. LedgerTime' = LedgerTime /\ \A x \in Ids : (InLedger(x)' <=> InLedger(x)) /\ (Advances(x)' <=> Advances(x))
    BY <2>1, Zenon DEF LedgerTime, InLedger, Advances
  <2>3. \/ call.op = "init" /\ lastAccepted = EmptyId
        \/ call.op = "accept" /\ call.blk \in decided /\ Parent[call.blk] = lastAccepted /\ lastAccepted # EmptyId
    BY <1>3, <1>c DEF SetLastAccepted, CallInv, Idle, TypeOK, Calls
  <2>4. ASSUME NEW x \in Ids, InLedger(x)
        PROVE  lastAccepted' # EmptyId /\ Height[x] <= Height[lastAccepted'] + 1
    <3>1. lastAccepted # EmptyId /\ Height[x] <= Height[lastAccepted] + 1
      BY <2>4, Zenon DEF LedgerInv
    <3>2. call.blk \in decided /\ lastAccepted \in decided /\ Height[call.blk] = Height[lastAccepted] + 1
      BY <2>3, <3>1, AcceptHeight, Zenon
    <3>3. QED
      BY <1>t, <1>c, <2>1, <3>1, <3>2, SMTT(30)
  <2>5. QED
    BY <2>1, <2>2, <2>4, Zenon DEF LedgerInv
<1>4. ASSUME NEW b \in Ids, Accept(b) PROVE LedgerInv'
  <2>1. UNCHANGED <<stored, lastAccepted, decided>> /\ b \in decided /\ ledger' = InnerBuild(b)
    BY <1>4, Zenon DEF Accept
  <2>2. Parent[b] = lastAccepted /\ lastAccepted # EmptyId
    BY <1>4, Zenon DEF Accept, CallInv, Idle
  <2>3. b # Genesis /\ lastAccepted \in decided /\ Height[b] = Height[lastAccepted] + 1
    BY <2>1, <2>2, AcceptHeight, Zenon
  <2>4. /\ \A i \in 1..Len(ledger') : ledger'[i] = b \/ \E k \in 1..Len(ledger) : ledger'[i] = ledger[k]
        /\ \A x \in Ids : InLedger(x) => InLedger(x)'
        /\ InLedger(b)' => Advances(b)
        /\ Advances(b) => InLedger(b)'
        /\ LedgerTime <= LedgerTime'
        /\ \A i, j \in 1..Len(ledger') : i < j => Height[ledger'[i]] < Height[ledger'[j]]
    BY <2>1, <2>2, InnerBuildCorrect, SMTT(30)
  <2>5. \A x \in Ids : InLedger(x)' => x = b \/ InLedger(x)
    BY <2>4, ZenonT(40) DEF InLedger
  <2>6. \A x \in Ids : Advances(x)' <=> Advances(x)
    BY <2>1, Zenon DEF Advances
  <2>7. LedgerTime' \in Nat
    BY <1>t, <1>c, <2>1, SMTT(30) DEF LedgerTime, InnerBuild
  <2>8. ASSUME NEW x \in Ids, InLedger(x)'
        PROVE  /\ x \in decided' \ {Genesis} /\ Advances(x)'
               /\ lastAccepted' # EmptyId /\ Height[x] <= Height[lastAccepted'] + 1
    <3>1. CASE x = b
      BY <1>c, <2>1, <2>2, <2>3, <2>4, <2>6, <2>8, <3>1
    <3>2. CASE InLedger(x)
      BY <2>1, <2>6, <3>2, SMTT(30) DEF LedgerInv
    <3>3. QED
      BY <2>5, <2>8, <3>1, <3>2, Zenon
  <2>9. ASSUME NEW x \in Ids, stored'[x] = "Accepted"
        PROVE  MetaTime[x] <= LedgerTime' /\ (x # Genesis /\ Advances(x)' => InLedger(x)')
    <3>1. MetaTime[x] <= LedgerTime /\ (x # Genesis /\ Advances(x) => InLedger(x))
      BY <2>1, <2>9, Zenon DEF LedgerInv
    <3>2. QED
      BY <1>c, <1>l, <2>4, <2>6, <2>7, <3>1
  <2>10. QED
    BY <2>4, <2>8, <2>9, Zenon DEF LedgerInv
<1>5. CASE UNCHANGED <<ledger, decided, stored, lastAccepted>>
  BY <1>5, Zenon DEF LedgerInv, InLedger, Advances, LedgerTime
<1>6. QED
  <2>1. CASE Restart \/ FirstStart \/ RemoveVerified
    BY <2>1, <1>5, Zenon DEF Restart, FirstStart, RemoveVerified
  <2>2. CASE Crash \/ Tick \/ (\E normal \in BOOLEAN : SetState(normal))
    BY <2>2, <1>5, Zenon DEF Crash, Tick, SetState
  <2>3. ASSUME NEW b \in Ids, Verify(b) \/ Build(b) \/ SetPreference(b) \/ Reject(b) PROVE LedgerInv'
    BY <2>3, <1>5, Zenon DEF Verify, Build, SetPreference, Reject
  <2>4. CASE UNCHANGED vars
    BY <2>4, <1>5, Zenon DEF vars
  <2>5. QED
    BY <1>1, <1>2, <1>3, <1>4, <2>1, <2>2, <2>3, <2>4, Zenon DEF Next

LEMMA LastAcceptedStep == IInv /\ [Next]_vars => LastAcceptedIsStored'
<1> SUFFICES ASSUME IInv, [Next]_vars PROVE LastAcceptedIsStored'
  OBVIOUS
<1> TypeOK /\ ChainInv /\ CallInv /\ StoreInv /\ LastAcceptedIsStored
  BY Zenon DEF IInv
<1>t. decided \subseteq Ids /\ stored \in [Ids -> {"None", "Accepted", "Rejected"}]
  BY Zenon DEF TypeOK
<1>c. Height \in [Ids -> Nat] /\ Genesis \in Ids /\ EmptyId \notin Ids
  BY ConstantsAssumption, Zenon
<1>1. ASSUME NEW b \in Ids, Decide(b) PROVE LastAcceptedIsStored'
  <2>1. UNCHANGED <<stored, lastAccepted>> /\ decided' = decided \cup {b}
    BY <1>1, Zenon DEF Decide
  <2>2. lastAccepted \in decided => ~(Height[b] <= Height[lastAccepted])
    BY <1>1, <1>t, <1>c DEF Decide
  <2>3. QED
    BY <2>1, <2>2, Zenon DEF LastAcceptedIsStored
<1>2. CASE WriteBlock
  <2>1. UNCHANGED <<decided, lastAccepted>>
    BY <1>2, Zenon DEF WriteBlock
  <2>2. call.op = "reject" => call.blk \in Ids /\ stored[call.blk] = "None"
    BY <1>2, Zenon DEF WriteBlock, CallInv, StoreInv, TypeOK
  <2>3. \A x \in Ids : stored[x] = "Accepted" => stored'[x] = "Accepted"
    BY <1>2, <1>t, <2>2, Zenon DEF WriteBlock
  <2>4. QED
    BY <1>t, <2>1, <2>3, Zenon DEF LastAcceptedIsStored
<1>3. CASE SetLastAccepted
  <2>1. UNCHANGED <<decided, stored>> /\ lastAccepted' = call.blk
    BY <1>3, Zenon DEF SetLastAccepted
  <2>2. \/ call.op = "init" /\ call.blk = Genesis /\ stored[Genesis] = "Accepted"
        \/ /\ call.op = "accept" /\ call.blk \in decided /\ stored[call.blk] = "Accepted"
           /\ Parent[call.blk] = lastAccepted /\ lastAccepted # EmptyId
    BY <1>3, <1>c DEF SetLastAccepted, CallInv, Idle, TypeOK, Calls
  <2>3. call.blk \in decided
    BY <2>2, Zenon DEF ChainInv
  <2>4. ASSUME NEW b \in decided, Height[b] <= Height[call.blk] PROVE stored[b] = "Accepted"
    <3>1. CASE call.op = "init"
      <4>1. Height[b] = Height[Genesis] /\ Genesis \in decided
        BY <1>t, <1>c, <2>2, <2>4, <3>1, GenesisAssumption DEF ChainInv
      <4>2. QED
        BY <2>2, <3>1, <4>1, Zenon DEF ChainInv
    <3>2. CASE call.op = "accept"
      <4>1. lastAccepted \in decided /\ Height[call.blk] = Height[lastAccepted] + 1
        BY <2>2, <3>2, AcceptHeight, Zenon
      <4>2. Height[b] <= Height[lastAccepted] \/ Height[b] = Height[call.blk]
        BY <1>t, <1>c, <2>3, <2>4, <4>1
      <4>3. QED
        BY <2>2, <2>3, <3>2, <4>1, <4>2, <1>c, <1>t, Zenon DEF LastAcceptedIsStored, ChainInv
    <3>3. QED
      BY <2>2, <3>1, <3>2, Zenon
  <2>5. QED
    BY <2>1, <2>3, <2>4, Zenon DEF LastAcceptedIsStored
<1>4. CASE UNCHANGED <<decided, stored, lastAccepted>>
  BY <1>4, Zenon DEF LastAcceptedIsStored
<1>5. QED
  <2>1. CASE Restart \/ FirstStart \/ RemoveVerified
    BY <2>1, <1>4, Zenon DEF Restart, FirstStart, RemoveVerified
  <2>2. CASE Crash \/ Tick \/ (\E normal \in BOOLEAN : SetState(normal))
    BY <2>2, <1>4, SMTT(30) DEF Crash, Tick, SetState
  <2>3. ASSUME NEW b \in Ids, Verify(b) \/ Build(b) \/ SetPreference(b) \/ Accept(b) \/ Reject(b)
        PROVE  LastAcceptedIsStored'
    BY <2>3, <1>4, Zenon DEF Verify, Build, SetPreference, Accept, Reject
  <2>4. CASE UNCHANGED vars
    BY <2>4, <1>4, Zenon DEF vars
  <2>5. QED
    BY <1>1, <1>2, <1>3, <2>1, <2>2, <2>3, <2>4, Zenon DEF Next

\* A call with a step left to take is a call in progress.
LEMMA BusyCall == CallInv /\ call.step # "none" => call.op # "idle"
<1>1. CallInv => (call.op = "idle" => call = Idle)
  BY Zenon DEF CallInv
<1>2. Idle.step = "none"
  BY Zenon DEF Idle
<1>3. QED
  BY <1>1, <1>2, Zenon

\* Only a crash makes the store forget a block.
LEMMA KnownStable ==
  ASSUME IInv, [Next]_vars, NEW b, Known(b) PROVE Known(b)' \/ up' = FALSE
<1> TypeOK /\ CallInv /\ StoreInv
  BY Zenon DEF IInv
<1>t. stored \in [Ids -> {"None", "Accepted", "Rejected"}] /\ verified \subseteq Ids
  BY Zenon DEF TypeOK
<1>1. CASE WriteBlock
  BY <1>1, <1>t, Zenon DEF WriteBlock, Known
<1>2. CASE RemoveVerified
  <2>1. call.op # "idle" => stored[call.blk] # "None"
    BY <1>2, ConstantsAssumption, Zenon DEF RemoveVerified, CallInv, TypeOK, Calls
  <2>2. call.op # "idle"
    <3>1. call.step # "none"
      BY <1>2, Zenon DEF RemoveVerified
    <3>2. QED
      BY <3>1, BusyCall, Zenon
  <2>3. QED
    BY <1>2, <1>t, <2>1, <2>2, Zenon DEF RemoveVerified, Known
<1>3. CASE Crash
  BY <1>3, Zenon DEF Crash
<1>4. CASE verified \subseteq verified' /\ stored' = stored
  BY <1>4, Zenon DEF Known
<1>5. QED
  <2>1. CASE Restart \/ FirstStart \/ SetLastAccepted
    BY <2>1, <1>4, Zenon DEF Restart, FirstStart, SetLastAccepted
  <2>2. CASE Tick \/ (\E normal \in BOOLEAN : SetState(normal))
    BY <2>2, <1>4, Zenon DEF Tick, SetState
  <2>3. ASSUME NEW c \in Ids, Verify(c) \/ Build(c) \/ SetPreference(c)
        PROVE  Known(b)' \/ up' = FALSE
    BY <2>3, <1>4, Zenon DEF Verify, Build, SetPreference
  <2>4. ASSUME NEW c \in Ids, Decide(c) \/ Accept(c) \/ Reject(c)
        PROVE  Known(b)' \/ up' = FALSE
    BY <2>4, <1>4, Zenon DEF Decide, Accept, Reject
  <2>5. CASE UNCHANGED vars
    BY <2>5, <1>4, Zenon DEF vars
  <2>6. QED
    BY <1>1, <1>2, <1>3, <2>1, <2>2, <2>3, <2>4, <2>5, Zenon DEF Next

LEMMA PreferredStep == IInv /\ [Next]_vars => PreferredIsKnown'
<1> SUFFICES ASSUME IInv, [Next]_vars PROVE PreferredIsKnown'
  OBVIOUS
<1> TypeOK /\ CallInv /\ StoreInv /\ LastAcceptedIsStored /\ PreferredIsKnown
  BY Zenon DEF IInv
<1>t. decided \subseteq Ids /\ Height \in [Ids -> Nat] /\ EmptyId \notin Ids /\ up \in BOOLEAN
  BY ConstantsAssumption, SMTT(30) DEF TypeOK
<1>l. lastAccepted # EmptyId => lastAccepted \in Ids /\ Known(lastAccepted)
  <2> HAVE lastAccepted # EmptyId
  <2>1. lastAccepted \in Ids /\ Height[lastAccepted] <= Height[lastAccepted]
    BY <1>t DEF LastAcceptedIsStored
  <2>2. stored[lastAccepted] = "Accepted"
    BY <2>1, Zenon DEF LastAcceptedIsStored
  <2>3. QED
    BY <2>1, <2>2, Zenon DEF Known
<1>1. CASE Restart
  BY <1>1, <1>l, Zenon DEF Restart, PreferredIsKnown, Known
<1>2. CASE RemoveVerified
  <2>1. call.op = "init" => stored[Genesis] = "Accepted" /\ call.blk = Genesis
    BY <1>2, Zenon DEF RemoveVerified, CallInv
  <2>2. CASE call.op = "init"
    BY <1>2, <2>1, <2>2, ConstantsAssumption, Zenon DEF RemoveVerified, PreferredIsKnown, Known
  <2>3. CASE call.op # "init"
    <3>1. up
      BY <1>2, <2>3 DEF RemoveVerified, CallInv, Idle, TypeOK, Calls
    <3>2. Known(preferred)'  \/ Known(preferred)
      BY <3>1, Zenon DEF PreferredIsKnown
    <3>3. preferred' = preferred /\ up' = TRUE
      BY <1>2, <2>3, Zenon DEF RemoveVerified
    <3>4. PICK p : p = preferred
      OBVIOUS
    <3>5. Known(p)' \/ up' = FALSE
      BY <3>1, <3>4, KnownStable, Zenon DEF PreferredIsKnown
    <3>6. QED
      BY <3>3, <3>4, <3>5, SMTT(30) DEF PreferredIsKnown, Known
  <2>4. QED
    BY <2>2, <2>3, Zenon
<1>3. ASSUME NEW b \in Ids, SetPreference(b) PROVE PreferredIsKnown'
  <2>1. Known(b)
    BY <1>3, <1>l, Zenon DEF SetPreference, EngineReady, Idle, CallInv, StoreInv, Known
  <2>2. QED
    BY <1>3, <2>1, SMTT(30) DEF SetPreference, PreferredIsKnown, Known
<1>4. CASE up' = FALSE
  BY <1>4, Zenon DEF PreferredIsKnown
<1>5. CASE up' = up /\ preferred' = preferred
  <2>1. PICK p : p = preferred
    OBVIOUS
  <2>2. up' => Known(p)' \/ up' = FALSE
    BY <1>5, <2>1, KnownStable, Zenon DEF PreferredIsKnown
  <2>3. QED
    BY <1>5, <1>t, <2>1, <2>2, Zenon DEF PreferredIsKnown, Known
<1>6. QED
  <2>1. CASE FirstStart \/ WriteBlock \/ SetLastAccepted
    BY <2>1, <1>5, Zenon DEF FirstStart, WriteBlock, SetLastAccepted
  <2>2. CASE Crash \/ Tick \/ (\E normal \in BOOLEAN : SetState(normal))
    BY <2>2, <1>4, <1>5, Zenon DEF Crash, Tick, SetState
  <2>3. ASSUME NEW b \in Ids, Decide(b) \/ Verify(b) \/ Build(b) PROVE PreferredIsKnown'
    BY <2>3, <1>5, Zenon DEF Decide, Verify, Build
  <2>4. ASSUME NEW b \in Ids, Accept(b) \/ Reject(b) PROVE PreferredIsKnown'
    BY <2>4, <1>5, Zenon DEF Accept, Reject
  <2>5. CASE UNCHANGED vars
    BY <2>5, <1>5, Zenon DEF vars
  <2>6. QED
    BY <1>1, <1>2, <1>3, <2>1, <2>2, <2>3, <2>4, <2>5, Zenon DEF Next

\* A block that verify or build_block newly lets in rests on known blocks.
LEMMA NewlyVerified ==
  ASSUME IInv, EngineReady, NEW b \in Ids, b \notin processing, VerifyOk(b),
         Parent[b] # EmptyId, ~(b \notin verified /\ stored[b] # "None")
  PROVE  stored[b] = "None" /\ Known(Parent[b]) /\ FollowsParent(b)
<1>1. StoreInv
  BY SMTT(30) DEF IInv
<1>2. b \notin verified /\ stored[b] = "None"
  BY <1>1, Zenon DEF StoreInv
<1>3. ~Known(b)
  BY <1>2, Zenon DEF Known
<1>4. QED
  BY <1>2, <1>3, Zenon DEF VerifyOk

LEMMA StoreStep == IInv /\ [Next]_vars => StoreInv'
<1> SUFFICES ASSUME IInv, [Next]_vars PROVE StoreInv'
  OBVIOUS
<1> TypeOK /\ ChainInv /\ CallInv /\ StoreInv /\ LastAcceptedIsStored
  BY Zenon DEF IInv
<1>t. /\ decided \subseteq Ids /\ stored \in [Ids -> {"None", "Accepted", "Rejected"}]
      /\ processing \subseteq Ids /\ up \in BOOLEAN /\ call \in Calls
  BY Zenon DEF TypeOK
<1>c. /\ Height \in [Ids -> Nat] /\ Genesis \in Ids /\ EmptyId \notin Ids
      /\ Parent \in [Ids -> Ids \cup {EmptyId}]
  BY ConstantsAssumption, Zenon
<1>k. \A b \in processing : Known(Parent[b])' \/ up' = FALSE
  BY KnownStable, Zenon DEF StoreInv
<1>g. Genesis \notin processing
  BY <1>c, <1>t, GenesisAssumption, Zenon DEF StoreInv, Known, TypeOK
<1>i. call = Idle => call.op = "idle" /\ call.step = "none"
  BY SMTT(30) DEF Idle
<1>e. EngineReady => engineLast # EmptyId
  BY <1>i, Zenon DEF EngineReady, CallInv
<1>1. ASSUME NEW b \in Ids, Verify(b) PROVE StoreInv'
  <2>1. UNCHANGED <<stored, lastAccepted, decided, up, call>> /\ up /\ EngineReady
    BY <1>1, SMTT(30) DEF Verify, EngineReady
  <2>2. CASE ~ParseAndVerify(b)
    <3>1. UNCHANGED <<verified, processing>>
      BY <1>1, <2>2, SMTT(30) DEF Verify
    <3>2. QED
      BY <2>1, <3>1, Zenon DEF StoreInv, Known
  <2>3. CASE ParseAndVerify(b)
    <3>1. verified' = verified \cup {b} /\ processing' = processing \cup {b} /\ b \notin processing
      BY <1>1, <2>3, Zenon DEF Verify
    <3>2. Parent[b] # EmptyId
      BY <1>1, <1>c, <1>t, <1>e, <2>1, Zenon DEF Verify, Detached
    <3>3. VerifyOk(b) /\ ~(b \notin verified /\ stored[b] # "None")
      BY <2>3, <3>2, Zenon DEF ParseAndVerify, VerifyDetached
    <3>4. stored[b] = "None" /\ Known(Parent[b]) /\ FollowsParent(b)
      BY <2>1, <3>1, <3>2, <3>3, NewlyVerified, Zenon
    <3>5. \A x : Known(x) => Known(x)'
      BY <2>1, <3>1, SMTT(30) DEF Known
    <3>6. QED
      BY <2>1, <3>1, <3>4, <3>5, Zenon DEF StoreInv, FollowsParent
  <2>4. QED
    BY <2>2, <2>3, Zenon
<1>2. ASSUME NEW b \in Ids, Build(b) PROVE StoreInv'
  <2>1. UNCHANGED <<stored, lastAccepted, decided, up, call>> /\ up /\ EngineReady
    BY <1>2, SMTT(30) DEF Build, EngineReady
  <2>2. CASE ~VerifyOk(b)
    <3>1. UNCHANGED <<verified, processing>>
      BY <1>2, <2>2, SMTT(30) DEF Build
    <3>2. QED
      BY <2>1, <3>1, Zenon DEF StoreInv, Known
  <2>3. CASE VerifyOk(b)
    <3>1. verified' = verified \cup {b} /\ processing' = processing \cup {b}
      BY <1>2, <2>3, SMTT(30) DEF Build
    <3>2. b \notin processing /\ stored[b] = "None"
      BY <1>2, SMTT(30) DEF Build, Known, StoreInv
    <3>3. Parent[b] # EmptyId
      <4>1. PreferredIsKnown
        BY SMTT(30) DEF IInv
      <4>2. QED
        BY <1>2, <1>c, <1>t, <2>1, <4>1, Zenon DEF Build, PreferredIsKnown, Known, TypeOK
    <3>4. Known(Parent[b]) /\ FollowsParent(b)
      BY <2>1, <2>3, <3>2, <3>3, NewlyVerified, Zenon
    <3>5. \A x : Known(x) => Known(x)'
      BY <2>1, <3>1, SMTT(30) DEF Known
    <3>6. QED
      BY <2>1, <3>1, <3>2, <3>4, <3>5, SMTT(30) DEF StoreInv, FollowsParent
  <2>4. QED
    BY <2>2, <2>3, Zenon
<1>3. CASE WriteBlock
  <2>1. /\ UNCHANGED <<lastAccepted, decided, up, verified, processing>> /\ call.step = "write"
        /\ call'.blk = call.blk /\ call'.step \in {"tip", "forget"}
    BY <1>3, <1>t, Zenon DEF WriteBlock, Calls
  <2>2. call.op \in {"init", "accept", "reject"} /\ call.blk \in Ids
    BY <1>3, <1>t, <1>c DEF WriteBlock, CallInv, Idle, Calls
  <2>3. stored' = [stored EXCEPT ![call.blk] = IF call.op = "reject" THEN "Rejected" ELSE "Accepted"]
    BY <1>3, Zenon DEF WriteBlock
  <2>4. \A x : Known(x) => Known(x)'
    BY <1>t, <2>1, <2>2, <2>3, SMTT(30) DEF Known
  <2>5. \A b \in processing' :
          /\ stored'[b] = "None" \/ (b = call'.blk /\ call'.step \in {"tip", "forget"})
          /\ Known(Parent[b])' /\ FollowsParent(b)
    BY <1>t, <2>1, <2>2, <2>3, <2>4, Zenon DEF StoreInv
  <2>6. stored'[Genesis] # "Rejected"
    <3>1. call.op = "reject" => call.blk # Genesis
      BY <1>g, Zenon DEF CallInv
    <3>2. QED
      BY <1>c, <1>t, <2>2, <2>3, <3>1, Zenon DEF StoreInv
  <2>7. ASSUME NEW b \in Ids, stored'[b] = "Accepted"
        PROVE  /\ b \in decided
               /\ b = Genesis \/ (lastAccepted # EmptyId /\ Height[b] <= Height[lastAccepted] + 1)
    <3>1. CASE stored[b] = "Accepted"
      BY <3>1, SMTT(30) DEF StoreInv
    <3>2. CASE b = call.blk /\ call.op = "init"
      BY <3>2, Zenon DEF CallInv, ChainInv
    <3>3. CASE b = call.blk /\ call.op = "accept"
      <4>1. b \in decided /\ Parent[b] = lastAccepted /\ lastAccepted # EmptyId
        BY <1>c, <2>1, <3>3, Zenon DEF CallInv
      <4>2. lastAccepted \in decided /\ Height[b] = Height[lastAccepted] + 1
        BY <4>1, AcceptHeight, SMTT(30)
      <4>3. QED
        BY <1>c, <1>t, <4>1, <4>2, SMTT(30)
    <3>4. QED
      BY <1>t, <2>2, <2>3, <2>7, <3>1, <3>2, <3>3, Zenon
  <2>8. QED
    BY <2>1, <2>5, <2>6, <2>7, Zenon DEF StoreInv, FollowsParent
<1>4. CASE SetLastAccepted
  <2>1. /\ UNCHANGED <<stored, decided, up, verified, processing>> /\ lastAccepted' = call.blk
        /\ call'.blk = call.blk /\ call'.step = "forget"
    BY <1>4, <1>t, Zenon DEF SetLastAccepted, Calls
  <2>2. \/ call.op = "init" /\ lastAccepted = EmptyId /\ call.blk = Genesis
        \/ /\ call.op = "accept" /\ call.blk \in decided
           /\ Parent[call.blk] = lastAccepted /\ lastAccepted # EmptyId
    BY <1>4, <1>t, <1>c DEF SetLastAccepted, CallInv, Idle, Calls
  <2>3. ASSUME NEW b \in Ids, stored[b] = "Accepted"
        PROVE  b = Genesis \/ (lastAccepted' # EmptyId /\ Height[b] <= Height[lastAccepted'] + 1)
    <3>1. CASE lastAccepted = EmptyId
      BY <2>3, <3>1, Zenon DEF StoreInv
    <3>2. CASE lastAccepted # EmptyId
      <4>1. call.blk \in decided /\ lastAccepted \in decided /\ Height[call.blk] = Height[lastAccepted] + 1
        BY <2>2, <3>2, AcceptHeight, SMTT(30)
      <4>2. b = Genesis \/ Height[b] <= Height[lastAccepted] + 1
        BY <2>3, SMTT(30) DEF StoreInv
      <4>3. QED
        BY <1>c, <1>t, <2>1, <4>1, <4>2
    <3>3. QED
      BY <3>1, <3>2, Zenon
  <2>4. \A x : Known(x) => Known(x)'
    BY <2>1, Zenon DEF Known
  <2>5. QED
    BY <2>1, <2>3, <2>4, Zenon DEF StoreInv, FollowsParent
<1>5. CASE RemoveVerified
  <2>1. /\ UNCHANGED <<stored, lastAccepted, decided>> /\ up' = TRUE /\ call' = Idle
        /\ verified' = verified \ {call.blk} /\ processing' = processing \ {call.blk}
    BY <1>5, Zenon DEF RemoveVerified
  <2>2. \A b \in processing' : stored[b] = "None" /\ Known(Parent[b])' /\ FollowsParent(b)
    BY <1>k, <2>1, ZenonT(40) DEF StoreInv
  <2>3. QED
    BY <2>1, <2>2, Zenon DEF StoreInv, FollowsParent
<1>6. CASE Crash
  BY <1>6, Zenon DEF Crash, StoreInv
<1>7. ASSUME NEW b \in Ids, Decide(b) PROVE StoreInv'
  BY <1>7, Zenon DEF Decide, StoreInv, Known, FollowsParent
<1>8. CASE /\ call = Idle
           /\ UNCHANGED <<stored, lastAccepted, decided, verified, processing>>
           /\ up' = up \/ up' = TRUE
  <2>1. \A x : Known(x) => Known(x)'
    BY <1>8, Zenon DEF Known
  <2>2. \A b \in processing : stored[b] = "None"
    BY <1>8, <1>i, Zenon DEF StoreInv
  <2>3. QED
    BY <1>8, <2>1, <2>2, Zenon DEF StoreInv, FollowsParent
<1>9. CASE UNCHANGED <<stored, lastAccepted, decided, verified, processing, up, call>>
  BY <1>9, Zenon DEF StoreInv, Known, FollowsParent
<1>10. QED
  <2>1. CASE Restart \/ FirstStart
    BY <2>1, <1>8, Zenon DEF Restart, FirstStart
  <2>2. CASE Tick \/ (\E normal \in BOOLEAN : SetState(normal))
    BY <2>2, <1>9, Zenon DEF Tick, SetState
  <2>3. ASSUME NEW b \in Ids, SetPreference(b) PROVE StoreInv'
    BY <2>3, <1>9, Zenon DEF SetPreference
  <2>4. ASSUME NEW b \in Ids, Accept(b) \/ Reject(b) PROVE StoreInv'
    BY <2>4, <1>8, Zenon DEF Accept, Reject
  <2>5. CASE UNCHANGED vars
    BY <2>5, <1>9, Zenon DEF vars
  <2>6. QED
    BY <1>1, <1>2, <1>3, <1>4, <1>5, <1>6, <1>7, <2>1, <2>2, <2>3, <2>4, <2>5, Zenon DEF Next

LEMMA CallStep == IInv /\ [Next]_vars => CallInv'
<1> SUFFICES ASSUME IInv, [Next]_vars PROVE CallInv'
  OBVIOUS
<1> TypeOK /\ ChainInv /\ CallInv /\ StoreInv /\ LastAcceptedIsStored
  BY Zenon DEF IInv
<1>t. /\ decided \subseteq Ids /\ stored \in [Ids -> {"None", "Accepted", "Rejected"}]
      /\ up \in BOOLEAN /\ call \in Calls /\ engineLast \in Ids \cup {EmptyId}
      /\ processing \subseteq Ids /\ Genesis \in Ids
  BY ConstantsAssumption, SMTT(30) DEF TypeOK
<1>i. Idle.op = "idle"
  BY Zenon DEF Idle
\* A handler that starts and ends between calls.
<1>1. CASE /\ call' = Idle
           /\ up' => engineLast' = lastAccepted' /\ lastAccepted' # EmptyId
  BY <1>1, <1>i, Zenon DEF CallInv
<1>2. CASE FirstStart
  BY <1>2, Zenon DEF FirstStart, CallInv, Idle
<1>3. ASSUME NEW b \in Ids, Accept(b) PROVE CallInv'
  <2>1. /\ up /\ call = Idle /\ b \in processing \cap decided /\ Parent[b] = engineLast
        /\ ledger' = InnerBuild(b) /\ call' = [op |-> "accept", blk |-> b, step |-> "write"]
        /\ UNCHANGED <<stored, lastAccepted, up, processing, decided, engineLast>>
    BY <1>3, SMTT(30) DEF Accept
  <2>2. engineLast = lastAccepted /\ lastAccepted # EmptyId
    BY <1>i, <2>1, Zenon DEF CallInv
  <2>3. (Advances(b) => InLedger(b)') /\ MetaTime[b] <= LedgerTime'
    BY <2>1, <2>2, InnerBuildCorrect, ZenonT(40)
  <2>4. Advances(b)' <=> Advances(b)
    BY <2>1, Zenon DEF Advances
  <2>5. call'.op = "accept" /\ call'.blk = b /\ call'.step = "write"
    BY <2>1, Zenon
  <2>6. call' # Idle
    BY <1>i, <2>5, SMTT(30)
  <2>7. QED
    BY <1>t, <2>1, <2>2, <2>3, <2>4, <2>5, <2>6, Zenon DEF CallInv
<1>4. ASSUME NEW b \in Ids, Reject(b) PROVE CallInv'
  <2>1. /\ up /\ call = Idle /\ b \in processing
        /\ call' = [op |-> "reject", blk |-> b, step |-> "write"]
        /\ UNCHANGED <<stored, lastAccepted, up, processing, engineLast>>
    BY <1>4, SMTT(30) DEF Reject
  <2>2. engineLast = lastAccepted /\ lastAccepted # EmptyId
    BY <1>i, <2>1, Zenon DEF CallInv
  <2>3. call'.op = "reject" /\ call'.blk = b /\ call'.step = "write"
    BY <2>1, SMTT(30)
  <2>4. QED
    BY <1>i, <2>1, <2>2, <2>3, Zenon DEF CallInv
<1>5. CASE WriteBlock
  <2>1. /\ UNCHANGED <<lastAccepted, ledger, up, engineLast, processing, decided>>
        /\ call'.op = call.op /\ call'.blk = call.blk /\ call.step = "write"
        /\ call'.step = IF call.op = "reject" THEN "forget" ELSE "tip"
    BY <1>5, <1>t, Zenon DEF WriteBlock, Calls
  <2>2. call.op # "idle" /\ call.blk \in Ids
    <3>1. call.op # "idle"
      BY <2>1, BusyCall, Zenon
    <3>2. call.op \in {"init", "accept", "reject"}
      BY <1>t, <3>1, SMTT(30) DEF Calls
    <3>3. call.op \in {"accept", "reject"} => call.blk \in processing
      BY <3>2, SMTT(30) DEF CallInv
    <3>4. call.op = "init" => call.blk = Genesis
      BY Zenon DEF CallInv
    <3>5. processing \subseteq Ids
      BY <1>i, Zenon DEF TypeOK
    <3>6. QED
      BY <3>1, <3>2, <3>3, <3>4, <3>5, ConstantsAssumption, Zenon
  <2>3. stored'[call.blk] = IF call.op = "reject" THEN "Rejected" ELSE "Accepted"
    BY <1>5, <1>t, <2>2, Zenon DEF WriteBlock
  <2>4. /\ Advances(call.blk)' <=> Advances(call.blk)
        /\ InLedger(call.blk)' <=> InLedger(call.blk)
        /\ LedgerTime' = LedgerTime
    BY <2>1, SMTT(30) DEF Advances, InLedger, LedgerTime
  <2>5. QED
    BY <1>i, <2>1, <2>2, <2>3, <2>4, Zenon DEF CallInv, Advances, InLedger, LedgerTime
<1>6. CASE SetLastAccepted
  <2>1. /\ UNCHANGED <<stored, ledger, up, engineLast, processing, decided>>
        /\ call'.op = call.op /\ call'.blk = call.blk /\ call.step = "tip"
        /\ call'.step = "forget" /\ lastAccepted' = call.blk
    BY <1>6, <1>t, Zenon DEF SetLastAccepted, Calls
  <2>2. call.op \in {"init", "accept"}
    <3>1. call.op # "idle"
      BY <2>1, BusyCall, SMTT(30)
    <3>2. call.op \in {"init", "accept", "reject"}
      BY <1>t, <3>1, Zenon DEF Calls
    <3>3. call.op = "reject" => call.step # "tip"
      BY Zenon DEF CallInv
    <3>4. QED
      BY <2>1, <3>2, <3>3, Zenon
  <2>3. call' # Idle
    BY <1>i, <2>1, <2>2, Zenon
  <2>4. QED
    BY <2>1, <2>2, <2>3, Zenon DEF CallInv, Advances, InLedger, LedgerTime
<1>7. CASE RemoveVerified
  <2>1. /\ call' = Idle /\ UNCHANGED lastAccepted /\ call.step = "forget"
        /\ engineLast' = IF call.op = "reject" THEN engineLast ELSE call.blk
    BY <1>7, SMTT(30) DEF RemoveVerified
  <2>2. call.op # "idle"
    BY <2>1, SMTT(30) DEF CallInv, Idle
  <2>3. engineLast' = lastAccepted /\ lastAccepted # EmptyId
    BY <1>t, <2>1, <2>2, ConstantsAssumption DEF CallInv, Calls
  <2>4. QED
    BY <1>1, <2>1, <2>3, Zenon
<1>8. ASSUME NEW b \in Ids, Decide(b) PROVE CallInv'
  <2>1. /\ UNCHANGED <<call, up, stored, lastAccepted, ledger, processing, engineLast>>
        /\ decided \subseteq decided'
    BY <1>8, Zenon DEF Decide
  <2>2. call.op = "accept" => (Advances(call.blk)' <=> Advances(call.blk))
    <3> SUFFICES ASSUME call.op = "accept" PROVE Advances(call.blk)' <=> Advances(call.blk)
      BY ZenonT(40)
    <3>1. PICK x \in decided : x = call.blk
      BY Zenon DEF CallInv
    <3>2. Advances(x)' <=> Advances(x)
      BY AdvancesStable, Zenon
    <3>3. QED
      BY <2>1, <3>1, <3>2, Zenon DEF Advances
  <2>3. (InLedger(call.blk)' <=> InLedger(call.blk)) /\ LedgerTime' = LedgerTime
    BY <2>1, SMTT(30) DEF InLedger, LedgerTime
  <2>4. QED
    BY <2>1, <2>2, <2>3, Zenon DEF CallInv, Advances, InLedger, LedgerTime
<1>9. CASE UNCHANGED <<call, up, stored, lastAccepted, ledger, processing, engineLast, decided>>
  BY <1>9, Zenon DEF CallInv, Advances, InLedger, LedgerTime
<1>10. QED
  <2>1. CASE Restart \/ Crash
    BY <2>1, <1>1, Zenon DEF Restart, Crash
  <2>2. CASE Tick \/ (\E normal \in BOOLEAN : SetState(normal))
    BY <2>2, <1>9, Zenon DEF Tick, SetState
  <2>3. ASSUME NEW b \in Ids, Verify(b) \/ Build(b) PROVE CallInv'
    <3>1. call' = Idle /\ up /\ call = Idle /\ UNCHANGED <<engineLast, lastAccepted>>
      BY <2>3, Zenon DEF Verify, Build, EngineReady
    <3>2. QED
      BY <1>1, <1>i, <3>1, Zenon DEF CallInv
  <2>4. ASSUME NEW b \in Ids, SetPreference(b) PROVE CallInv'
    BY <2>4, <1>9, Zenon DEF SetPreference
  <2>5. CASE UNCHANGED vars
    BY <2>5, <1>9, Zenon DEF vars
  <2>6. QED
    BY <1>2, <1>3, <1>4, <1>5, <1>6, <1>7, <1>8, <2>1, <2>2, <2>3, <2>4, <2>5, SMTT(30) DEF Next

-----------------------------------------------------------------------------
(* The theorems. *)

LEMMA InvInit == Init => IInv
<1> SUFFICES ASSUME Init PROVE IInv
  OBVIOUS
<1>1. TypeOK
  BY TypeInit, SMTT(30)
<1>2. ChainInv
  BY Zenon DEF Init, ChainInv
<1>3. CallInv
  BY Zenon DEF Init, CallInv, Idle
<1>4. StoreInv
  BY ConstantsAssumption, Zenon DEF Init, StoreInv
<1>5. LastAcceptedIsStored /\ PreferredIsKnown
  BY Zenon DEF Init, LastAcceptedIsStored, PreferredIsKnown
<1>6. LedgerInv
  <2>1. Len(ledger) = 0 /\ 1..Len(ledger) = {}
    BY DEF Init
  <2>2. \A b \in Ids : ~InLedger(b) /\ stored[b] = "None"
    BY <2>1, ConstantsAssumption, Zenon DEF Init, InLedger
  <2>3. QED
    BY <2>1, <2>2, Zenon DEF LedgerInv
<1>7. QED
  BY <1>1, <1>2, <1>3, <1>4, <1>5, <1>6, Zenon DEF IInv

\* The inductive invariant: it holds at the start, and every handler, crash and
\* step of the environment keeps it.
THEOREM Inductive == Spec => []IInv
<1>1. IInv /\ [Next]_vars => IInv'
  BY TypeStep, ChainStep, CallStep, StoreStep, LastAcceptedStep, PreferredStep, LedgerStep, Zenon DEF IInv
<1>2. QED
  BY InvInit, <1>1, PTL DEF Spec

\* Whatever the crashes, the Aptos ledger is a function of the decided chain:
\* inner_build_block never commits a block twice, out of order, or one that
\* consensus did not decide, and an accepted block is missing from the ledger
\* only if its metadata time did not advance.
THEOREM LedgerCorrect == Spec => []LedgerFollowsChain
<1>1. IInv => LedgerFollowsChain
  BY Zenon DEF IInv, LedgerInv, LedgerFollowsChain
<1>2. QED
  BY Inductive, <1>1, PTL

\* The last accepted pointer and everything below it is stored as accepted.
THEOREM PointerCorrect == Spec => []LastAcceptedIsStored
<1>1. IInv => LastAcceptedIsStored
  BY SMTT(30) DEF IInv
<1>2. QED
  BY Inductive, <1>1, PTL

\* A stop inside Block::accept leaves at most one block accepted in the store
\* and not yet pointed at, and it is the next one.
THEOREM TornAcceptBound == Spec => []OneTornAccept
<1>1. IInv => OneTornAccept
  <2> SUFFICES ASSUME IInv, NEW b \in Ids, stored[b] = "Accepted", b # Genesis
               PROVE  /\ b \in decided /\ lastAccepted # EmptyId
                      /\ Height[b] <= Height[lastAccepted] \/ Parent[b] = lastAccepted
    BY Zenon DEF OneTornAccept, IInv, StoreInv
  <2>1. TypeOK /\ ChainInv /\ StoreInv /\ LastAcceptedIsStored
    BY Zenon DEF IInv
  <2>2. b \in decided /\ lastAccepted # EmptyId /\ Height[b] <= Height[lastAccepted] + 1
    BY <2>1, SMTT(30) DEF StoreInv
  <2>3. lastAccepted \in decided /\ Parent[b] \in decided /\ Height[Parent[b]] = Height[b] - 1
    BY <2>1, <2>2, Zenon DEF LastAcceptedIsStored, ChainInv, FollowsParent
  <2>4. Height[b] \in Nat /\ Height[lastAccepted] \in Nat
    BY <2>1, <2>2, <2>3, ConstantsAssumption, SMTT(30) DEF TypeOK
  <2>5. CASE Height[b] = Height[lastAccepted] + 1
    <3>1. Height[Parent[b]] = Height[lastAccepted]
      BY <2>3, <2>4, <2>5
    <3>2. QED
      BY <2>1, <2>2, <2>3, <3>1, SMTT(30) DEF ChainInv
  <2>6. QED
    BY <2>2, <2>4, <2>5, SMTT(30)
<1>2. QED
  BY Inductive, <1>1, PTL

\* Between calls the verified map is the engine's processing set, and nothing in it
\* is decided.
THEOREM MemoryCorrect == Spec => []VerifiedIsProcessing
<1>1. IInv => VerifiedIsProcessing
  BY DEF IInv, StoreInv, VerifiedIsProcessing, Idle
<1>2. QED
  BY Inductive, <1>1, PTL

\* The preferred block that build_block unwraps and the parents that verify looks up
\* are found, whatever was accepted, rejected or lost in a crash before.
THEOREM LookupsSucceed == Spec => []BlocksAreFound
<1>1. IInv => BlocksAreFound
  BY Zenon DEF IInv, StoreInv, BlocksAreFound, ProcessingIsLinked, Idle
<1>2. QED
  BY Inductive, <1>1, PTL

LEMMA ExtendsStep == IInv /\ [Next]_vars => OnlyExtends
<1> SUFFICES ASSUME IInv, [Next]_vars PROVE OnlyExtends
  OBVIOUS
<1> TypeOK /\ CallInv /\ StoreInv
  BY Zenon DEF IInv
<1>t. stored \in [Ids -> {"None", "Accepted", "Rejected"}] /\ call \in Calls /\ ledger \in Seq(Ids)
  BY Zenon DEF TypeOK
<1>l. Len(ledger) \in Nat
  BY <1>t
<1>1. CASE WriteBlock
  <2>1. UNCHANGED <<ledger, lastAccepted>> /\ call.step = "write"
    BY <1>1, SMTT(30) DEF WriteBlock
  <2>2. call.op # "idle"
    BY <2>1, SMTT(30) DEF CallInv, Idle
  <2>3. call.blk \in Ids
    BY <1>t, <2>2, ConstantsAssumption, Zenon DEF CallInv, TypeOK, Calls
  <2>4. stored' = [stored EXCEPT ![call.blk] = IF call.op = "reject" THEN "Rejected" ELSE "Accepted"]
    BY <1>1, Zenon DEF WriteBlock
  <2>5. call.op \in {"accept", "reject"} => stored[call.blk] = "None"
    BY <2>1, ZenonT(40) DEF CallInv, StoreInv
  <2>6. call.op = "init" => stored[call.blk] \in {"None", "Accepted"}
    BY <1>t, <2>3, Zenon DEF CallInv, StoreInv
  <2>7. \A b \in Ids : stored[b] # "None" => stored'[b] = stored[b]
    BY <1>t, <2>2, <2>3, <2>4, <2>5, <2>6, SMTT(30) DEF Calls
  <2>8. QED
    BY <1>l, <2>1, <2>7 DEF OnlyExtends
<1>2. CASE SetLastAccepted
  <2>1. UNCHANGED <<ledger, stored>> /\ lastAccepted' = call.blk /\ call.step = "tip"
    BY <1>2, SMTT(30) DEF SetLastAccepted
  <2>2. Parent[call.blk] = lastAccepted
    BY <1>t, <2>1, GenesisAssumption, SMTT(30) DEF CallInv, Idle, Calls
  <2>3. QED
    BY <1>l, <2>1, <2>2 DEF OnlyExtends
<1>3. ASSUME NEW b \in Ids, Accept(b) PROVE OnlyExtends
  <2>1. UNCHANGED <<stored, lastAccepted>> /\ (ledger' = ledger \/ ledger' = Append(ledger, b))
    BY <1>3, Zenon DEF Accept, InnerBuild
  <2>2. Len(ledger) <= Len(ledger') /\ \A i \in 1..Len(ledger) : ledger'[i] = ledger[i]
    BY <1>t, <1>l, <2>1
  <2>3. QED
    BY <2>1, <2>2, SMTT(30) DEF OnlyExtends
<1>4. CASE UNCHANGED persistent
  BY <1>4, <1>l DEF OnlyExtends
<1>5. QED
  <2>1. CASE Restart \/ FirstStart \/ RemoveVerified
    BY <2>1, <1>4, SMTT(30) DEF Restart, FirstStart, RemoveVerified
  <2>2. CASE Crash \/ Tick \/ (\E normal \in BOOLEAN : SetState(normal))
    BY <2>2, <1>4, SMTT(30) DEF Crash, Tick, SetState
  <2>3. ASSUME NEW b \in Ids, Verify(b) \/ Build(b) \/ SetPreference(b) PROVE OnlyExtends
    BY <2>3, <1>4, Zenon DEF Verify, Build, SetPreference
  <2>4. ASSUME NEW b \in Ids, Decide(b) \/ Reject(b) PROVE OnlyExtends
    BY <2>4, <1>4, Zenon DEF Decide, Reject
  <2>5. CASE UNCHANGED vars
    BY <2>5, <1>4, Zenon DEF vars
  <2>6. QED
    BY <1>1, <1>2, <1>3, <2>1, <2>2, <2>3, <2>4, <2>5, SMTT(30) DEF Next

\* "only decided blocks are persistent -- no reorg": no step of any handler, and
\* no crash, withdraws a decision, rewrites the ledger or moves the last
\* accepted pointer anywhere but to a child.
THEOREM NeverReorgs == Spec => NoReorg
<1>1. IInv /\ [Next]_vars => [OnlyExtends]_vars
  BY ExtendsStep, Zenon
<1>2. QED
  BY Inductive, <1>1, PTL DEF Spec, NoReorg

LEMMA PromiseStep == IInv /\ [Next]_vars => [Promise!Next]_(Promise!vars)
<1> SUFFICES ASSUME IInv, [Next]_vars PROVE Promise!Next \/ UNCHANGED Promise!vars
  OBVIOUS
<1> TypeOK /\ ChainInv /\ CallInv /\ LedgerInv
  BY Zenon DEF IInv
<1>t. ledger \in Seq(Ids) /\ call \in Calls
  BY Zenon DEF TypeOK
<1>1. ASSUME NEW b \in Ids, Decide(b) PROVE Promise!Next
  <2>1. UNCHANGED <<lastAccepted, ledger>>
    BY <1>1, Zenon DEF Decide
  <2>2. Promise!Decide(b)
    BY <1>1, <2>1, Zenon DEF Decide, FollowsParent, InLedger, Promise!Decide
  <2>3. QED
    BY <2>2, Zenon DEF Promise!Next
<1>2. CASE SetLastAccepted
  <2>1. UNCHANGED <<decided, ledger>> /\ lastAccepted' = call.blk /\ call.step = "tip"
    BY <1>2, SMTT(30) DEF SetLastAccepted
  <2>2. /\ call.blk \in decided /\ Parent[call.blk] = lastAccepted
        /\ call.blk # Genesis /\ Advances(call.blk) => InLedger(call.blk)
    <3>1. call.op \in {"init", "accept"}
      BY <1>t, <2>1, SMTT(30) DEF CallInv, Idle, Calls
    <3>2. CASE call.op = "init"
      <4>1. call.blk = Genesis /\ lastAccepted = EmptyId
        BY <2>1, <3>2, SMTT(30) DEF CallInv
      <4>2. Genesis \in decided
        BY Zenon DEF ChainInv
      <4>3. QED
        BY <4>1, <4>2, GenesisAssumption, ZenonT(40)
    <3>3. CASE call.op = "accept"
      <4>1. /\ call.blk \in decided /\ Parent[call.blk] = engineLast /\ lastAccepted = engineLast
            /\ Advances(call.blk) => InLedger(call.blk)
        BY <2>1, <3>3, SMTT(30) DEF CallInv
      <4>2. QED
        BY <4>1, Zenon
    <3>4. QED
      BY <3>1, <3>2, <3>3, Zenon
  <2>3. call.blk \in Ids
    BY <2>2, SMTT(30) DEF TypeOK
  <2>4. Promise!Advance(call.blk)
    BY <2>1, <2>2, <2>3, Zenon DEF Promise!Advance, Promise!Advances, Advances, InLedger
  <2>5. QED
    BY <2>3, <2>4, Zenon DEF Promise!Next
<1>3. ASSUME NEW b \in Ids, Accept(b) PROVE Promise!Next \/ UNCHANGED Promise!vars
  <2>1. UNCHANGED <<lastAccepted, decided>> /\ b \in decided /\ ledger' = InnerBuild(b)
    BY <1>3, SMTT(30) DEF Accept
  <2>2. Parent[b] = lastAccepted /\ lastAccepted # EmptyId
    BY <1>3, Zenon DEF Accept, CallInv, Idle
  <2>3. b # Genesis
    BY <2>1, <2>2, AcceptHeight, Zenon
  <2>4. CASE LedgerTime < MetaTime[b]
    <3>1. ledger' = Append(ledger, b)
      BY <2>1, <2>4, Zenon DEF InnerBuild
    <3>2. \A x \in Ids : InLedger(x)' <=> InLedger(x) \/ x = b
      BY <1>t, <3>1, SMTT(30) DEF InLedger
    <3>3. Advances(b)
      BY <2>1, <2>2, <3>2, InnerBuildCorrect, Zenon
    <3>4. {x \in Ids : InLedger(x)}' = {x \in Ids : InLedger(x)} \cup {b}
      BY <3>2, SMTT(30)
    <3>5. Promise!Commit(b)
      BY <2>1, <2>2, <2>3, <3>3, <3>4, SMTT(30) DEF Promise!Commit, Promise!Advances, Advances
    <3>6. QED
      BY <3>5, Zenon DEF Promise!Next
  <2>5. CASE ~(LedgerTime < MetaTime[b])
    BY <2>1, <2>5, Zenon DEF InnerBuild, InLedger, Promise!vars
  <2>6. QED
    BY <2>4, <2>5, Zenon
<1>4. CASE UNCHANGED <<decided, lastAccepted, ledger>>
  BY <1>4, Zenon DEF InLedger, Promise!vars
<1>5. QED
  <2>1. CASE Restart \/ FirstStart \/ WriteBlock \/ RemoveVerified
    BY <2>1, <1>4, SMTT(30) DEF Restart, FirstStart, WriteBlock, RemoveVerified
  <2>2. CASE Crash \/ Tick \/ (\E normal \in BOOLEAN : SetState(normal))
    BY <2>2, <1>4, Zenon DEF Crash, Tick, SetState
  <2>3. ASSUME NEW b \in Ids, Verify(b) \/ Build(b) \/ SetPreference(b) \/ Reject(b)
        PROVE  UNCHANGED Promise!vars
    <3>1. UNCHANGED <<decided, lastAccepted, ledger>>
      BY <2>3, Zenon DEF Verify, Build, SetPreference, Reject
    <3>2. QED
      BY <3>1, Zenon DEF InLedger, Promise!vars
  <2>4. CASE UNCHANGED vars
    BY <2>4, <1>4, Zenon DEF vars
  <2>5. QED
    BY <1>1, <1>2, <1>3, <2>1, <2>2, <2>3, <2>4, Zenon DEF Next

\* The node implements ChainPromise: executing before the block is written and
\* pointed at, and doing it again after a crash, looks from outside like one
\* commit followed by one advance of the tip.
THEOREM ImplementsPromise == Spec => KeepsPromise
<1>1. Init => Promise!Init
  <2> SUFFICES ASSUME Init PROVE Promise!Init
    OBVIOUS
  <2>1. 1..Len(ledger) = {}
    BY DEF Init
  <2>2. QED
    BY <2>1, Zenon DEF Init, Promise!Init, InLedger
<1>2. QED
  BY Inductive, PromiseStep, <1>1, PTL DEF Spec, KeepsPromise, Promise!Spec
=============================================================================
