--------------------------- MODULE BlockStmProofs ---------------------------
(***************************************************************************)
(* The assertions of the block executor hold, whatever the number of        *)
(* threads, the blocks and the interleaving.  The invariant of the          *)
(* scheduler is kept by its own calls (SchedulerProofs) and, as shown here,  *)
(* by the steps of the executor around them; that of the multi-version map   *)
(* (MemoryProofs) is kept by every step once that of the scheduler is.       *)
(***************************************************************************)
EXTENDS SchedulerProofs, MemoryProofs, WellFoundedInduction

-----------------------------------------------------------------------------
(* The least and the greatest of a set *)

LEMMA LeastExists ==
  ASSUME NEW T \in SUBSET Nat, T # {}
  PROVE  \E i \in T : \A j \in T : i <= j
<1> DEFINE R == OpToRel(<, Nat)
<1>1. PICK i \in T : \A j \in T : ~(<<j, i>> \in R)
  <2>1. IsWellFoundedOn(R, Nat)
    BY NatLessThanWellFounded
  <2> HIDE DEF R
  <2> QED BY <2>1, WFMin, Zenon
<1>2. ASSUME NEW j \in T PROVE i <= j
  <2>1. ~(<<j, i>> \in R)
    BY <1>1
  <2>2. j < i => <<j, i>> \in R
    BY DEF OpToRel
  <2>3. ~(j < i)
    BY <2>1, <2>2, Zenon
  <2> QED BY <2>3
<1> QED BY <1>2, Zenon

LEMMA MaxIs ==
  ASSUME NEW n \in Nat, NEW S \in SUBSET (0..n), S # {}
  PROVE  Max(S) \in S /\ \A j \in S : Max(S) >= j
<1> DEFINE T == {n - j : j \in S}
<1>1. T \in SUBSET Nat /\ T # {}
  OBVIOUS
<1>2. PICK i \in T : \A j \in T : i <= j
  BY <1>1, LeastExists
<1>3. PICK m \in S : i = n - m
  OBVIOUS
<1>4. \A j \in S : m >= j
  BY <1>2, <1>3
<1> QED BY <1>4, Zenon DEF Max

LEMMA MinIs ==
  ASSUME NEW S \in SUBSET Nat, S # {}
  PROVE  Min(S) \in S /\ \A j \in S : Min(S) <= j
BY LeastExists, Zenon DEF Min

LEMMA ExtremaExist == Extrema
BY MaxIs, MinIs, Zenon DEF Extrema

-----------------------------------------------------------------------------
(* Reads *)

\* A read that meets an estimate names a lower transaction.
LEMMA DependencyIsLower ==
  ASSUME Extrema, SchedulerInv, NEW t \in Txns, NEW k, fetch_data(k, t).kind = "Dependency"
  PROVE  fetch_data(k, t).idx \in Txns
<1> DEFINE entries == versioned[k]
           below == {j \in 0..t - 1 : entries[j] # NoEntry}
           stops == {j \in below : \/ entries[j].estimate
                                   \/ entries[j].cell = "Write"
                                   \/ entries[j].shortcut # -1}
           r == fetch_data(k, t)
<1>1. t \in Nat /\ stops \subseteq 0..t /\ \A j \in stops : j \in Txns
  BY DEF SchedulerInv, SharedType, Txns
<1>2. stops # {} /\ r = Found("Dependency", Max(stops), -1, 0)
  BY DEF fetch_data, ReadEntries, Found, NotFound, Unresolved, Resolved
<1>3. r.idx = Max(stops)
  BY <1>2 DEF Found
<1> HIDE DEF stops, r
<1>4. Max(stops) \in stops
  BY <1>1, <1>2, Zenon DEF Extrema
<1> QED BY <1>1, <1>3, <1>4, Zenon DEF r

-----------------------------------------------------------------------------
(* The steps that change no status *)

LEMMA StartHookKeeps ==
  ASSUME SchedulerInv, HooksInv, NEW th \in Threads, StartHook(th)
  PROVE  SchedulerInv'
<1>1. Quiet
  BY QuietIs, Zenon DEF StartHook
<1>2. pc[th] = "run" /\ channel[th] # <<>> /\ Goto(th, "hook", Idle)
  BY Zenon DEF StartHook, HookWaits
<1>3. th # Coordinator
  BY <1>2, Zenon DEF HooksInv
<1>4. IsLocal(Idle) /\ Idle.todo \subseteq loc[th].todo
  BY IdleIs, Zenon DEF SchedulerInv
<1>5. "hook" \in Waiting /\ "hook" \in Pcs /\ "run" \in Waiting
  BY DEF Waiting, Pcs
<1>6. PcFits("hook", Kind(th)) /\ "hook" \notin Finishing \cup Marking
      /\ "run" \notin Finishing
  BY <1>5, Fits, Classes, KindAt, Zenon
<1>7. pc'[th] = "hook" /\ loc'[th] = Idle
  BY <1>2, GotoIs, Zenon DEF SchedulerInv
<1>8. CallInv(th)'
  BY <1>3, <1>7 DEF CallInv
<1>9. Active(th)
  BY <1>3, Zenon DEF Active
<1>10. pc[th] # "wait"
  BY <1>2
<1> QED BY <1>1, <1>2, <1>4, <1>5, <1>6, <1>8, <1>9, <1>10, GotoStep, Zenon

LEMMA VmEndsKeeps ==
  ASSUME SchedulerInv, Quiet, NEW th \in Threads, NEW e, NEW result, VmEnds(th, e, result),
         \/ pc[th] \in Running \cup Applying /\ (pc[th] # "wait" \/ condvar[th] # "Unresolved")
         \/ pc[th] = "run" /\ Kind(th) = "Execute"
  PROVE  SchedulerInv'
<1>1. PICK v : Goto(th, "apply", [Idle EXCEPT !.outside = v])
  BY Zenon DEF VmEnds
<1>2. IsLocal([Idle EXCEPT !.outside = v]) /\ [Idle EXCEPT !.outside = v].todo \subseteq loc[th].todo
  BY IdleWith, Zenon DEF SchedulerInv
<1>3. "apply" \in Applying
  BY DEF Applying
<1> QED BY <1>1, <1>2, <1>3, ExecutionGoesOn, Zenon

LEMMA StartExecutionKeeps ==
  ASSUME SchedulerInv, NEW th \in Threads, StartExecution(th)
  PROVE  SchedulerInv'
<1>1. Quiet /\ pc[th] = "run" /\ Kind(th) = "Execute"
  BY QuietIs, Zenon DEF StartExecution, Kind
<1>2. CASE VmEnds(th, NoExec, Output(block, task[th].txn, <<>>))
  BY <1>1, <1>2, VmEndsKeeps, Zenon
<1>3. CASE Goto(th, "read", Idle)
  <2>1. "read" \in Running
    BY DEF Running
  <2>2. IsLocal(Idle) /\ Idle.todo \subseteq loc[th].todo
    BY IdleIs, Zenon DEF SchedulerInv
  <2> QED BY <1>1, <1>3, <2>1, <2>2, ExecutionGoesOn, Zenon
<1> QED BY <1>2, <1>3, Zenon DEF StartExecution

LEMMA ReadKeeps ==
  ASSUME Extrema, SchedulerInv, NEW th \in Threads, Read(th)
  PROVE  SchedulerInv'
<1> DEFINE t == task[th].txn
           k == Reads(block, t)[Len(exec[th].reads) + 1]
           Got(r) == r = IF k \in Modules THEN ModuleRead(k, t) ELSE fetch_data(k, t)
<1>1. Quiet /\ pc[th] = "read"
  BY QuietIs, Zenon DEF Read
<1>2. "read" \in Running /\ "dependency" \in Running /\ "read" # "wait"
  BY DEF Running
<1>3. IsLocal(Idle) /\ Idle.todo \subseteq loc[th].todo
  BY IdleIs, Zenon DEF SchedulerInv
<1>4. CASE \E r : Got(r) /\ r.kind = "Dependency" /\ Goto(th, "dependency", [Idle EXCEPT !.idx = r.idx])
  <2>1. PICK r : Got(r) /\ r.kind = "Dependency" /\ Goto(th, "dependency", [Idle EXCEPT !.idx = r.idx])
    BY <1>4
  <2>2. r = fetch_data(k, t)
    <3>1. ModuleRead(k, t).kind = "Module"
      BY DEF ModuleRead, Found
    <3> QED BY <2>1, <3>1, Zenon
  <2>3. t \in Txns
    BY KindAt, Zenon DEF Txn
  <2>4. r.idx \in Txns
    BY <2>1, <2>2, <2>3, DependencyIsLower, Zenon
  <2>5. IsLocal([Idle EXCEPT !.idx = r.idx]) /\ [Idle EXCEPT !.idx = r.idx].todo \subseteq loc[th].todo
    BY <2>4, IdleWith, Zenon DEF SchedulerInv
  <2> QED BY <1>1, <1>2, <2>1, <2>5, ExecutionGoesOn, Zenon
<1>5. CASE UNCHANGED <<pc, task, loc>>
  BY <1>1, <1>5, SchedulerKept, Zenon DEF Read, scheduler, threads
<1>6. CASE \E e, o : VmEnds(th, e, o)
  BY <1>1, <1>2, <1>6, VmEndsKeeps, Zenon
<1>7. CASE Goto(th, "read", Idle)
  BY <1>1, <1>2, <1>3, <1>7, ExecutionGoesOn, Zenon
<1>8. PICK r \in {IF k \in Modules THEN ModuleRead(k, t) ELSE fetch_data(k, t)} :
        LET next == [exec[th] EXCEPT !.reads = Append(@, Descriptor(k, r)),
                                     !.vals = Append(@, IF r = NotFound THEN Storage(k) ELSE r.val)]
            ends == Len(next.reads) = Len(Reads(block, t))
        IN  CASE r.kind = "Dependency" ->
                   Goto(th, "dependency", [Idle EXCEPT !.idx = r.idx]) /\ UNCHANGED exec
              [] r = Unresolved -> UNCHANGED <<pc, task, loc, exec>>
              [] r.kind # "Dependency" /\ r # Unresolved /\ ends ->
                   VmEnds(th, next, Output(block, t, next.vals))
              [] OTHER -> Goto(th, "read", Idle) /\ Set(th, next)
  BY ZenonT(60) DEF Read
<1>9. Got(r)
  BY Zenon
<1> HIDE DEF Got
<1> QED BY <1>4, <1>5, <1>6, <1>7, <1>8, <1>9, Zenon

LEMMA VmHaltedKeeps ==
  ASSUME SchedulerInv, NEW th \in Threads, VmHalted(th)
  PROVE  SchedulerInv'
<1>1. Quiet /\ pc[th] = "vm_halted" /\ VmEnds(th, exec[th], VmAborted)
  BY QuietIs, Zenon DEF VmHalted
<1>2. pc[th] \in Running /\ pc[th] # "wait"
  BY <1>1 DEF Running
<1> QED BY <1>1, <1>2, VmEndsKeeps, Zenon

LEMMA RecordsKeep ==
  ASSUME SchedulerInv, NEW th \in Threads,
         StartRecord(th) \/ Show(th) \/ Record(th) \/ (Look(th) /\ Goto(th, "show", loc[th]))
  PROVE  SchedulerInv'
<1>1. Quiet
  BY QuietIs, Zenon DEF StartRecord, Show, Record, Look
<1>2. pc[th] \in Applying
  BY DEF StartRecord, Show, Record, Look, Applied, Applying
<1>3. PICK p \in Applying \cup {"executed"} : Goto(th, p, loc[th])
  BY DEF StartRecord, Show, Record, Applying
<1>4. IsLocal(loc[th])
  BY KindAt, Zenon
<1>5. pc[th] # "wait"
  BY <1>2 DEF Applying
<1> QED BY <1>1, <1>2, <1>3, <1>4, <1>5, ExecutionGoesOn, Zenon

\* An intersection of module reads and writes ends the execution.
LEMMA LookKeeps ==
  ASSUME SchedulerInv, NEW th \in Threads, Look(th)
  PROVE  SchedulerInv'
<1>1. CASE Goto(th, "show", loc[th])
  BY <1>1, RecordsKeep, Zenon
<1>2. CASE ~Goto(th, "show", loc[th])
  <2>1. Quiet
    BY QuietIs, Zenon DEF Look
  <2>2. /\ pc' = [pc EXCEPT ![th] = "halt"]
        /\ task' = [task EXCEPT ![th] = NoTask]
        /\ loc' = [loc EXCEPT ![th] = [Idle EXCEPT !.next = Top(th)]]
        /\ pc[th] = "look"
    BY <1>2, Zenon DEF Look
  <2>3. /\ Moves(th)
        /\ pc'[th] = "halt" /\ task'[th] = NoTask /\ loc'[th] = [Idle EXCEPT !.next = Top(th)]
    BY <2>2 DEF SchedulerInv, LocalType, Moves, Same
  <2>4. IsLocal([Idle EXCEPT !.next = Top(th)]) /\ [Idle EXCEPT !.next = Top(th)].todo \subseteq loc[th].todo
    BY IdleWith, Zenon DEF SchedulerInv
  <2>5. IsLocal(loc[th])' /\ loc'[th].todo \subseteq loc[th].todo
    BY <2>1, <2>3, <2>4, Zenon DEF IsLocal, Quiet, Txns
  <2>6. IsTask(task[th])' /\ Kind(th)' = "NoTask"
    BY <2>1, <2>3, NoTaskIs, Zenon DEF SchedulerInv, IsTask, Quiet, Txns, Kind
  <2>7. "halt" \in Waiting /\ "halt" \in Pcs /\ "NoTask" \in Kinds
    BY DEF Waiting, Pcs, Kinds
  <2>8. PcFits(pc[th], Kind(th))' /\ ~Abt(th)' /\ ~Exe(th)' /\ ~Fin(th)'
    BY <2>3, <2>6, <2>7, Fits, Classes, Zenon DEF Abt, Exe, Fin
  <2>9. CallInv(th)'
    <3>1. [Idle EXCEPT !.next = Top(th)].next = Top(th)
      BY DEF Idle
    <3>2. Top(th) # "send"
      BY TopIs
    <3> QED BY <2>3, <3>1, <3>2 DEF CallInv
  <2>10. Active(th)
    BY <2>2 DEF Active
  <2>11. pc[th] # "wait"
    BY <2>2
  <2>12. Kind(th)' \notin {"Execute", "Wakeup"}
    BY <2>6
  <2> QED BY <2>1, <2>3, <2>5, <2>6, <2>7, <2>8, <2>9, <2>10, <2>11, <2>12, Move, Zenon DEF Quiet
<1> QED BY <1>1, <1>2, Zenon

LEMMA ValidationsKeep ==
  ASSUME SchedulerInv, NEW th \in Threads, StartValidation(th) \/ Validate(th) \/ MarkEstimate(th)
  PROVE  SchedulerInv'
<1>1. Quiet
  BY QuietIs, Zenon DEF StartValidation, Validate, MarkEstimate
<1>2. CASE StartValidation(th)
  <2>1. PICK p \in Checking : Goto(th, p, Idle)
    BY <1>2 DEF StartValidation, Checking
  <2>2. pc[th] = "run" /\ Kind(th) = "Validate"
    BY <1>2, Zenon DEF StartValidation, Kind
  <2> QED BY <1>1, <2>1, <2>2, ValidationGoesOn, Zenon
<1>3. CASE Validate(th)
  <2>1. PICK p \in Checking : Goto(th, p, Idle)
    BY <1>3 DEF Validate, Checking
  <2>2. pc[th] \in Checking
    BY <1>3 DEF Validate, Checking
  <2> QED BY <1>1, <2>1, <2>2, ValidationGoesOn, Zenon
<1>4. CASE MarkEstimate(th)
  <2>1. PICK p \in Marking : Goto(th, p, Idle)
    BY <1>4 DEF MarkEstimate, Marking
  <2>2. pc[th] \in Marking
    BY <1>4 DEF MarkEstimate, Marking
  <2> QED BY <1>1, <2>1, <2>2, ValidationGoesOn, Zenon
<1> QED BY <1>2, <1>3, <1>4, Zenon

LEMMA FinishKeeps ==
  ASSUME SchedulerInv, NEW th \in Threads, Finish(th)
  PROVE  SchedulerInv'
<1>1. Quiet /\ pc[th] = "run" /\ Kind(th) = "Done" /\ Goto(th, "finished", Idle)
  BY QuietIs, Zenon DEF Finish, Kind
<1>2. Moves(th) /\ pc'[th] = "finished" /\ loc'[th] = Idle /\ task'[th] = task[th]
  BY <1>1, GotoIs, Zenon DEF SchedulerInv
<1>3. IsLocal(loc[th])' /\ loc'[th].todo \subseteq loc[th].todo
  BY <1>1, <1>2, IdleIs, Zenon DEF SchedulerInv, IsLocal, Quiet, Txns
<1>4. IsTask(task[th])'
  BY <1>1, <1>2, Zenon DEF SchedulerInv, LocalType, IsTask, Quiet, Txns
<1>5. PcFits(pc[th], Kind(th))' /\ ~Exe(th)' /\ ~Fin(th)' /\ ~Abt(th)'
  BY <1>1, <1>2, Fits, Classes, Zenon DEF Kind, Exe, Fin, Abt
<1>6. CallInv(th)' /\ "finished" \in Pcs
  BY <1>2 DEF CallInv, Pcs
<1>7. pc[th] # "wait"
  BY <1>1
<1> QED BY <1>1, <1>2, <1>3, <1>4, <1>5, <1>6, <1>7, Move, Zenon DEF Quiet

LEMMA SendLastKeeps ==
  ASSUME SchedulerInv, NEW th \in Threads, SendLast(th) \/ EndHook(th)
  PROVE  SchedulerInv'
<1>1. Quiet
  BY QuietIs, Zenon DEF SendLast, EndHook
<1>2. pc[th] \in {"send", "hook"} /\ Goto(th, "run", Idle)
  BY Zenon DEF SendLast, EndHook
<1>3. pc[th] \in Waiting /\ pc[th] # "panic" /\ pc[th] # "run"
  BY <1>2 DEF Waiting
<1> QED BY <1>1, <1>2, <1>3, ToRun, Zenon

\* Where the coordinator goes on after a commit.
CommitEnds(th, t) ==
  \/ Goto(th, "panic", Idle)
  \/ t + 1 # num_txns /\ Goto(th, "halt", [Idle EXCEPT !.next = "send"])
  \/ /\ pc' = [pc EXCEPT ![th] = IF t + 1 = num_txns THEN "run" ELSE "commit"]
     /\ task' = [task EXCEPT ![th] = IF t + 1 = num_txns THEN Done ELSE @]
     /\ UNCHANGED loc

LEMMA CommitEndsIs ==
  ASSUME LocalType, SharedType, NEW th \in Threads, NEW t, CommitEnds(th, t)
  PROVE  /\ Moves(th) /\ pc'[th] \in {"panic", "halt", "run", "commit"}
         /\ task'[th] = task[th] \/ task'[th] = Done
         /\ loc'[th] \in {Idle, [Idle EXCEPT !.next = "send"], loc[th]}
         /\ pc'[th] = "halt" => loc'[th].next = "send"
         /\ t + 1 = num_txns => pc'[th] = "panic" \/ (pc'[th] = "run" /\ task'[th] = Done)
<1>1. CASE Goto(th, "panic", Idle)
  BY <1>1, GotoIs
<1>2. CASE /\ t + 1 # num_txns /\ Goto(th, "halt", [Idle EXCEPT !.next = "send"])
  <2>1. [Idle EXCEPT !.next = "send"].next = "send"
    BY DEF Idle
  <2> DEFINE l == [Idle EXCEPT !.next = "send"]
  <2>2. Moves(th) /\ pc'[th] = "halt" /\ loc'[th] = l /\ task'[th] = task[th]
    BY <1>2, GotoIs, Zenon
  <2> HIDE DEF l
  <2>3. loc'[th].next = "send"
    BY <2>1, <2>2, Zenon DEF l
  <2>4. loc'[th] \in {Idle, [Idle EXCEPT !.next = "send"], loc[th]}
    BY <2>2, Zenon DEF l
  <2> QED BY <1>2, <2>2, <2>3, <2>4
<1>3. CASE /\ pc' = [pc EXCEPT ![th] = IF t + 1 = num_txns THEN "run" ELSE "commit"]
           /\ task' = [task EXCEPT ![th] = IF t + 1 = num_txns THEN Done ELSE @]
           /\ UNCHANGED loc
  <2>1. Moves(th) /\ loc'[th] = loc[th]
    BY <1>3 DEF LocalType, Moves, Same
  <2>2. /\ pc'[th] = IF t + 1 = num_txns THEN "run" ELSE "commit"
        /\ task'[th] = IF t + 1 = num_txns THEN Done ELSE task[th]
    BY <1>3 DEF LocalType
  <2> QED BY <1>3, <2>1, <2>2
<1> QED BY <1>1, <1>2, <1>3, Zenon DEF CommitEnds

LEMMA CommitKeeps ==
  ASSUME SchedulerInv, NEW th \in Threads, Commit(th)
  PROVE  SchedulerInv'
<1> DEFINE t == commit_state.idx
           new == [txn_status[t] EXCEPT !.st = "Committed"]
<1>1. pc[th] = "commit" /\ TryCommit(t) /\ CommitEnds(th, t)
  BY Zenon DEF Commit, CommitEnds
<1>2. th = Coordinator
  BY <1>1, Zenon DEF SchedulerInv, ThreadInv, CallInv
<1>3. t \in Txns
  <2>1. t # num_txns
    BY <1>1, <1>2 DEF SchedulerInv, CoordinatorInv
  <2> QED BY <2>1 DEF SchedulerInv, SharedType, IsIndex, Txns
<1>4. /\ Commitable(t) /\ txn_status' = [txn_status EXCEPT ![t] = new]
      /\ commit_state' = [idx |-> t + 1, wave |-> CommitWave(t)]
      /\ UNCHANGED <<num_txns, vlock, txn_dependency, execution_idx, validation_idx, condvar>>
  BY <1>1, Zenon DEF TryCommit, CanCommit
<1>5. commit_state'.idx = t + 1 /\ IsIndex(commit_state') /\ t + 1 <= num_txns /\ t + 1 > 0
  BY <1>3, <1>4 DEF IsIndex, Txns, SchedulerInv, SharedType
<1>6. txn_status[t] \in Statuses
  BY <1>3 DEF SchedulerInv, SharedType
<1>7. new \in Statuses /\ new.st = "Committed" /\ new.cv = txn_status[t].cv
  BY <1>6, CommittedIs, Zenon
<1> HIDE DEF new
<1>8. /\ txn_status'[t] = new /\ txn_status' \in [Txns' -> Statuses]
      /\ \A u \in Txns \ {t} : txn_status'[u] = txn_status[u]
  BY <1>3, <1>4, <1>7, SetStatus, Zenon DEF SchedulerInv
<1>9. /\ Moves(th) /\ pc'[th] \in {"panic", "halt", "run", "commit"}
      /\ task'[th] = task[th] \/ task'[th] = Done
      /\ loc'[th] \in {Idle, [Idle EXCEPT !.next = "send"], loc[th]}
      /\ pc'[th] = "halt" => loc'[th].next = "send"
      /\ t + 1 = num_txns => pc'[th] = "panic" \/ (pc'[th] = "run" /\ task'[th] = Done)
  BY <1>1, CommitEndsIs, Zenon DEF SchedulerInv
<1>10. SharedType'
  BY <1>4, <1>5, <1>8, Zenon DEF SchedulerInv, SharedType, Txns
<1>11. IsLocal(loc[th])' /\ loc'[th].todo \subseteq loc[th].todo
  <2>1. IsLocal(Idle) /\ Idle.todo = {} /\ IsLocal(loc[th])
    BY IdleIs, KindAt, Zenon DEF SchedulerInv
  <2>2. IsLocal([Idle EXCEPT !.next = "send"]) /\ [Idle EXCEPT !.next = "send"].todo = {}
    BY <2>1, IdleWith, Zenon DEF SchedulerInv
  <2>3. IsLocal(loc'[th])
    BY <1>9, <2>1, <2>2, Zenon
  <2>4. loc'[th].todo \subseteq loc[th].todo
    BY <1>9, <2>1, <2>2, Zenon
  <2> QED BY <1>4, <2>3, <2>4, Zenon DEF IsLocal, Txns
<1>12. CallInv(th)'
  BY <1>2, <1>5, <1>9 DEF CallInv
<1>13. CoordinatorInv'
  <2>1. Done.kind = "Done"
    BY NoTaskIs, Zenon DEF SchedulerInv
  <2>2. commit_state'.idx = num_txns' =>
          \/ pc'[Coordinator] = "panic"
          \/ pc'[Coordinator] \in {"run", "finished"} /\ task'[Coordinator].kind = "Done"
    BY <1>2, <1>4, <1>5, <1>9, <2>1, Zenon
  <2> QED BY <2>2, Zenon DEF CoordinatorInv, Kind
<1> QED BY <1>1, <1>3, <1>4, <1>5, <1>7, <1>8, <1>9, <1>10, <1>11, <1>12, <1>13, CommitsKeeps, Zenon

LEMMA SchedulerInitIs ==
  ASSUME Init
  PROVE  SchedulerInv
<1>1. Size(block) \in Nat \ {0} /\ num_txns = Size(block) /\ Txns = 0..Size(block) - 1
  BY StmAssumption, Zenon DEF Init, SchedulerInit, Txns
<1>2. /\ txn_status = [t \in Txns |-> Status("Ready", 0)] /\ vlock = [t \in Txns |-> NoThread]
      /\ txn_dependency = [t \in Txns |-> {}] /\ execution_idx = 0 /\ validation_idx = NoIndex
      /\ commit_state = NoIndex /\ condvar = [th \in Threads |-> "Resolved"]
      /\ DOMAIN pc = Threads /\ DOMAIN task = Threads /\ loc = [th \in Threads |-> Idle]
      /\ \A th \in Threads : \/ pc[th] = Top(th) /\ task[th] = NoTask
                             \/ pc[th] = "finished" /\ task[th] = Done
  BY <1>1, Zenon DEF Init, SchedulerInit
<1>4. "Ready" \in States
  BY DEF States
<1>5. Status("Ready", 0) \in Statuses
  BY <1>4, IsStatus
<1>6. SharedType
  BY <1>1, <1>2, <1>5 DEF SharedType, IsIndex, NoIndex
<1>7. /\ IsTask(NoTask) /\ NoTask.kind = "NoTask" /\ IsTask(Done) /\ Done.kind = "Done"
      /\ IsLocal(Idle) /\ Idle.todo = {}
  BY <1>6, NoTaskIs, IdleIs, Zenon
<1>8. ASSUME NEW th \in Threads
      PROVE  /\ loc[th] = Idle /\ IsTask(task[th]) /\ pc[th] \in {"commit", "run", "finished"}
             /\ pc[th] = "commit" => th = Coordinator
             /\ Kind(th) = IF pc[th] = "finished" THEN "Done" ELSE "NoTask"
  <2>1. Top(th) \in {"commit", "run"} /\ (Top(th) = "commit" => th = Coordinator) /\ loc[th] = Idle
    BY <1>2, TopIs
  <2>2. CASE pc[th] = Top(th) /\ task[th] = NoTask
    BY <1>7, <2>1, <2>2, SMTT(30) DEF Kind
  <2>3. CASE pc[th] = "finished" /\ task[th] = Done
    BY <1>7, <2>1, <2>3, SMTT(30) DEF Kind
  <2> QED BY <1>2, <2>2, <2>3, Zenon
<1>9. LocalType
  <2>1. \A th \in Threads : pc[th] \in Pcs
    BY <1>8, SMTT(30) DEF Pcs, Waiting
  <2> QED BY <1>2, <1>7, <1>8, <2>1, Zenon DEF LocalType
<1>10. "NoTask" \in Kinds /\ {"commit", "run"} \subseteq Waiting
  BY DEF Kinds, Waiting
<1>11. ASSUME NEW th \in Threads
       PROVE  Kind(th) \notin {"Execute", "Wakeup"} /\ ~Exe(th) /\ ~Fin(th) /\ ~Abt(th)
  <2>1. Kind(th) \notin {"Execute", "Wakeup"}
    BY <1>8, SMTT(30)
  <2>2. pc[th] \notin Finishing /\ pc[th] \notin Marking
    BY <1>8, SMTT(30) DEF Finishing, Marking
  <2> QED BY <2>1, <2>2, Zenon DEF Exe, Fin, Abt
<1>12. \A th \in Threads : ThreadInv(th)
  <2> SUFFICES ASSUME NEW th \in Threads PROVE ThreadInv(th)
    OBVIOUS
  <2>1. PcFits(pc[th], Kind(th))
    <3>1. CASE pc[th] = "finished"
      BY <1>8, <3>1, Fits, Zenon
    <3>2. CASE pc[th] # "finished"
      BY <1>8, <1>10, <3>2, Fits, Zenon
    <3> QED BY <3>1, <3>2
  <2>2. OwnInv(th) /\ WakeInv(th)
    BY <1>11, Zenon DEF OwnInv, WakeInv
  <2>3. CallInv(th)
    BY <1>8, SMTT(30) DEF CallInv
  <2> QED BY <2>1, <2>2, <2>3, Zenon DEF ThreadInv
<1>13. \A t \in Txns : CvInv(t) /\ CommitInv(t)
  <2> SUFFICES ASSUME NEW t \in Txns PROVE CvInv(t) /\ CommitInv(t)
    OBVIOUS
  <2>1. txn_status[t] = Status("Ready", 0)
    BY <1>2, Zenon
  <2>2. Status("Ready", 0).cv = NoThread /\ Status("Ready", 0).st = "Ready"
    BY StatusIs, Zenon
  <2>3. CvInv(t)
    BY <2>1, <2>2 DEF CvInv
  <2>4. ~(t < commit_state.idx)
    BY <1>1, <1>2 DEF NoIndex, Txns
  <2> QED BY <2>3, <2>4, Zenon DEF CommitInv
<1>14. \A th \in Threads : \A d \in Threads \ {th} : Alone(th, d)
  BY <1>11, Zenon DEF Alone
<1>15. WaitInv
  <2>1. \A t \in Txns : txn_dependency[t] = {}
    BY <1>2, Zenon
  <2>2. \A th \in Threads : loc[th].todo = {}
    BY <1>7, <1>8, Zenon
  <2> QED BY <2>1, <2>2, Zenon DEF WaitInv
<1>16. CoordinatorInv
  BY <1>1, <1>2 DEF CoordinatorInv, NoIndex
<1> QED BY <1>6, <1>9, <1>12, <1>13, <1>14, <1>15, <1>16, Zenon DEF SchedulerInv

LEMMA ExecutorStepKeeps ==
  ASSUME Extrema, SchedulerInv, HooksInv, NEW th \in Threads, ExecutorStep(th)
  PROVE  SchedulerInv'
<1>1. CASE Materialize(th) \/ Apply(th)
  <2>1. UNCHANGED scheduler
    BY <1>1, Zenon DEF Materialize, Apply
  <2> QED BY <2>1, SchedulerKept, Zenon
<1> QED BY <1>1, CommitKeeps, SendLastKeeps, StartHookKeeps, FinishKeeps,
           StartExecutionKeeps, ReadKeeps, VmHaltedKeeps, RecordsKeep, LookKeeps, ValidationsKeep,
           Zenon DEF ExecutorStep

LEMMA SchedulerNext ==
  ASSUME Extrema, SchedulerInv, HooksInv, [Next]_vars
  PROVE  SchedulerInv'
<1>1. CASE UNCHANGED vars
  <2>1. UNCHANGED scheduler
    BY <1>1, Zenon DEF vars
  <2> QED BY <2>1, SchedulerKept, Zenon
<1>2. ASSUME NEW th \in Threads, Step(th) PROVE SchedulerInv'
  <2>1. CASE ExecutorStep(th)
    BY <2>1, ExecutorStepKeeps, Zenon
  <2>2. CASE SchedulerCall(th)
    BY <2>2, SchedulerStepKeeps, NextTaskKeeps, WakeupKeeps, Zenon DEF SchedulerCall
  <2> QED BY <1>2, <2>1, <2>2, Zenon DEF Step
<1> QED BY <1>1, <1>2, Zenon DEF Next

-----------------------------------------------------------------------------
(* The theorem *)

\* AssertionsHold is an invariant of the executor, provided that what the VM returns never
\* writes a key and adds a delta to it, as a VMChangeSet never does: the assertions and
\* unreachable!s of Scheduler (suspend, resume, set_executed_status, set_aborted_status),
\* of VersionedData (write, delete, mark_estimate) and of the commit hooks never fail, as
\* far as neither deletions under deltas nor aggregator limits come in.  The unreachable!
\* of update_to_skip_rest is not among them: SkipRestIsOfSuccess is about it.
THEOREM AssertionsNeverFail == VmOutputs /\ Spec => []AssertionsHold
<1> DEFINE Inv == SchedulerInv /\ MemoryInv
<1>1. VmOutputs /\ Init => Inv
  BY SchedulerInitIs, MemoryInitIs, Zenon
<1>2. Inv /\ [Next]_vars => Inv'
  <2> SUFFICES ASSUME SchedulerInv, MemoryInv, [Next]_vars PROVE SchedulerInv' /\ MemoryInv'
    OBVIOUS
  <2>1. HooksInv
    BY Zenon DEF MemoryInv
  <2>2. SchedulerInv'
    BY <2>1, ExtremaExist, SchedulerNext, Zenon
  <2> QED BY <2>2, MemoryNext, Zenon
<1>3. Inv => AssertionsHold
  BY ExtremaExist, AssertionsFollow, Zenon
<1> QED BY <1>1, <1>2, <1>3, PTL DEF Spec
=============================================================================
