-------------------------- MODULE SchedulerProofs --------------------------
EXTENDS SchedulerInvariant, TLAPS

(* Each action of the scheduler keeps the inductive invariant SchedulerInv of   *)
(* SchedulerInvariant.  The lemmas go from the way a thread moves, over the     *)
(* ways a step may change the shared state of the scheduler (an index, a lock,  *)
(* the status of one transaction, a condition variable), to one lemma per       *)
(* action of Scheduler, each named after the action it is about.               *)

-----------------------------------------------------------------------------
(* How a thread moves *)

LEMMA StatusIs ==
  /\ \A s, i : Status(s, i).st = s /\ Status(s, i).inc = i /\ Status(s, i).cv = NoThread
  /\ Halted.st = "ExecutionHalted" /\ Halted.inc = 0 /\ Halted.cv = NoThread
BY DEF Status, Halted

LEMMA GotoIs ==
  ASSUME LocalType, NEW th \in Threads, NEW p, NEW l, Goto(th, p, l)
  PROVE  Moves(th) /\ pc'[th] = p /\ loc'[th] = l /\ task'[th] = task[th]
BY DEF LocalType, Goto, Moves, Same

LEMMA ReturnIs ==
  ASSUME LocalType, NEW th \in Threads, NEW tk, Return(th, tk)
  PROVE  Moves(th) /\ pc'[th] = Top(th) /\ loc'[th] = Idle /\ task'[th] = tk
BY DEF LocalType, Return, Moves, Same

LEMMA IdleIs ==
  ASSUME SharedType
  PROVE  IsLocal(Idle) /\ Idle.todo = {}
BY DEF SharedType, IsLocal, IsIndex, Idle, NoIndex, Txns

LEMMA TopIs ==
  ASSUME NEW th
  PROVE  Top(th) \in {"commit", "run"} /\ (Top(th) = "commit" => th = Coordinator)
BY DEF Top

\* A thread that may still act, which the coordinator may not at the end of the block.
Active(th) ==
  th = Coordinator => pc[th] \notin {"panic", "finished"} /\ ~(pc[th] = "run" /\ Kind(th) = "Done")

LEMMA LocalsKept ==
  ASSUME LocalType, NEW th \in Threads, Moves(th), num_txns' = num_txns,
         pc'[th] \in Pcs, IsTask(task[th])', IsLocal(loc[th])'
  PROVE  LocalType'
BY DEF LocalType, Moves, Same, IsTask, IsLocal, IsIndex, Txns

LEMMA OwnKept ==
  ASSUME NEW d, OwnInv(d), Same(d), txn_status'[Txn(d)] = txn_status[Txn(d)],
         Fin(d) => vlock'[Txn(d)] = vlock[Txn(d)], condvar'[d] = condvar[d]
  PROVE  OwnInv(d)'
BY DEF OwnInv, Exe, Fin, Abt, Kind, Txn, Inc, Same

\* Who waits on a condition variable executes the transaction.
LEMMA CvWaits ==
  ASSUME SchedulerInv, NEW t \in Txns, txn_status[t].cv # NoThread
  PROVE  LET c == txn_status[t].cv
         IN  /\ c \in Threads /\ pc[c] = "wait" /\ Txn(c) = t /\ Exe(c)
             /\ condvar[c] = "Unresolved" /\ Inc(c) = txn_status[t].inc
<1> DEFINE c == txn_status[t].cv
<1>1. c \in Threads
  BY DEF SchedulerInv, SharedType, Statuses
<1>2. pc[c] = "wait" /\ Txn(c) = t
  BY Zenon DEF SchedulerInv, CvInv
<1>3. PcFits(pc[c], Kind(c)) /\ OwnInv(c)
  BY <1>1, Zenon DEF SchedulerInv, ThreadInv
<1>4. Exe(c)
  BY <1>2, <1>3, Zenon DEF PcFits, Running, Exe, Finishing
<1>5. txn_status[t] \notin {Status("Executing", Inc(c)), Halted}
  <2>1. Status("Executing", Inc(c)).cv = NoThread /\ Halted.cv = NoThread
    BY StatusIs, Zenon
  <2> QED BY <2>1, Zenon
<1> QED BY <1>1, <1>2, <1>3, <1>4, <1>5, Zenon DEF OwnInv

\* A step that changes no status: where the thread goes on it owns what it has owned.
LEMMA Move ==
  ASSUME SchedulerInv, NEW th \in Threads, Moves(th),
         num_txns' = num_txns, txn_status' = txn_status,
         \A d \in Threads : Fin(d)' => vlock'[Txn(d)] = vlock[Txn(d)],
         txn_dependency' = txn_dependency, condvar' = condvar,
         commit_state'.idx = commit_state.idx, SharedType',
         \/ Active(th)
         \/ pc[th] = "run" /\ pc'[th] = "finished" /\ task'[th] = task[th],
         ~(pc[th] = "wait" /\ condvar[th] = "Unresolved"),
         pc'[th] \in Pcs, IsTask(task[th])', IsLocal(loc[th])',
         loc'[th].todo \subseteq loc[th].todo,
         task'[th] = task[th] \/ Kind(th)' \notin {"Execute", "Wakeup"},
         Exe(th)' => Exe(th), Fin(th)' => Fin(th),
         Abt(th)' => Abt(th) /\ task'[th] = task[th],
         PcFits(pc[th], Kind(th))', CallInv(th)'
  PROVE  SchedulerInv'
<1>1. LocalType'
  BY LocalsKept, Zenon DEF SchedulerInv
<1>2. OwnInv(th)'
  <2>1. OwnInv(th)
    BY Zenon DEF SchedulerInv, ThreadInv
  <2>2. Exe(th)' \/ Fin(th)' \/ Abt(th)' => task'[th] = task[th]
    BY Zenon DEF Exe, Fin, Kind
  <2> QED BY <2>1, <2>2, Zenon DEF OwnInv, Txn, Inc
<1>3. ASSUME NEW c \in Threads, pc[c] = "wait", condvar[c] = "Unresolved"
      PROVE  Same(c)
  BY <1>3, Zenon DEF Moves
<1>4. \A d \in Threads : ThreadInv(d)'
  <2> SUFFICES ASSUME NEW d \in Threads PROVE ThreadInv(d)'
    OBVIOUS
  <2>1. ThreadInv(d)
    BY Zenon DEF SchedulerInv
  <2>2. WakeInv(d)'
    <3>1. Kind(d)' = "Wakeup" => task'[d] = task[d]
      BY Zenon DEF Moves, Same, Kind
    <3>2. SUFFICES ASSUME Kind(d) = "Wakeup", task'[d] = task[d] PROVE WakeInv(d)'
      BY <3>1, Zenon DEF WakeInv, Kind
    <3>3. Same(task[d].cv)
      BY <2>1, <3>2, <1>3, Zenon DEF ThreadInv, WakeInv
    <3> QED BY <2>1, <3>2, <3>3, Zenon DEF ThreadInv, WakeInv, Same, Kind, Txn
  <2>3. CASE d = th
    BY <1>2, <2>2, <2>3, Zenon DEF ThreadInv
  <2>4. CASE d # th
    <3>1. Same(d)
      BY <2>4, Zenon DEF Moves
    <3>2. OwnInv(d)'
      <4>1. Fin(d) => Fin(d)'
        BY <3>1, Zenon DEF Fin, Same, Kind
      <4> QED BY <2>1, <3>1, <4>1, OwnKept, Zenon DEF ThreadInv
    <3>3. PcFits(pc[d], Kind(d))' /\ CallInv(d)'
      BY <2>1, <3>1, Zenon DEF ThreadInv, CallInv, Same, Kind, Txns, Top
    <3> QED BY <2>2, <3>2, <3>3, Zenon DEF ThreadInv
  <2> QED BY <2>3, <2>4, Zenon
<1>5. \A t \in Txns' : CvInv(t)' /\ CommitInv(t)'
  <2> SUFFICES ASSUME NEW t \in Txns PROVE CvInv(t)' /\ CommitInv(t)'
    BY Zenon DEF Txns
  <2>1. CvInv(t) /\ CommitInv(t)
    BY Zenon DEF SchedulerInv
  <2>2. ASSUME txn_status[t].cv # NoThread PROVE Same(txn_status[t].cv)
    BY <2>2, <1>3, CvWaits, Zenon
  <2>3. CvInv(t)'
    BY <2>1, <2>2, Zenon DEF CvInv, Same, Txn
  <2>4. ASSUME NEW d \in Threads, Kind(d)' = "Execute" \/ Abt(d)'
        PROVE  (Kind(d) = "Execute" \/ Abt(d)) /\ task'[d] = task[d]
    BY <2>4, Zenon DEF Moves, Same, Kind, Abt
  <2>5. CommitInv(t)'
    BY <2>1, <2>4, Zenon DEF CommitInv, Txn
  <2> QED BY <2>3, <2>5, Zenon
<1>6. \A d \in Threads : \A e \in Threads \ {d} : Alone(d, e)'
  <2> SUFFICES ASSUME NEW d \in Threads, NEW e \in Threads \ {d} PROVE Alone(d, e)'
    OBVIOUS
  <2>1. Alone(d, e)
    BY Zenon DEF SchedulerInv
  <2>2. ASSUME NEW c \in Threads
        PROVE  /\ Kind(c)' \in {"Execute", "Wakeup"} \/ Abt(c)' => task'[c] = task[c]
               /\ Abt(c)' => Abt(c)
               /\ Exe(c)' => Exe(c)
    BY Zenon DEF Moves, Same, Abt, Exe, Kind
  <2> QED BY <2>1, <2>2, Zenon DEF Alone, Kind, Txn, Exe
<1>7. WaitInv'
  <2>1. \A d \in Threads : loc'[d].todo \subseteq loc[d].todo
    BY Zenon DEF Moves, Same
  <2> QED BY <2>1, Zenon DEF SchedulerInv, WaitInv, Dependent, Txns
<1>8. CoordinatorInv'
  BY SchedulerAssumption, Zenon DEF SchedulerInv, CoordinatorInv, Moves, Same, Active, Kind
<1> QED BY <1>1, <1>4, <1>5, <1>6, <1>7, <1>8, Zenon DEF SchedulerInv

\* A step that leaves what the threads share as it is.
Quiet ==
  /\ num_txns' = num_txns /\ txn_status' = txn_status /\ vlock' = vlock
  /\ txn_dependency' = txn_dependency /\ condvar' = condvar
  /\ commit_state'.idx = commit_state.idx /\ SharedType'

LEMMA QuietIs ==
  ASSUME SchedulerInv, UNCHANGED <<indices, statuses, condvar>>
  PROVE  Quiet
BY Zenon DEF SchedulerInv, SharedType, CoordinatorInv, Quiet, indices, statuses, Txns, IsIndex

\* The pcs that CallInv says nothing of.
Plain(p) == p \notin {"claim", "claimed", "commit", "send", "panic", "halt", "resolve", "hook"}

\* A thread goes on with its task.
LEMMA GotoStep ==
  ASSUME SchedulerInv, Quiet, NEW th \in Threads, NEW p \in Pcs, NEW l, Goto(th, p, l),
         IsLocal(l), l.todo \subseteq loc[th].todo, Active(th),
         pc[th] # "wait" \/ condvar[th] # "Unresolved",
         PcFits(p, Kind(th)), Kind(th) = "Execute" => (p \in Finishing <=> pc[th] \in Finishing),
         p \in Marking => pc[th] \in Marking,
         Plain(p) \/ CallInv(th)'
  PROVE  SchedulerInv'
<1>1. Moves(th) /\ pc'[th] = p /\ loc'[th] = l /\ task'[th] = task[th]
  BY GotoIs, Zenon DEF SchedulerInv
<1>2. IsTask(task[th])' /\ IsLocal(loc[th])'
  BY <1>1, Zenon DEF SchedulerInv, LocalType, IsTask, IsLocal, Quiet, Txns
<1>3. CallInv(th)'
  BY <1>1, Zenon DEF Plain, CallInv
<1>4. /\ Exe(th)' => Exe(th)
      /\ Fin(th)' => Fin(th)
      /\ Abt(th)' => Abt(th)
  BY <1>1, Zenon DEF Exe, Fin, Abt, Kind
<1>5. PcFits(pc[th], Kind(th))'
  BY <1>1, Zenon DEF Kind
<1>6. loc'[th].todo \subseteq loc[th].todo
  BY <1>1, Zenon
<1> QED BY <1>1, <1>2, <1>3, <1>4, <1>5, <1>6, Move, Zenon DEF Quiet

\* A call returns no task, a task to validate, or that all is done.
LEMMA ReturnStep ==
  ASSUME SchedulerInv, Quiet, NEW th \in Threads, NEW tk, Return(th, tk), IsTask(tk),
         tk.kind \notin {"Execute", "Wakeup"}, Active(th), pc[th] # "wait"
  PROVE  SchedulerInv'
<1>1. Moves(th) /\ pc'[th] = Top(th) /\ loc'[th] = Idle /\ task'[th] = tk
  BY ReturnIs, Zenon DEF SchedulerInv
<1>2. IsTask(task[th])' /\ IsLocal(loc[th])' /\ loc'[th].todo \subseteq loc[th].todo
  BY <1>1, IdleIs, Zenon DEF SchedulerInv, IsTask, IsLocal, Quiet, Txns
<1>3. Top(th) \in Pcs /\ PcFits(Top(th), tk.kind) /\ Top(th) \notin Finishing \cup Marking
  BY TopIs DEF Pcs, PcFits, Waiting, Looking, Running, Applying, Checking, Marking, Finishing
<1>4. CallInv(th)'
  BY <1>1, TopIs DEF CallInv
<1>5. PcFits(pc[th], Kind(th))' /\ ~Exe(th)' /\ ~Fin(th)' /\ ~Abt(th)'
  BY <1>1, <1>3, Zenon DEF Kind, Exe, Fin, Abt
<1>6. Kind(th)' \notin {"Execute", "Wakeup"}
  BY <1>1, Zenon DEF Kind
<1> QED BY <1>1, <1>2, <1>3, <1>4, <1>5, <1>6, Move, Zenon DEF Quiet

LEMMA Classes ==
  /\ Waiting \cup Looking \cup Running \cup Applying \cup Finishing \cup Checking \cup Marking
       \cup {"executed", "reexecute", "finished"} = Pcs
  /\ \A p \in Waiting \cup Looking \cup Running \cup Applying \cup Checking
              \cup {"executed", "reexecute", "finished"} : p \notin Finishing \cup Marking
  /\ \A p \in Finishing : p \notin Marking
  /\ \A p \in Running \cup Applying \cup Checking \cup Finishing \cup Marking
              \cup {"executed", "reexecute"} : Plain(p) /\ p \notin Waiting
  /\ Plain("run") /\ Plain("next_task") /\ Plain("choose")
  /\ Plain("fetch_add") /\ Plain("incarnate") /\ Plain("finished")
BY DEF Pcs, Waiting, Looking, Running, Applying, Finishing, Checking, Marking, Plain

LEMMA Fits ==
  /\ \A p \in Waiting, k \in Kinds : PcFits(p, k)
  /\ \A p \in Looking : PcFits(p, "NoTask")
  /\ \A p \in Running \cup Applying \cup Finishing \cup {"executed"} : PcFits(p, "Execute")
  /\ \A p \in Checking \cup Marking \cup {"decrease", "update", "reexecute"} : PcFits(p, "Validate")
  /\ PcFits("finished", "Done")
BY DEF PcFits, Waiting, Looking, Running, Applying, Finishing, Checking, Marking

\* The task of a thread by where it is.
LEMMA KindAt ==
  ASSUME SchedulerInv, NEW th \in Threads
  PROVE  /\ Kind(th) \in Kinds /\ Txn(th) \in Txns /\ Inc(th) \in Nat /\ IsLocal(loc[th])
         /\ pc[th] \in Looking => Kind(th) = "NoTask"
         /\ pc[th] \in Running \cup Applying \cup {"executed", "resume", "require"}
              => Kind(th) = "Execute"
         /\ pc[th] \in Checking \cup Marking \cup {"reexecute"} => Kind(th) = "Validate"
         /\ pc[th] \in {"decrease", "update"} => Kind(th) \in {"Execute", "Validate"}
BY Zenon DEF SchedulerInv, LocalType, IsTask, ThreadInv, PcFits, Kind, Txn, Inc

\* An execution goes on.
LEMMA ExecutionGoesOn ==
  ASSUME SchedulerInv, Quiet, NEW th \in Threads,
         NEW p \in Running \cup Applying \cup {"executed"}, NEW l, Goto(th, p, l), IsLocal(l),
         l.todo \subseteq loc[th].todo,
         \/ pc[th] \in Running \cup Applying /\ (pc[th] # "wait" \/ condvar[th] # "Unresolved")
         \/ pc[th] = "run" /\ Kind(th) = "Execute"
  PROVE  SchedulerInv'
<1>1. p \in Pcs /\ p \notin Finishing \cup Marking /\ Plain(p)
  BY Classes, Zenon
<1>2. pc[th] \notin Finishing \cup Marking
  BY Classes, Zenon DEF Waiting
<1>3. Kind(th) = "Execute"
  BY KindAt, Zenon
<1>4. Active(th)
  BY <1>3, Zenon DEF Active, Running, Applying
<1>5. PcFits(p, Kind(th))
  BY <1>3, Fits, Zenon
<1>6. pc[th] # "wait" \/ condvar[th] # "Unresolved"
  BY Zenon
<1> QED BY <1>1, <1>2, <1>4, <1>5, <1>6, GotoStep, Zenon

LEMMA IdleWith ==
  ASSUME SharedType, NEW v
  PROVE  /\ IsLocal([Idle EXCEPT !.outside = v]) /\ [Idle EXCEPT !.outside = v].todo = {}
         /\ IsLocal([Idle EXCEPT !.next = v]) /\ [Idle EXCEPT !.next = v].todo = {}
         /\ v \in Txns => IsLocal([Idle EXCEPT !.idx = v]) /\ [Idle EXCEPT !.idx = v].todo = {}
         /\ IsIndex(v) => IsLocal([Idle EXCEPT !.seen = v]) /\ [Idle EXCEPT !.seen = v].todo = {}
BY DEF SharedType, IsLocal, IsIndex, Idle, NoIndex, Txns

LEMMA NoTaskIs ==
  ASSUME SharedType
  PROVE  IsTask(NoTask) /\ NoTask.kind = "NoTask" /\ IsTask(Done) /\ Done.kind = "Done"
BY DEF SharedType, IsTask, NoTask, Done, Kinds, Txns

\* A validation goes on, or the marking of what it has aborted.
LEMMA ValidationGoesOn ==
  ASSUME SchedulerInv, Quiet, NEW th \in Threads, NEW p, Goto(th, p, Idle),
         \/ p \in Checking /\ pc[th] = "run" /\ Kind(th) = "Validate"
         \/ p \in Checking /\ pc[th] \in Checking
         \/ p \in Marking /\ pc[th] \in Marking
  PROVE  SchedulerInv'
<1>1. p \in Pcs /\ Plain(p)
  BY Classes, Zenon
<1>2. Kind(th) = "Validate"
  BY KindAt, Zenon
<1>3. PcFits(p, Kind(th))
  BY <1>2, Fits, Zenon
<1>4. IsLocal(Idle) /\ Idle.todo \subseteq loc[th].todo
  BY IdleIs, Zenon DEF SchedulerInv
<1>5. Active(th) /\ pc[th] # "wait" /\ Kind(th) # "Execute"
  BY <1>2 DEF Active, Checking, Marking
<1>6. p \in Marking => pc[th] \in Marking
  BY DEF Checking, Marking
<1> QED BY <1>1, <1>3, <1>4, <1>5, <1>6, GotoStep, Zenon

\* Where halt returns to.
LEMMA HaltReturns ==
  ASSUME SchedulerInv, NEW th \in Threads, pc[th] \in {"halt", "resolve"},
         commit_state'.idx = commit_state.idx, pc'[th] = loc[th].next
  PROVE  CallInv(th)' /\ loc[th].next \in {"send", "commit", "run"}
<1>1. CallInv(th)
  BY Zenon DEF SchedulerInv, ThreadInv
<1>2. loc[th].next \in {"send", "commit", "run"} /\ (loc[th].next = "commit" => th = Coordinator)
  BY <1>1, TopIs DEF CallInv
<1> QED BY <1>1, <1>2 DEF CallInv

\* A thread goes on looking for a task.
LEMMA LooksOn ==
  ASSUME SchedulerInv, Quiet, NEW th \in Threads, NEW p \in Looking, NEW l, Goto(th, p, l),
         IsLocal(l), l.todo \subseteq loc[th].todo,
         pc[th] \in Looking \/ (pc[th] = "run" /\ Kind(th) = "NoTask"),
         Plain(p) \/ l.seen.idx \in Txns
  PROVE  SchedulerInv'
<1>1. Kind(th) = "NoTask"
  BY KindAt, Zenon
<1>2. p \in Pcs /\ PcFits(p, Kind(th)) /\ p \notin Finishing \cup Marking
  BY <1>1, Classes, Fits, Zenon
<1>3. Active(th) /\ pc[th] # "wait" /\ Kind(th) # "Execute"
  BY <1>1 DEF Active, Looking
<1>4. pc'[th] = p /\ loc'[th] = l /\ Txns' = Txns
  BY GotoIs, Zenon DEF SchedulerInv, Quiet, Txns
<1>5. Plain(p) \/ CallInv(th)'
  BY <1>4 DEF CallInv, Looking
<1> QED BY <1>2, <1>3, <1>5, GotoStep, Zenon

LEMMA LooksAgain ==
  ASSUME SchedulerInv, Quiet, NEW th \in Threads, pc[th] \in Looking, Goto(th, "next_task", Idle)
  PROVE  SchedulerInv'
<1>1. IsLocal(Idle) /\ Idle.todo \subseteq loc[th].todo
  BY IdleIs, Zenon DEF SchedulerInv
<1>2. "next_task" \in Looking /\ Plain("next_task")
  BY DEF Looking, Plain
<1> QED BY <1>1, <1>2, LooksOn, Zenon

LEMMA ReturnsNoTask ==
  ASSUME SchedulerInv, Quiet, NEW th \in Threads, NEW tk \in {NoTask, Done}, Return(th, tk),
         Active(th), pc[th] # "wait"
  PROVE  SchedulerInv'
<1>1. IsTask(tk) /\ tk.kind \notin {"Execute", "Wakeup"}
  BY NoTaskIs DEF SchedulerInv
<1> QED BY <1>1, ReturnStep, Zenon

-----------------------------------------------------------------------------
(* The calls that change no status *)

LEMMA SchedulerKept ==
  ASSUME SchedulerInv, UNCHANGED scheduler
  PROVE  SchedulerInv'
<1>1. /\ num_txns' = num_txns /\ txn_status' = txn_status /\ vlock' = vlock
      /\ txn_dependency' = txn_dependency /\ condvar' = condvar /\ commit_state' = commit_state
      /\ pc' = pc /\ task' = task /\ loc' = loc
      /\ execution_idx' = execution_idx /\ validation_idx' = validation_idx
  BY Zenon DEF scheduler, indices, statuses, threads
<1>2. SharedType' /\ LocalType'
  BY <1>1, Zenon DEF SchedulerInv, SharedType, LocalType, Txns, IsTask, IsLocal, IsIndex
<1>3. \A th \in Threads : ThreadInv(th)'
  <2> SUFFICES ASSUME NEW th \in Threads PROVE ThreadInv(th)'
    OBVIOUS
  <2>1. ThreadInv(th) /\ Same(th)
    BY <1>1, Zenon DEF SchedulerInv, Same
  <2>2. OwnInv(th)'
    BY <1>1, <2>1, OwnKept, Zenon DEF ThreadInv
  <2>3. WakeInv(th)'
    BY <1>1, <2>1, Zenon DEF ThreadInv, WakeInv, Kind, Txn
  <2>4. PcFits(pc[th], Kind(th))' /\ CallInv(th)'
    BY <1>1, <2>1, Zenon DEF ThreadInv, CallInv, Kind, Txns
  <2> QED BY <2>2, <2>3, <2>4, Zenon DEF ThreadInv
<1>4. \A t \in Txns' : CvInv(t)' /\ CommitInv(t)'
  BY <1>1, ZenonT(60) DEF SchedulerInv, CvInv, CommitInv, Abt, Kind, Txn, Txns
<1>5. \A th \in Threads : \A d \in Threads \ {th} : Alone(th, d)'
  BY <1>1, Zenon DEF SchedulerInv, Alone, Exe, Abt, Kind, Txn
<1>6. WaitInv' /\ CoordinatorInv'
  BY <1>1, Zenon DEF SchedulerInv, WaitInv, CoordinatorInv, Dependent, Kind, Txns
<1> QED BY <1>2, <1>3, <1>4, <1>5, <1>6, Zenon DEF SchedulerInv

LEMMA ValidationTaskIs ==
  ASSUME NEW t \in Txns, NEW i \in Nat, NEW w
  PROVE  IsTask(ValidationTask(t, i, w)) /\ ValidationTask(t, i, w).kind = "Validate"
BY DEF IsTask, Kinds, ValidationTask

\* A thread goes back to its loop with the task it has.
LEMMA ToRun ==
  ASSUME SchedulerInv, Quiet, NEW th \in Threads, Goto(th, "run", Idle),
         pc[th] \in Waiting, pc[th] # "panic", pc[th] # "run"
  PROVE  SchedulerInv'
<1>1. "run" \in Waiting /\ "run" \in Pcs /\ pc[th] # "wait" /\ Active(th)
  BY DEF Waiting, Pcs, Active
<1>2. PcFits("run", Kind(th)) /\ Plain("run") /\ "run" \notin Finishing \cup Marking
      /\ pc[th] \notin Finishing
  BY <1>1, Fits, KindAt, Classes, Zenon
<1>3. IsLocal(Idle) /\ Idle.todo \subseteq loc[th].todo
  BY IdleIs, Zenon DEF SchedulerInv
<1> QED BY <1>1, <1>2, <1>3, GotoStep, Zenon

\* A call that may change the indices, but commits nothing.
LEMMA CallQuiet ==
  ASSUME SchedulerInv, UNCHANGED <<num_txns, txn_status, vlock, txn_dependency, condvar>>,
         execution_idx' \in Nat, IsIndex(validation_idx'), IsIndex(commit_state'),
         commit_state'.idx = commit_state.idx
  PROVE  Quiet
BY Zenon DEF SchedulerInv, SharedType, CoordinatorInv, Quiet, Txns, IsIndex

LEMMA NothingToCommitKeeps ==
  ASSUME SchedulerInv, NEW th \in Threads, NothingToCommit(th)
  PROVE  SchedulerInv'
<1>1. /\ UNCHANGED <<num_txns, txn_status, vlock, txn_dependency, condvar>>
      /\ UNCHANGED <<execution_idx, validation_idx>>
  BY Zenon DEF NothingToCommit, statuses
<1>2. IsIndex(commit_state') /\ commit_state'.idx = commit_state.idx
  BY DEF NothingToCommit, SchedulerInv, SharedType, IsIndex
<1>3. execution_idx' \in Nat /\ IsIndex(validation_idx')
  BY <1>1, Zenon DEF SchedulerInv, SharedType
<1>4. Quiet
  BY <1>1, <1>2, <1>3, CallQuiet, Zenon
<1>5. pc[th] = "commit" /\ Goto(th, "run", Idle)
  BY Zenon DEF NothingToCommit
<1>6. pc[th] \in Waiting /\ pc[th] # "panic" /\ pc[th] # "run"
  BY <1>5 DEF Waiting
<1> QED BY <1>4, <1>5, <1>6, ToRun, Zenon

LEMMA HaltKeeps ==
  ASSUME SchedulerInv, NEW th \in Threads, Halt(th)
  PROVE  SchedulerInv'
<1>1. /\ UNCHANGED <<num_txns, txn_status, vlock, txn_dependency, condvar>>
      /\ UNCHANGED <<execution_idx, validation_idx, commit_state>>
  BY Zenon DEF Halt, statuses
<1>2. execution_idx' \in Nat /\ IsIndex(validation_idx') /\ IsIndex(commit_state')
  BY <1>1, Zenon DEF SchedulerInv, SharedType
<1>3. Quiet
  BY <1>1, <1>2, CallQuiet, Zenon
<1>4. pc[th] = "halt" /\ pc[th] # "wait" /\ Active(th)
  BY DEF Halt, Active
<1>5. "halt" \in Waiting /\ pc[th] \in {"halt", "resolve"}
  BY <1>4 DEF Waiting
<1>6. CASE Goto(th, loc[th].next, Idle)
  <2>1. pc'[th] = loc[th].next
    BY <1>6, GotoIs, Zenon DEF SchedulerInv
  <2>2. CallInv(th)' /\ loc[th].next \in {"send", "commit", "run"}
    BY <1>1, <1>5, <2>1, HaltReturns, Zenon
  <2>3. loc[th].next \in Waiting /\ loc[th].next \in Pcs
    BY <2>2 DEF Waiting, Pcs
  <2>4. PcFits(loc[th].next, Kind(th)) /\ loc[th].next \notin Finishing \cup Marking
        /\ pc[th] \notin Finishing
    BY <1>4, <1>5, <2>3, Fits, KindAt, Classes, Zenon
  <2>5. IsLocal(Idle) /\ Idle.todo \subseteq loc[th].todo
    BY IdleIs, Zenon DEF SchedulerInv
  <2> QED BY <1>3, <1>4, <1>6, <2>2, <2>3, <2>4, <2>5, GotoStep, Zenon
<1>7. CASE Goto(th, "resolve", loc[th])
  <2>1. pc'[th] = "resolve" /\ loc'[th] = loc[th]
    BY <1>7, GotoIs, Zenon DEF SchedulerInv
  <2>2. CallInv(th)
    BY Zenon DEF SchedulerInv, ThreadInv
  <2>3. CallInv(th)'
    BY <1>1, <1>5, <2>1, <2>2 DEF CallInv
  <2>4. "resolve" \in Waiting /\ "resolve" \in Pcs
    BY DEF Waiting, Pcs
  <2>5. PcFits("resolve", Kind(th)) /\ "resolve" \notin Finishing \cup Marking
        /\ pc[th] \notin Finishing
    BY <1>4, <1>5, <2>4, Fits, KindAt, Classes, Zenon
  <2>6. IsLocal(loc[th])
    BY KindAt, Zenon
  <2> QED BY <1>3, <1>4, <1>7, <2>3, <2>4, <2>5, <2>6, GotoStep, Zenon
<1> QED BY <1>6, <1>7, Zenon DEF Halt

LEMMA NextTaskKeeps ==
  ASSUME SchedulerInv, NEW th \in Threads, NextTask(th)
  PROVE  SchedulerInv'
<1>1. Quiet
  BY QuietIs, Zenon DEF NextTask
<1>2. pc[th] \in {"run", "next_task"} /\ Kind(th) = "NoTask"
  BY Zenon DEF NextTask, Kind
<1>3. Active(th) /\ pc[th] # "wait" /\ pc[th] \in Looking \cup {"run"}
  BY <1>2 DEF Active, Looking
<1>4. CASE Return(th, Done)
  <2>1. IsTask(Done) /\ Done.kind \notin {"Execute", "Wakeup"}
    BY NoTaskIs DEF SchedulerInv
  <2> QED BY <1>1, <1>3, <1>4, <2>1, ReturnStep, Zenon
<1>5. CASE Goto(th, "choose", [Idle EXCEPT !.seen = validation_idx])
  <2>1. IsLocal([Idle EXCEPT !.seen = validation_idx])
        /\ [Idle EXCEPT !.seen = validation_idx].todo \subseteq loc[th].todo
    BY IdleWith, Zenon DEF SchedulerInv, SharedType
  <2>2. "choose" \in Looking /\ Plain("choose")
    BY DEF Looking, Plain
  <2> QED BY <1>1, <1>2, <1>3, <1>5, <2>1, <2>2, LooksOn, Zenon
<1> QED BY <1>4, <1>5, Zenon DEF NextTask

LEMMA ChooseKeeps ==
  ASSUME SchedulerInv, NEW th \in Threads, Choose(th)
  PROVE  SchedulerInv'
<1> DEFINE v == loc[th].seen.idx
<1>1. Quiet
  BY QuietIs, Zenon DEF Choose
<1>2. pc[th] = "choose" /\ Active(th) /\ pc[th] # "wait" /\ pc[th] \in Looking
  BY DEF Choose, Active, Looking
<1>3. IsLocal(loc[th]) /\ num_txns \in Nat /\ execution_idx \in Nat
  BY KindAt DEF SchedulerInv, SharedType
<1>4. CASE v < Min({execution_idx, num_txns}) /\ Goto(th, "claim", loc[th])
  <2>1. Min({execution_idx, num_txns}) <= num_txns /\ Min({execution_idx, num_txns}) \in Nat
    <3> DEFINE m == IF execution_idx <= num_txns THEN execution_idx ELSE num_txns
    <3>1. m \in {execution_idx, num_txns} /\ \A j \in {execution_idx, num_txns} : m <= j
      BY <1>3
    <3>2. /\ Min({execution_idx, num_txns}) \in {execution_idx, num_txns}
          /\ \A j \in {execution_idx, num_txns} : Min({execution_idx, num_txns}) <= j
      BY <3>1, Zenon DEF Min
    <3> QED BY <1>3, <3>2
  <2>2. v \in Nat
    BY <1>3, Zenon DEF IsLocal, IsIndex
  <2>3. v \in Txns
    BY <1>3, <1>4, <2>1, <2>2 DEF Txns
  <2>4. "claim" \in Looking
    BY DEF Looking
  <2> QED BY <1>1, <1>2, <1>3, <1>4, <2>3, <2>4, LooksOn, Zenon
<1>5. CASE Goto(th, "fetch_add", Idle)
  <2>1. IsLocal(Idle) /\ Idle.todo \subseteq loc[th].todo
    BY IdleIs, Zenon DEF SchedulerInv
  <2>2. "fetch_add" \in Looking /\ Plain("fetch_add")
    BY DEF Looking, Plain
  <2> QED BY <1>1, <1>2, <1>5, <2>1, <2>2, LooksOn, Zenon
<1>6. CASE \E tk \in {NoTask, Done} : Return(th, tk)
  BY <1>1, <1>2, <1>6, ReturnsNoTask, Zenon
<1> QED BY <1>4, <1>5, <1>6, Zenon DEF Choose

LEMMA ClaimKeeps ==
  ASSUME SchedulerInv, NEW th \in Threads, Claim(th)
  PROVE  SchedulerInv'
<1>1. pc[th] = "claim" /\ pc[th] \in Looking
  BY DEF Claim, Looking
<1>2. IsLocal(loc[th]) /\ loc[th].seen.idx \in Txns
  BY <1>1, KindAt, Zenon DEF SchedulerInv, ThreadInv, CallInv
<1>3. IsIndex(validation_idx')
  BY <1>2 DEF Claim, SchedulerInv, SharedType, IsIndex, IsLocal
<1>4. /\ UNCHANGED <<num_txns, txn_status, vlock, txn_dependency, condvar>>
      /\ UNCHANGED <<execution_idx, commit_state>>
  BY Zenon DEF Claim, statuses
<1>5. execution_idx' \in Nat /\ IsIndex(commit_state')
  BY <1>4, Zenon DEF SchedulerInv, SharedType
<1>6. Quiet
  BY <1>3, <1>4, <1>5, CallQuiet, Zenon
<1>7. CASE Goto(th, "claimed", loc[th])
  <2>1. "claimed" \in Looking
    BY DEF Looking
  <2> QED BY <1>1, <1>2, <1>6, <1>7, <2>1, LooksOn, Zenon
<1>8. CASE Goto(th, "next_task", Idle)
  BY <1>1, <1>6, <1>8, LooksAgain, Zenon
<1> QED BY <1>7, <1>8, Zenon DEF Claim

LEMMA ClaimedKeeps ==
  ASSUME SchedulerInv, NEW th \in Threads, Claimed(th)
  PROVE  SchedulerInv'
<1> DEFINE t == loc[th].seen.idx
           tk == ValidationTask(t, txn_status[t].inc, loc[th].seen.wave)
<1>1. Quiet
  BY QuietIs, Zenon DEF Claimed
<1>2. pc[th] = "claimed" /\ pc[th] \in Looking /\ pc[th] # "wait" /\ Active(th)
  BY DEF Claimed, Looking, Active
<1>3. CASE Return(th, tk)
  <2>1. t \in Txns
    BY <1>2, Zenon DEF SchedulerInv, ThreadInv, CallInv
  <2>2. txn_status[t].inc \in Nat
    BY <2>1 DEF SchedulerInv, SharedType, Statuses
  <2>3. IsTask(tk) /\ tk.kind = "Validate"
    BY <2>1, <2>2, ValidationTaskIs, Zenon
  <2>4. tk.kind \notin {"Execute", "Wakeup"}
    BY <2>3
  <2> QED BY <1>1, <1>2, <1>3, <2>3, <2>4, ReturnStep, Zenon
<1>4. CASE Goto(th, "next_task", Idle)
  BY <1>1, <1>2, <1>4, LooksAgain, Zenon
<1> QED BY <1>3, <1>4, Zenon DEF Claimed

LEMMA FetchAddKeeps ==
  ASSUME SchedulerInv, NEW th \in Threads, FetchAdd(th)
  PROVE  SchedulerInv'
<1>1. pc[th] = "fetch_add" /\ pc[th] \in Looking
  BY DEF FetchAdd, Looking
<1>2. /\ UNCHANGED <<num_txns, txn_status, vlock, txn_dependency, condvar>>
      /\ UNCHANGED <<validation_idx, commit_state>>
  BY Zenon DEF FetchAdd, statuses
<1>3. execution_idx' \in Nat /\ execution_idx \in Nat /\ num_txns \in Nat
  BY DEF FetchAdd, SchedulerInv, SharedType
<1>4. IsIndex(validation_idx') /\ IsIndex(commit_state')
  BY <1>2, Zenon DEF SchedulerInv, SharedType
<1>5. Quiet
  BY <1>2, <1>3, <1>4, CallQuiet, Zenon
<1>6. CASE execution_idx < num_txns /\ Goto(th, "incarnate", [Idle EXCEPT !.idx = execution_idx])
  <2>1. execution_idx \in Txns
    BY <1>3, <1>6 DEF Txns
  <2>2. IsLocal([Idle EXCEPT !.idx = execution_idx])
        /\ [Idle EXCEPT !.idx = execution_idx].todo \subseteq loc[th].todo
    BY <2>1, IdleWith, Zenon DEF SchedulerInv
  <2>3. "incarnate" \in Looking /\ Plain("incarnate")
    BY DEF Looking, Plain
  <2> QED BY <1>1, <1>5, <1>6, <2>2, <2>3, LooksOn, Zenon
<1>7. CASE Goto(th, "next_task", Idle)
  BY <1>1, <1>5, <1>7, LooksAgain, Zenon
<1> QED BY <1>6, <1>7, Zenon DEF FetchAdd

LEMMA WokenUpKeeps ==
  ASSUME SchedulerInv, NEW th \in Threads, WokenUp(th)
  PROVE  SchedulerInv'
<1>1. Quiet
  BY QuietIs, Zenon DEF WokenUp
<1>2. pc[th] \in Running /\ condvar[th] # "Unresolved"
  BY DEF WokenUp, Running
<1>3. PICK p \in Running : Goto(th, p, Idle)
  BY DEF WokenUp, Running
<1>4. IsLocal(Idle) /\ Idle.todo \subseteq loc[th].todo
  BY IdleIs, Zenon DEF SchedulerInv
<1> QED BY <1>1, <1>2, <1>3, <1>4, ExecutionGoesOn, Zenon

LEMMA FinishValidationKeeps ==
  ASSUME SchedulerInv, NEW th \in Threads, FinishValidation(th)
  PROVE  SchedulerInv'
<1>1. UNCHANGED <<num_txns, txn_status, vlock, txn_dependency, condvar, indices>>
  BY Zenon DEF FinishValidation
<1>2. execution_idx' \in Nat /\ IsIndex(validation_idx') /\ IsIndex(commit_state')
      /\ commit_state'.idx = commit_state.idx
  BY <1>1, Zenon DEF SchedulerInv, SharedType, indices
<1>3. Quiet
  BY <1>1, <1>2, CallQuiet, Zenon
<1>4. pc[th] # "wait" /\ Active(th) /\ Return(th, NoTask)
  BY DEF FinishValidation, Active
<1> QED BY <1>3, <1>4, ReturnsNoTask, Zenon

\* decrease_validation_idx goes on and returns to finish_execution or finish_abort.
LEMMA DecreaseGoesOn ==
  ASSUME SchedulerInv, Quiet, NEW th \in Threads, pc[th] \in {"decrease", "update"},
         NEW p \in {"decrease", "update", Decreased(th)}, NEW l, Goto(th, p, l),
         IsLocal(l), l.todo \subseteq loc[th].todo
  PROVE  SchedulerInv'
<1>1. Kind(th) \in {"Execute", "Validate"}
  BY KindAt, Zenon
<1>2. pc[th] \in Finishing /\ pc[th] # "wait" /\ Active(th)
  BY DEF Finishing, Active
<1>3. p \in {"decrease", "update"} \/ p = IF Kind(th) = "Execute" THEN "require" ELSE "reexecute"
  BY DEF Decreased, Kind
<1>4. p \in Pcs /\ Plain(p) /\ p \notin Marking
  BY <1>3 DEF Pcs, Finishing, Plain, Marking
<1>5. PcFits(p, Kind(th)) /\ (Kind(th) = "Execute" => p \in Finishing)
  BY <1>1, <1>3 DEF PcFits, Looking, Running, Applying, Checking, Marking, Finishing
<1> QED BY <1>2, <1>4, <1>5, GotoStep, Zenon

LEMMA LocalWith ==
  ASSUME NEW l, IsLocal(l), NEW v, NEW i, IsIndex(i)
  PROVE  /\ IsLocal([l EXCEPT !.seen = i]) /\ [l EXCEPT !.seen = i].todo = l.todo
         /\ IsLocal([l EXCEPT !.seen = i, !.wave = v]) /\ [l EXCEPT !.seen = i, !.wave = v].todo = l.todo
         /\ IsLocal([l EXCEPT !.deps = {}, !.wave = v]) /\ [l EXCEPT !.deps = {}, !.wave = v].todo = l.todo
BY DEF IsLocal, IsIndex

LEMMA DecreaseKeeps ==
  ASSUME SchedulerInv, NEW th \in Threads, Decrease(th)
  PROVE  SchedulerInv'
<1>1. UNCHANGED <<num_txns, txn_status, vlock, txn_dependency, condvar, indices>>
  BY Zenon DEF Decrease
<1>2. execution_idx' \in Nat /\ IsIndex(validation_idx') /\ IsIndex(commit_state')
      /\ commit_state'.idx = commit_state.idx
  BY <1>1, Zenon DEF SchedulerInv, SharedType, indices
<1>3. Quiet
  BY <1>1, <1>2, CallQuiet, Zenon
<1>4. pc[th] \in {"decrease", "update"} /\ IsLocal(loc[th]) /\ IsIndex(validation_idx)
  BY KindAt, Zenon DEF Decrease, SchedulerInv, SharedType
<1>5. CASE Goto(th, "update", [loc[th] EXCEPT !.seen = validation_idx])
  <2>1. IsLocal([loc[th] EXCEPT !.seen = validation_idx])
        /\ [loc[th] EXCEPT !.seen = validation_idx].todo \subseteq loc[th].todo
    BY <1>4, LocalWith, Zenon
  <2> QED BY <1>3, <1>4, <1>5, <2>1, DecreaseGoesOn, Zenon
<1>6. CASE Goto(th, Decreased(th), loc[th])
  BY <1>3, <1>4, <1>6, DecreaseGoesOn, Zenon
<1> QED BY <1>5, <1>6, Zenon DEF Decrease

LEMMA UpdateKeeps ==
  ASSUME SchedulerInv, NEW th \in Threads, Update(th)
  PROVE  SchedulerInv'
<1>1. /\ UNCHANGED <<num_txns, txn_status, vlock, txn_dependency, condvar>>
      /\ UNCHANGED <<execution_idx, commit_state>>
  BY Zenon DEF Update, statuses
<1>2. Txn(th) \in Nat
  BY KindAt DEF Txns
<1>3. IsIndex(validation_idx')
  BY <1>2 DEF Update, SchedulerInv, SharedType, IsIndex, Txn
<1>4. execution_idx' \in Nat /\ IsIndex(commit_state')
  BY <1>1, Zenon DEF SchedulerInv, SharedType
<1>5. Quiet
  BY <1>1, <1>3, <1>4, CallQuiet, Zenon
<1>6. pc[th] \in {"decrease", "update"} /\ IsLocal(loc[th])
  BY KindAt, Zenon DEF Update
<1>7. IsIndex(NoIndex)
  BY DEF IsIndex, NoIndex
<1>8. CASE \E w : Goto(th, Decreased(th), [loc[th] EXCEPT !.seen = NoIndex, !.wave = w])
  <2>1. PICK w : Goto(th, Decreased(th), [loc[th] EXCEPT !.seen = NoIndex, !.wave = w])
    BY <1>8, Zenon
  <2>2. IsLocal([loc[th] EXCEPT !.seen = NoIndex, !.wave = w])
        /\ [loc[th] EXCEPT !.seen = NoIndex, !.wave = w].todo \subseteq loc[th].todo
    BY <1>6, <1>7, LocalWith, Zenon
  <2> QED BY <1>5, <1>6, <2>1, <2>2, DecreaseGoesOn, Zenon
<1>9. CASE Goto(th, "decrease", [loc[th] EXCEPT !.seen = NoIndex])
  <2>1. IsLocal([loc[th] EXCEPT !.seen = NoIndex])
        /\ [loc[th] EXCEPT !.seen = NoIndex].todo \subseteq loc[th].todo
    BY <1>6, <1>7, LocalWith, Zenon
  <2> QED BY <1>5, <1>6, <1>9, <2>1, DecreaseGoesOn, Zenon
<1> QED BY <1>8, <1>9, Zenon DEF Update

-----------------------------------------------------------------------------
(* The steps that release a validation status *)

\* Who is in finish_execution of a transaction is alone there, and holds the lock.
LEMMA FinAlone ==
  ASSUME SchedulerInv, NEW th \in Threads, NEW d \in Threads \ {th}, Fin(d)
  PROVE  /\ vlock[Txn(d)] = d
         /\ Kind(th) = "Execute" => Txn(d) # Txn(th)
BY Zenon DEF SchedulerInv, ThreadInv, OwnInv, Alone, Fin

LEMMA UnlockIs ==
  ASSUME SharedType, NEW t \in Txns, num_txns' = num_txns,
         vlock' = [vlock EXCEPT ![t] = NoThread]
  PROVE  /\ vlock' \in [Txns -> Threads \cup {NoThread}]
         /\ \A u \in Txns \ {t} : vlock'[u] = vlock[u]
BY DEF SharedType, Txns

\* finish_execution returns.
LEMMA FinishReturns ==
  ASSUME SchedulerInv, NEW th \in Threads, pc[th] \in Finishing, Kind(th) = "Execute",
         UNCHANGED <<num_txns, txn_status, txn_dependency, condvar, validation_idx, commit_state>>,
         execution_idx' \in Nat, vlock' = [vlock EXCEPT ![Txn(th)] = NoThread],
         NEW tk, Return(th, tk), IsTask(tk), tk.kind \notin {"Execute", "Wakeup"}
  PROVE  SchedulerInv'
<1>1. Moves(th) /\ pc'[th] = Top(th) /\ loc'[th] = Idle /\ task'[th] = tk
  BY ReturnIs, Zenon DEF SchedulerInv
<1>2. Txn(th) \in Txns
  BY KindAt, Zenon
<1>3. /\ vlock' \in [Txns -> Threads \cup {NoThread}]
      /\ \A u \in Txns \ {Txn(th)} : vlock'[u] = vlock[u]
  BY <1>2, UnlockIs, Zenon DEF SchedulerInv
<1>4. SharedType'
  BY <1>3, Zenon DEF SchedulerInv, SharedType, CoordinatorInv, Txns, IsIndex
<1>5. Kind(th)' \notin {"Execute", "Wakeup"}
  BY <1>1, Zenon DEF Kind
<1>6. IsTask(task[th])' /\ IsLocal(loc[th])' /\ loc'[th].todo \subseteq loc[th].todo
  BY <1>1, IdleIs, Zenon DEF SchedulerInv, IsTask, IsLocal, Txns
<1>7. Top(th) \in Waiting /\ Top(th) \in Pcs
  BY TopIs DEF Waiting, Pcs
<1>8. /\ PcFits(pc[th], Kind(th))' /\ ~Exe(th)' /\ ~Fin(th)' /\ ~Abt(th)'
  <2>1. tk.kind \in Kinds
    BY Zenon DEF IsTask
  <2> QED BY <1>1, <1>5, <1>7, <2>1, Fits, Classes, Zenon DEF Kind, Exe, Fin, Abt
<1>9. CallInv(th)'
  BY <1>1, TopIs DEF CallInv
<1>10. \A d \in Threads : Fin(d)' => vlock'[Txn(d)] = vlock[Txn(d)]
  <2> SUFFICES ASSUME NEW d \in Threads, Fin(d)' PROVE vlock'[Txn(d)] = vlock[Txn(d)]
    OBVIOUS
  <2>1. d # th
    BY <1>8, Zenon
  <2>2. Fin(d)
    BY <1>1, <2>1, Zenon DEF Moves, Same, Fin, Kind
  <2>3. Txn(d) # Txn(th)
    BY <2>1, <2>2, FinAlone, Zenon
  <2> QED BY <1>3, <2>3, KindAt, Zenon
<1>11. Active(th) /\ pc[th] # "wait"
  BY DEF Active, Finishing
<1> QED BY <1>1, <1>4, <1>5, <1>6, <1>7, <1>8, <1>9, <1>10, <1>11, Move, Zenon

LEMMA RevalidateKeeps ==
  ASSUME Extrema, SchedulerInv, NEW th \in Threads, Revalidate(th)
  PROVE  SchedulerInv'
<1> DEFINE l == [loc[th] EXCEPT !.deps = {}, !.wave = validation_idx.wave]
<1>1. UNCHANGED <<num_txns, txn_status, txn_dependency, condvar, validation_idx, commit_state>>
  BY Zenon DEF Revalidate
<1>2. IsLocal(loc[th]) /\ loc[th].deps \subseteq Txns
  BY KindAt, Zenon DEF IsLocal
<1>3. execution_idx' \in Nat
  <2>1. {execution_idx} \cup loc[th].deps \in SUBSET Nat /\ {execution_idx} \cup loc[th].deps # {}
    BY <1>2 DEF SchedulerInv, SharedType, Txns
  <2>2. Min({execution_idx} \cup loc[th].deps) \in Nat
    BY <2>1, Zenon DEF Extrema
  <2> QED BY <2>2, Zenon DEF Revalidate
<1>4. pc[th] \in Finishing /\ Kind(th) = "Execute" /\ pc[th] # "wait" /\ Active(th)
  BY KindAt DEF Revalidate, Finishing, Active
<1>5. CASE vlock' = [vlock EXCEPT ![Txn(th)] = NoThread] /\ Return(th, NoTask)
  <2>1. IsTask(NoTask) /\ NoTask.kind \notin {"Execute", "Wakeup"}
    BY NoTaskIs DEF SchedulerInv
  <2> QED BY <1>1, <1>3, <1>4, <1>5, <2>1, FinishReturns, Zenon
<1>6. CASE vlock' = vlock /\ \E p \in {"decrease", "require"} : Goto(th, p, l)
  <2>1. PICK p \in {"decrease", "require"} : Goto(th, p, l)
    BY <1>6, Zenon
  <2>2. IsIndex(validation_idx') /\ IsIndex(commit_state')
    BY <1>1, Zenon DEF SchedulerInv, SharedType
  <2>3. Quiet
    BY <1>1, <1>3, <1>6, <2>2, CallQuiet, Zenon
  <2>4. p \in Pcs /\ PcFits(p, Kind(th)) /\ Plain(p) /\ p \in Finishing /\ p \notin Marking
    BY <1>4 DEF Pcs, Finishing, PcFits, Plain, Looking, Running, Applying, Checking, Marking
  <2>5. IsIndex(NoIndex)
    BY DEF IsIndex, NoIndex
  <2>6. IsLocal(l) /\ l.todo \subseteq loc[th].todo
    BY <1>2, <2>5, LocalWith, Zenon
  <2> HIDE DEF l
  <2> QED BY <1>4, <2>1, <2>3, <2>4, <2>6, GotoStep, Zenon
<1> QED BY <1>5, <1>6, Zenon DEF Revalidate, Txn

LEMMA RequireKeeps ==
  ASSUME SchedulerInv, NEW th \in Threads, Require(th)
  PROVE  SchedulerInv'
<1> DEFINE tk == ValidationTask(Txn(th), Inc(th), loc[th].wave)
<1>1. /\ UNCHANGED <<num_txns, txn_status, txn_dependency, condvar, validation_idx, commit_state>>
      /\ UNCHANGED execution_idx
  BY Zenon DEF Require, indices
<1>2. pc[th] \in Finishing /\ Kind(th) = "Execute"
  BY KindAt DEF Require, Finishing
<1>3. execution_idx' \in Nat
  BY <1>1, Zenon DEF SchedulerInv, SharedType
<1>4. vlock' = [vlock EXCEPT ![Txn(th)] = NoThread] /\ Return(th, tk)
  BY Zenon DEF Require, Txn, Inc
<1>5. IsTask(tk) /\ tk.kind = "Validate"
  BY KindAt, ValidationTaskIs, Zenon
<1>6. tk.kind \notin {"Execute", "Wakeup"}
  BY <1>5
<1> HIDE DEF tk
<1> QED BY <1>1, <1>2, <1>3, <1>4, <1>5, <1>6, FinishReturns, Zenon

LEMMA ReleaseKeeps ==
  ASSUME SchedulerInv, NEW th \in Threads, Release(th)
  PROVE  SchedulerInv'
<1> DEFINE t == Txn(th)
<1>1. /\ UNCHANGED <<num_txns, txn_status, txn_dependency, condvar>>
      /\ UNCHANGED <<execution_idx, validation_idx, commit_state>>
      /\ pc[th] = "reexecute" /\ vlock[t] = th /\ vlock' = [vlock EXCEPT ![t] = NoThread]
      /\ Goto(th, "reexecute", Idle)
  BY Zenon DEF Release, indices, Txn
<1>2. t \in Txns /\ Kind(th) = "Validate" /\ IsTask(task[th])
  BY <1>1, KindAt, Zenon DEF SchedulerInv, LocalType
<1>3. /\ vlock' \in [Txns -> Threads \cup {NoThread}]
      /\ \A u \in Txns \ {t} : vlock'[u] = vlock[u]
  BY <1>1, <1>2, UnlockIs, Zenon DEF SchedulerInv
<1>4. SharedType'
  BY <1>1, <1>3, Zenon DEF SchedulerInv, SharedType, CoordinatorInv, Txns, IsIndex
<1>5. Moves(th) /\ pc'[th] = "reexecute" /\ loc'[th] = Idle /\ task'[th] = task[th]
  BY <1>1, GotoIs, Zenon DEF SchedulerInv
<1>6. IsTask(task[th])' /\ IsLocal(loc[th])' /\ loc'[th].todo \subseteq loc[th].todo
  BY <1>1, <1>2, <1>5, IdleIs, Zenon DEF SchedulerInv, IsTask, IsLocal, Txns
<1>7. PcFits(pc[th], Kind(th))' /\ ~Exe(th)' /\ ~Fin(th)' /\ ~Abt(th)' /\ "reexecute" \in Pcs
  <2>1. Kind(th)' = "Validate"
    BY <1>2, <1>5, Zenon DEF Kind
  <2> QED BY <1>5, <2>1, Fits, Classes, Zenon DEF Exe, Fin, Abt
<1>8. CallInv(th)' /\ Active(th) /\ pc[th] # "wait"
  BY <1>1, <1>5 DEF CallInv, Active
<1>9. \A d \in Threads : Fin(d)' => vlock'[Txn(d)] = vlock[Txn(d)]
  <2> SUFFICES ASSUME NEW d \in Threads, Fin(d)' PROVE vlock'[Txn(d)] = vlock[Txn(d)]
    OBVIOUS
  <2>1. d # th
    BY <1>7, Zenon
  <2>2. Fin(d)
    BY <1>5, <2>1, Zenon DEF Moves, Same, Fin, Kind
  <2>3. Txn(d) # t
    BY <1>1, <2>1, <2>2, FinAlone, Zenon
  <2> QED BY <1>3, <2>3, KindAt, Zenon
<1> QED BY <1>1, <1>4, <1>5, <1>6, <1>7, <1>8, <1>9, Move, Zenon

-----------------------------------------------------------------------------
(* The steps that change the status of a transaction *)

\* Who owns a transaction, by its status.
LEMMA Owner ==
  ASSUME SchedulerInv, NEW d \in Threads
  PROVE  LET s == txn_status[Txn(d)]
         IN  /\ Exe(d) => s.st \in {"Executing", "ExecutionHalted"} \/ s.cv = d
             /\ Fin(d) => /\ s.st \in {"Executed", "Aborting", "ExecutionHalted"}
                          /\ vlock[Txn(d)] = d
             /\ Abt(d) => s.st \in {"Aborting", "ExecutionHalted"}
             /\ s.st = "Suspended" => s.cv # NoThread
             /\ Kind(d) = "Wakeup" => s.cv = NoThread
             /\ s.cv # NoThread => s.st \in {"Suspended", "Ready"}
             /\ Kind(d) = "Execute" => Exe(d) \/ Fin(d)
<1> DEFINE s == txn_status[Txn(d)]
<1>1. OwnInv(d) /\ WakeInv(d) /\ CvInv(Txn(d))
  BY KindAt, Zenon DEF SchedulerInv, ThreadInv
<1>2. /\ Status("Executing", Inc(d)).st = "Executing"
      /\ Status("Executed", Inc(d)).st = "Executed"
      /\ Status("Aborting", Inc(d)).st = "Aborting"
  BY StatusIs, Zenon
<1>3. Halted.st = "ExecutionHalted"
  BY StatusIs, Zenon
<1>4. Exe(d) => s.st \in {"Executing", "ExecutionHalted"} \/ s.cv = d
  BY <1>1, <1>2, <1>3, Zenon DEF OwnInv
<1>5. Fin(d) => s.st \in {"Executed", "Aborting", "ExecutionHalted"} /\ vlock[Txn(d)] = d
  BY <1>1, <1>2, <1>3, Zenon DEF OwnInv
<1>6. Abt(d) => s.st \in {"Aborting", "ExecutionHalted"}
  BY <1>1, <1>2, <1>3, Zenon DEF OwnInv
<1>7. /\ s.st = "Suspended" => s.cv # NoThread
      /\ Kind(d) = "Wakeup" => s.cv = NoThread
      /\ s.cv # NoThread => s.st \in {"Suspended", "Ready"}
  BY <1>1, Zenon DEF WakeInv, CvInv
<1>8. Kind(d) = "Execute" => Exe(d) \/ Fin(d)
  BY Zenon DEF Exe, Fin
<1> QED BY <1>4, <1>5, <1>6, <1>7, <1>8, Zenon

\* A step of a thread that changes the status of transaction t and of no other.
LEMMA StatusStep ==
  ASSUME SchedulerInv, NEW th \in Threads, NEW t \in Txns, Moves(th), num_txns' = num_txns,
         SharedType', LocalType', pc[th] # "wait",
         \A u \in Txns \ {t} : txn_status'[u] = txn_status[u],
         \A u \in Txns \ {t} : u < commit_state'.idx => u < commit_state.idx,
         commit_state.idx > 0 => commit_state'.idx > 0,
         ThreadInv(th)', \A d \in Threads \ {th} : OwnInv(d)' /\ WakeInv(d)',
         CvInv(t)', CommitInv(t)',
         Kind(th)' = "Execute" \/ Abt(th)'
           => Txn(th)' = t \/ (Txn(th)' = Txn(th) /\ (Kind(th) = "Execute" \/ Abt(th))),
         \A d \in Threads \ {th} : Alone(th, d)' /\ Alone(d, th)',
         WaitInv', CoordinatorInv'
  PROVE  SchedulerInv'
<1>1. \A d \in Threads : ThreadInv(d)'
  <2> SUFFICES ASSUME NEW d \in Threads \ {th} PROVE ThreadInv(d)'
    OBVIOUS
  <2>1. ThreadInv(d) /\ Same(d)
    BY Zenon DEF SchedulerInv, Moves
  <2>2. PcFits(pc[d], Kind(d))' /\ CallInv(d)'
    BY <2>1, Zenon DEF ThreadInv, CallInv, Same, Kind, Txns, Top
  <2> QED BY <2>2, Zenon DEF ThreadInv
<1>2. \A u \in Txns' : CvInv(u)' /\ CommitInv(u)'
  <2> SUFFICES ASSUME NEW u \in Txns \ {t} PROVE CvInv(u)' /\ CommitInv(u)'
    BY Zenon DEF Txns
  <2>1. CvInv(u) /\ CommitInv(u) /\ txn_status'[u] = txn_status[u]
    BY Zenon DEF SchedulerInv
  <2>2. ASSUME txn_status[u].cv # NoThread PROVE Same(txn_status[u].cv)
    BY <2>2, CvWaits, Zenon DEF Moves
  <2>3. CvInv(u)'
    BY <2>1, <2>2, Zenon DEF CvInv, Same, Txn
  <2>4. ASSUME NEW d \in Threads, Kind(d)' = "Execute" \/ Abt(d)', u < commit_state.idx
        PROVE  Txn(d)' # u
    <3>1. CASE d = th
      BY <2>1, <2>4, <3>1, Zenon DEF CommitInv
    <3>2. CASE d # th
      BY <2>1, <2>4, <3>2, Zenon DEF CommitInv, Moves, Same, Kind, Abt, Txn
    <3> QED BY <3>1, <3>2, Zenon
  <2>5. CommitInv(u)'
    BY <2>1, <2>4, Zenon DEF CommitInv
  <2> QED BY <2>3, <2>5, Zenon
<1>3. \A d \in Threads : \A e \in Threads \ {d} : Alone(d, e)'
  <2> SUFFICES ASSUME NEW d \in Threads, NEW e \in Threads \ {d} PROVE Alone(d, e)'
    OBVIOUS
  <2>1. CASE d = th \/ e = th
    BY <2>1, Zenon
  <2>2. CASE d # th /\ e # th
    <3>1. Alone(d, e) /\ Same(d) /\ Same(e)
      BY <2>2, Zenon DEF SchedulerInv, Moves
    <3> QED BY <3>1, Zenon DEF Alone, Same, Kind, Txn, Exe, Abt
  <2> QED BY <2>1, <2>2, Zenon
<1> QED BY <1>1, <1>2, <1>3, Zenon DEF SchedulerInv

\* The owner of another transaction is not concerned.
LEMMA OtherOwner ==
  ASSUME SchedulerInv, NEW th \in Threads, NEW t, Moves(th), NEW d \in Threads \ {th}, Txn(d) # t,
         \A u \in Txns \ {t} : txn_status'[u] = txn_status[u],
         \A u \in Txns \ {t} : vlock'[u] = vlock[u], condvar'[d] = condvar[d]
  PROVE  OwnInv(d)'
<1>1. Txn(d) \in Txns \ {t}
  BY KindAt, Zenon
<1> QED BY <1>1, OwnKept, Zenon DEF SchedulerInv, ThreadInv, Moves

\* Who has a Wakeup task still has it.
LEMMA OtherWakeup ==
  ASSUME SchedulerInv, NEW th \in Threads, Moves(th), NEW d \in Threads \ {th}, pc[th] # "wait",
         Kind(d) = "Wakeup" => /\ condvar'[task[d].cv] = condvar[task[d].cv]
                               /\ txn_status'[Txn(d)].cv = NoThread
  PROVE  WakeInv(d)'
<1>1. WakeInv(d) /\ Same(d)
  BY Zenon DEF SchedulerInv, ThreadInv, Moves
<1>2. CASE Kind(d) = "Wakeup"
  <2>1. Same(task[d].cv)
    BY <1>1, <1>2, Zenon DEF WakeInv, Moves
  <2> QED BY <1>1, <1>2, <2>1, Zenon DEF WakeInv, Same, Kind, Txn
<1>3. CASE Kind(d) # "Wakeup"
  BY <1>1, <1>3, Zenon DEF WakeInv, Same, Kind
<1> QED BY <1>2, <1>3, Zenon

\* A thread that goes on with its task is as alone as it was.
LEMMA AloneKept ==
  ASSUME SchedulerInv, NEW th \in Threads, Moves(th),
         Kind(th)' \in {"Execute", "Wakeup"} \/ Abt(th)' => task'[th] = task[th],
         Exe(th)' => Exe(th), Abt(th)' => Abt(th)
  PROVE  \A d \in Threads \ {th} : Alone(th, d)' /\ Alone(d, th)'
<1> SUFFICES ASSUME NEW d \in Threads \ {th} PROVE Alone(th, d)' /\ Alone(d, th)'
  OBVIOUS
<1>1. Alone(th, d) /\ Alone(d, th) /\ Same(d)
  BY Zenon DEF SchedulerInv, Moves
<1>2. Alone(th, d)'
  BY <1>1, Zenon DEF Alone, Same, Kind, Txn, Exe, Abt
<1>3. Alone(d, th)'
  BY <1>1, Zenon DEF Alone, Same, Kind, Txn, Exe, Abt
<1> QED BY <1>2, <1>3, Zenon

\* The dependents of other transactions still wait.
LEMMA WaitKept ==
  ASSUME SchedulerInv, NEW th \in Threads, NEW t \in Txns, Moves(th), num_txns' = num_txns,
         loc'[th].todo \subseteq loc[th].todo, txn_dependency' = txn_dependency,
         \A u \in Txns \ {t} : txn_status'[u] = txn_status[u], Dependent(t) => Dependent(t)'
  PROVE  WaitInv'
<1>1. \A d \in Threads : loc'[d].todo \subseteq loc[d].todo
  BY Zenon DEF Moves, Same
<1>2. \A d \in Threads : loc[d].todo \subseteq Txns
  BY Zenon DEF SchedulerInv, LocalType, IsLocal
<1>3. \A u \in Txns : txn_dependency[u] \subseteq Txns
  BY DEF SchedulerInv, SharedType
<1>4. \A u \in Txns : Dependent(u) => Dependent(u)'
  BY Zenon DEF Dependent
<1> QED BY <1>1, <1>2, <1>3, <1>4, ZenonT(60) DEF SchedulerInv, WaitInv, Txns

LEMMA SetStatus ==
  ASSUME SharedType, NEW t \in Txns, NEW s \in Statuses,
         txn_status' = [txn_status EXCEPT ![t] = s], num_txns' = num_txns
  PROVE  /\ txn_status'[t] = s /\ \A u \in Txns \ {t} : txn_status'[u] = txn_status[u]
         /\ txn_status' \in [Txns' -> Statuses]
BY DEF SharedType, Txns

LEMMA IsStatus ==
  ASSUME NEW x \in States, NEW i \in Nat
  PROVE  Status(x, i) \in Statuses
BY DEF Statuses, Status

LEMMA HaltedIsStatus == Halted \in Statuses
BY DEF Statuses, Status, Halted, States

\* A Ready transaction is taken for execution, by try_execute_next_version or by
\* finish_abort.
LEMMA Take ==
  ASSUME SchedulerInv, NEW th \in Threads, NEW t \in Txns, pc[th] \in {"incarnate", "reexecute"},
         Ready(t), SetExecuting(t), Return(th, ExecutionTask(t, txn_status[t])),
         UNCHANGED <<indices, num_txns, vlock, txn_dependency, condvar>>
  PROVE  SchedulerInv'
<1> DEFINE s == txn_status[t]
           tk == ExecutionTask(t, s)
<1>1. s \in Statuses /\ s.st = "Ready" /\ s.inc \in Nat /\ s.cv \in Threads \cup {NoThread}
  BY DEF Ready, SchedulerInv, SharedType, Statuses
<1>2. "Executing" \in States
  BY DEF States
<1>3. /\ txn_status'[t] = Status("Executing", s.inc) /\ txn_status' \in [Txns' -> Statuses]
      /\ \A u \in Txns \ {t} : txn_status'[u] = txn_status[u]
  BY <1>1, <1>2, IsStatus, SetStatus, Zenon DEF SetExecuting, SchedulerInv
<1>4. SharedType'
  BY <1>3, Zenon DEF SchedulerInv, SharedType, indices, Txns, IsIndex
<1>5. Moves(th) /\ pc'[th] = Top(th) /\ loc'[th] = Idle /\ task'[th] = tk
  BY ReturnIs, Zenon DEF SchedulerInv
<1>6. /\ tk.txn = t /\ tk.inc = s.inc /\ tk.cv = s.cv
      /\ tk.kind = IF s.cv = NoThread THEN "Execute" ELSE "Wakeup"
  BY DEF ExecutionTask
<1>7. tk.kind \in Kinds
  BY <1>6 DEF Kinds
<1>8. Top(th) \in Waiting /\ Top(th) \in Pcs /\ pc[th] # "wait"
  BY TopIs DEF Waiting, Pcs
<1>9. IsTask(task[th])' /\ IsLocal(loc[th])' /\ loc'[th].todo \subseteq loc[th].todo
  BY <1>1, <1>5, <1>6, <1>7, IdleIs, Zenon DEF SchedulerInv, IsTask, IsLocal, Txns
<1>10. LocalType'
  BY <1>5, <1>8, <1>9, LocalsKept, Zenon DEF SchedulerInv
<1> HIDE DEF tk
<1>11. /\ txn_status'[t].cv = NoThread /\ txn_status'[t].st = "Executing"
       /\ txn_status'[t].st # "Suspended" /\ txn_status'[t].st # "ExecutionHalted"
  BY <1>3, StatusIs
<1>12. ASSUME NEW d \in Threads, Txn(d) = t
       PROVE  /\ ~Fin(d) /\ ~Abt(d) /\ (Exe(d) => s.cv = d)
              /\ Kind(d) = "Wakeup" => s.cv = NoThread
  BY <1>1, <1>12, Owner
<1>13. Kind(th)' = tk.kind /\ Txn(th)' = t /\ Inc(th)' = s.inc /\ ~Abt(th)' /\ ~Fin(th)'
  BY <1>5, <1>6, <1>8, Classes, Zenon DEF Kind, Txn, Inc, Abt, Fin
<1>14. ThreadInv(th)'
  <2>1. PcFits(pc[th], Kind(th))'
    BY <1>5, <1>7, <1>8, <1>13, Fits, Zenon
  <2>2. OwnInv(th)'
    BY <1>3, <1>13, Zenon DEF OwnInv
  <2>3. WakeInv(th)'
    <3>1. SUFFICES ASSUME tk.kind = "Wakeup" PROVE WakeInv(th)'
      BY <1>13, Zenon DEF WakeInv
    <3>2. s.cv # NoThread
      BY <1>6, <3>1
    <3>3. s.cv \in Threads /\ pc[s.cv] = "wait" /\ Txn(s.cv) = t /\ condvar[s.cv] = "Unresolved"
      BY <3>2, CvWaits, Zenon
    <3>4. Same(s.cv) /\ task'[th].cv = s.cv
      BY <1>5, <1>6, <1>8, <3>3, Zenon DEF Moves
    <3> QED BY <1>11, <1>13, <3>3, <3>4, Zenon DEF WakeInv, Same, Txn
  <2>4. CallInv(th)'
    BY <1>5, TopIs DEF CallInv
  <2> QED BY <2>1, <2>2, <2>3, <2>4, Zenon DEF ThreadInv
<1>15. \A d \in Threads \ {th} : OwnInv(d)' /\ WakeInv(d)'
  <2> SUFFICES ASSUME NEW d \in Threads \ {th} PROVE OwnInv(d)' /\ WakeInv(d)'
    OBVIOUS
  <2>1. Same(d) /\ OwnInv(d)
    BY <1>5, Zenon DEF Moves, SchedulerInv, ThreadInv
  <2>2. OwnInv(d)'
    <3>1. CASE Txn(d) # t
      BY <1>3, <1>5, <3>1, OtherOwner, Zenon
    <3>2. CASE Txn(d) = t /\ Exe(d)
      <4>1. s.cv = d /\ s.cv # NoThread
        BY <1>12, <3>2, SchedulerAssumption, Zenon
      <4>2. Inc(d) = s.inc
        BY <4>1, CvWaits, Zenon
      <4>3. Exe(d)' /\ ~Fin(d)' /\ ~Abt(d)' /\ Txn(d)' = t /\ Inc(d)' = s.inc
        BY <1>12, <2>1, <3>2, <4>2, Zenon DEF Same, Exe, Fin, Abt, Kind, Txn, Inc
      <4> QED BY <1>3, <4>3, Zenon DEF OwnInv
    <3>3. CASE Txn(d) = t /\ ~Exe(d)
      <4>1. ~Exe(d)' /\ ~Fin(d)' /\ ~Abt(d)'
        BY <1>12, <2>1, <3>3, Zenon DEF Same, Exe, Fin, Abt, Kind
      <4> QED BY <4>1, Zenon DEF OwnInv
    <3> QED BY <3>1, <3>2, <3>3, Zenon
  <2>3. Kind(d) = "Wakeup" => txn_status'[Txn(d)].cv = NoThread
    <3>1. Txn(d) \in Txns /\ (Kind(d) = "Wakeup" => txn_status[Txn(d)].cv = NoThread)
      BY KindAt, Owner, Zenon
    <3> QED BY <1>3, <1>11, <3>1, Zenon
  <2> QED BY <1>5, <1>8, <2>2, <2>3, OtherWakeup, Zenon
<1>16. CvInv(t)'
  BY <1>11, Zenon DEF CvInv
<1>17. CommitInv(t)'
  <2>1. CommitInv(t)
    BY Zenon DEF SchedulerInv
  <2>2. ~(t < commit_state.idx)
    BY <1>1, <2>1 DEF CommitInv
  <2> QED BY <2>2, Zenon DEF CommitInv, indices
<1>18. \A d \in Threads \ {th} : Alone(th, d)' /\ Alone(d, th)'
  <2> SUFFICES ASSUME NEW d \in Threads \ {th} PROVE Alone(th, d)' /\ Alone(d, th)'
    OBVIOUS
  <2>1. Same(d)
    BY <1>5, Zenon DEF Moves
  <2>2. Kind(d)' = Kind(d) /\ Txn(d)' = Txn(d) /\ Exe(d)' = Exe(d) /\ Abt(d)' = Abt(d)
    BY <2>1, Zenon DEF Same, Kind, Txn, Exe, Abt
  <2>3. ASSUME Txn(d) = t, tk.kind = "Execute" PROVE Kind(d) # "Execute" /\ ~Abt(d)
    <3>1. s.cv = NoThread
      BY <1>6, <2>3
    <3>2. ~Exe(d) /\ ~Fin(d) /\ ~Abt(d)
      BY <1>12, <2>3, <3>1, SchedulerAssumption, Zenon
    <3> QED BY <3>2, Zenon DEF Exe, Fin
  <2>4. ASSUME Txn(d) = t, tk.kind = "Wakeup" PROVE Kind(d) # "Wakeup"
    BY <1>6, <1>12, <2>4
  <2>5. Exe(th)' => tk.kind = "Execute"
    BY <1>13, Zenon DEF Exe
  <2> QED BY <1>13, <2>2, <2>3, <2>4, <2>5, Zenon DEF Alone
<1>19. WaitInv'
  <2>1. ~Dependent(t)
    BY <1>1 DEF Dependent
  <2> QED BY <1>3, <1>5, <1>9, <2>1, WaitKept, Zenon
<1>20. CoordinatorInv'
  BY <1>5, SchedulerAssumption DEF SchedulerInv, CoordinatorInv, Moves, Same, Kind, indices
<1>21. commit_state' = commit_state
  BY Zenon DEF indices
<1> QED BY <1>3, <1>4, <1>5, <1>8, <1>10, <1>13, <1>14, <1>15, <1>16, <1>17, <1>18, <1>19, <1>20, <1>21,
           StatusStep, Zenon

LEMMA IncarnateKeeps ==
  ASSUME SchedulerInv, NEW th \in Threads, Incarnate(th)
  PROVE  SchedulerInv'
<1> DEFINE t == loc[th].idx
<1>1. t \in Txns
  BY KindAt, Zenon DEF IsLocal
<1>2. pc[th] \in {"incarnate", "reexecute"} /\ pc[th] \in Looking
  BY DEF Incarnate, Looking
<1>3. CASE Ready(t)
  <2>1. SetExecuting(t) /\ Return(th, ExecutionTask(t, txn_status[t]))
    BY <1>3, Zenon DEF Incarnate
  <2>2. UNCHANGED <<indices, num_txns, vlock, txn_dependency, condvar>>
    BY Zenon DEF Incarnate
  <2> QED BY <1>1, <1>2, <1>3, <2>1, <2>2, Take, Zenon
<1>4. CASE ~Ready(t)
  <2>1. Goto(th, "next_task", Idle) /\ UNCHANGED <<indices, statuses, condvar>>
    BY <1>4, Zenon DEF Incarnate, statuses
  <2> QED BY <1>2, <2>1, QuietIs, LooksAgain, Zenon
<1> QED BY <1>3, <1>4, Zenon

LEMMA ReexecuteKeeps ==
  ASSUME SchedulerInv, NEW th \in Threads, Reexecute(th)
  PROVE  SchedulerInv'
<1> DEFINE t == task[th].txn
<1>1. t \in Txns
  BY KindAt, Zenon DEF Txn
<1>2. pc[th] \in {"incarnate", "reexecute"} /\ pc[th] # "wait" /\ Active(th)
  BY DEF Reexecute, Active
<1>3. CASE execution_idx > t /\ Ready(t)
  <2>1. SetExecuting(t) /\ Return(th, ExecutionTask(t, txn_status[t]))
    BY <1>3, Zenon DEF Reexecute
  <2>2. UNCHANGED <<indices, num_txns, vlock, txn_dependency, condvar>>
    BY Zenon DEF Reexecute
  <2> QED BY <1>1, <1>2, <1>3, <2>1, <2>2, Take, Zenon
<1>4. CASE ~(execution_idx > t /\ Ready(t))
  <2>1. Return(th, NoTask) /\ UNCHANGED <<indices, statuses, condvar>>
    BY <1>4, Zenon DEF Reexecute, statuses
  <2> QED BY <1>2, <2>1, QuietIs, ReturnsNoTask, Zenon
<1> QED BY <1>3, <1>4, Zenon

\* Nobody else owns what a thread executes.
LEMMA ExeAlone ==
  ASSUME SchedulerInv, NEW th \in Threads, Exe(th), NEW d \in Threads \ {th}, Txn(d) = Txn(th)
  PROVE  ~Exe(d) /\ ~Fin(d) /\ ~Abt(d) /\ (pc[th] # "wait" => Kind(d) # "Wakeup")
<1>1. Alone(th, d) /\ Alone(d, th) /\ WakeInv(d)
  BY Zenon DEF SchedulerInv, ThreadInv
<1>2. ~Exe(d) /\ ~Fin(d) /\ ~Abt(d)
  BY <1>1, Zenon DEF Alone, Exe, Fin
<1>3. ASSUME pc[th] # "wait", Kind(d) = "Wakeup" PROVE FALSE
  <2> DEFINE c == task[d].cv
  <2>1. c \in Threads /\ pc[c] = "wait" /\ Txn(c) = Txn(th)
    BY <1>1, <1>3, Zenon DEF WakeInv
  <2>2. "wait" \in Running
    BY DEF Running
  <2>3. Kind(c) = "Execute"
    BY <2>1, <2>2, KindAt, Zenon
  <2>4. Alone(th, c)
    BY <1>3, <2>1, Zenon DEF SchedulerInv
  <2> QED BY <2>1, <2>3, <2>4, Zenon DEF Alone, Exe
<1> QED BY <1>2, <1>3, Zenon

\* It is not committed either.
LEMMA ExeUncommitted ==
  ASSUME SchedulerInv, NEW th \in Threads, Kind(th) = "Execute" \/ Abt(th)
  PROVE  ~(Txn(th) < commit_state.idx)
BY KindAt, Zenon DEF SchedulerInv, CommitInv

\* What a step of the thread that executes t leaves of the others, whatever it does to t.
LEMMA ExeOthers ==
  ASSUME SchedulerInv, NEW th \in Threads, Exe(th), pc[th] # "wait", Moves(th),
         \A u \in Txns \ {Txn(th)} : txn_status'[u] = txn_status[u],
         \A u \in Txns \ {Txn(th)} : vlock'[u] = vlock[u],
         \A d \in Threads \ {th} : condvar'[d] = condvar[d]
  PROVE  \A d \in Threads \ {th} : OwnInv(d)' /\ WakeInv(d)'
<1> SUFFICES ASSUME NEW d \in Threads \ {th} PROVE OwnInv(d)' /\ WakeInv(d)'
  OBVIOUS
<1>1. Same(d)
  BY Zenon DEF Moves
<1>2. OwnInv(d)'
  <2>1. CASE Txn(d) # Txn(th)
    BY <2>1, OtherOwner, Zenon
  <2>2. CASE Txn(d) = Txn(th)
    <3>1. ~Exe(d) /\ ~Fin(d) /\ ~Abt(d)
      BY <2>2, ExeAlone, Zenon
    <3>2. ~Exe(d)' /\ ~Fin(d)' /\ ~Abt(d)'
      BY <1>1, <3>1, Zenon DEF Same, Exe, Fin, Abt, Kind
    <3> QED BY <3>2, Zenon DEF OwnInv
  <2> QED BY <2>1, <2>2, Zenon
<1>3. ASSUME Kind(d) = "Wakeup"
      PROVE  condvar'[task[d].cv] = condvar[task[d].cv] /\ txn_status'[Txn(d)].cv = NoThread
  <2>1. Txn(d) \in Txns /\ Txn(d) # Txn(th) /\ txn_status[Txn(d)].cv = NoThread
    BY <1>3, ExeAlone, KindAt, Owner, Zenon
  <2>2. task[d].cv \in Threads /\ pc[task[d].cv] = "wait"
    BY <1>3, Zenon DEF SchedulerInv, ThreadInv, WakeInv
  <2>3. task[d].cv # th
    BY <2>2, Zenon
  <2> QED BY <2>1, <2>2, <2>3, Zenon
<1> QED BY <1>2, <1>3, OtherWakeup, Zenon

\* A transaction that is suspended or executed by its own thread.
LEMMA OwnStatus ==
  ASSUME SchedulerInv, NEW th \in Threads, Exe(th), pc[th] # "wait"
  PROVE  /\ txn_status[Txn(th)] \in {Status("Executing", Inc(th)), Halted}
         /\ txn_status[Txn(th)].cv = NoThread
<1>1. txn_status[Txn(th)] \in {Status("Executing", Inc(th)), Halted}
  BY Zenon DEF SchedulerInv, ThreadInv, OwnInv
<1>2. Status("Executing", Inc(th)).cv = NoThread /\ Halted.cv = NoThread
  BY StatusIs, Zenon
<1> QED BY <1>1, <1>2, Zenon

LEMMA SuspendedIs ==
  ASSUME NEW s \in Statuses, NEW c \in Threads
  PROVE  LET new == [s EXCEPT !.st = "Suspended", !.cv = c]
         IN  new \in Statuses /\ new.st = "Suspended" /\ new.inc = s.inc /\ new.cv = c
BY DEF Statuses, States

LEMMA SetCondvar ==
  ASSUME SharedType, NEW c \in Threads, NEW v \in {"Resolved", "Unresolved", "ExecutionHalted"},
         condvar' = [condvar EXCEPT ![c] = v]
  PROVE  /\ condvar'[c] = v /\ \A d \in Threads \ {c} : condvar'[d] = condvar[d]
         /\ condvar' \in [Threads -> {"Resolved", "Unresolved", "ExecutionHalted"}]
BY DEF SharedType

LEMMA SetDependency ==
  ASSUME SharedType, NEW d \in Txns, NEW deps \in SUBSET Txns,
         txn_dependency' = [txn_dependency EXCEPT ![d] = deps], num_txns' = num_txns
  PROVE  /\ txn_dependency'[d] = deps /\ \A u \in Txns \ {d} : txn_dependency'[u] = txn_dependency[u]
         /\ txn_dependency' \in [Txns' -> SUBSET Txns']
BY DEF SharedType, Txns

\* The thread's own transaction is suspended.
Suspends(th, t, d) ==
  /\ txn_status' \in [Txns' -> Statuses] /\ txn_status'[t].st = "Suspended"
  /\ txn_status'[t].inc = txn_status[t].inc /\ txn_status'[t].cv = th
  /\ \A u \in Txns \ {t} : txn_status'[u] = txn_status[u]
  /\ txn_dependency' \in [Txns' -> SUBSET Txns'] /\ txn_dependency'[d] = txn_dependency[d] \cup {t}
  /\ \A u \in Txns \ {d} : txn_dependency'[u] = txn_dependency[u]
  /\ condvar'[th] = "Unresolved" /\ \A e \in Threads \ {th} : condvar'[e] = condvar[e]
  /\ condvar' \in [Threads -> {"Resolved", "Unresolved", "ExecutionHalted"}]

LEMMA SuspendKeeps ==
  ASSUME SchedulerInv, NEW th \in Threads, pc[th] = "dependency", NEW d \in Txns,
         NEW t \in Txns, t = Txn(th), txn_status[t] # Halted, Suspends(th, t, d),
         Goto(th, "wait", Idle), UNCHANGED <<indices, num_txns, vlock>>
  PROVE  SchedulerInv'
<1>1. Exe(th) /\ Kind(th) = "Execute" /\ pc[th] # "wait" /\ Inc(th) \in Nat
  BY KindAt DEF Exe, Running, Finishing
<1>2. txn_status[t] = Status("Executing", Inc(th))
  BY <1>1, OwnStatus, Zenon
<1>3. /\ txn_status'[t].st = "Suspended" /\ txn_status'[t].cv = th
      /\ txn_status' \in [Txns' -> Statuses]
      /\ \A u \in Txns \ {t} : txn_status'[u] = txn_status[u]
  BY Zenon DEF Suspends
<1>4. txn_status'[t].inc = Inc(th) /\ txn_status[t].st = "Executing"
  <2>1. Status("Executing", Inc(th)).inc = Inc(th) /\ Status("Executing", Inc(th)).st = "Executing"
    BY StatusIs, Zenon
  <2>2. txn_status'[t].inc = txn_status[t].inc
    BY Zenon DEF Suspends
  <2> QED BY <1>2, <2>1, <2>2, Zenon
<1>5. /\ txn_dependency' \in [Txns' -> SUBSET Txns'] /\ txn_dependency'[d] = txn_dependency[d] \cup {t}
      /\ \A u \in Txns \ {d} : txn_dependency'[u] = txn_dependency[u]
  BY Zenon DEF Suspends
<1>6. /\ condvar'[th] = "Unresolved" /\ \A e \in Threads \ {th} : condvar'[e] = condvar[e]
      /\ condvar' \in [Threads -> {"Resolved", "Unresolved", "ExecutionHalted"}]
  BY Zenon DEF Suspends
<1>7. SharedType'
  BY <1>3, <1>5, <1>6, Zenon DEF SchedulerInv, SharedType, indices, Txns, IsIndex
<1>8. Moves(th) /\ pc'[th] = "wait" /\ loc'[th] = Idle /\ task'[th] = task[th]
  BY GotoIs, Zenon DEF SchedulerInv
<1>9. IsTask(task[th])' /\ IsLocal(loc[th])' /\ Idle.todo = {}
  BY <1>8, IdleIs, Zenon DEF SchedulerInv, LocalType, IsTask, IsLocal, Txns
<1>10. "wait" \in Running /\ "wait" \in Pcs
  BY DEF Running, Pcs
<1>11. LocalType'
  BY <1>8, <1>9, <1>10, LocalsKept, Zenon DEF SchedulerInv
<1>12. /\ Kind(th)' = "Execute" /\ Txn(th)' = t /\ Inc(th)' = Inc(th)
       /\ Exe(th)' /\ ~Fin(th)' /\ ~Abt(th)'
  BY <1>1, <1>8, <1>10, Classes, Zenon DEF Kind, Txn, Inc, Exe, Fin, Abt
<1>13. ThreadInv(th)'
  <2>1. PcFits(pc[th], Kind(th))'
    BY <1>8, <1>10, <1>12, Fits, Zenon
  <2>2. OwnInv(th)'
    BY <1>3, <1>4, <1>6, <1>8, <1>12, Zenon DEF OwnInv
  <2>3. WakeInv(th)' /\ CallInv(th)'
    BY <1>8, <1>12 DEF WakeInv, CallInv
  <2> QED BY <2>1, <2>2, <2>3, Zenon DEF ThreadInv
<1>14. \A e \in Threads \ {th} : OwnInv(e)' /\ WakeInv(e)'
  BY <1>1, <1>3, <1>6, <1>8, ExeOthers, Zenon
<1>15. CvInv(t)'
  BY <1>3, <1>8, <1>12, SchedulerAssumption DEF CvInv
<1>16. CommitInv(t)'
  <2>1. ~(t < commit_state'.idx)
    BY <1>1, ExeUncommitted, Zenon DEF indices
  <2> QED BY <2>1, Zenon DEF CommitInv
<1>17. \A e \in Threads \ {th} : Alone(th, e)' /\ Alone(e, th)'
  BY <1>1, <1>8, <1>12, AloneKept, Zenon
<1>18. WaitInv'
  <2>1. ~Dependent(t)
    BY <1>4 DEF Dependent
  <2>2. /\ \A u \in Txns : t \notin txn_dependency[u]
        /\ \A e \in Threads : t \notin loc[e].todo
    BY <2>1, Zenon DEF SchedulerInv, WaitInv
  <2>3. \A u \in Txns : Dependent(u) => Dependent(u)'
    BY <1>3, <2>1, Zenon DEF Dependent
  <2>4. Dependent(t)'
    BY <1>3, Zenon DEF Dependent
  <2>5. \A e \in Threads : loc'[e].todo \subseteq loc[e].todo /\ loc[e].todo \subseteq Txns
    BY <1>8, <1>9, Zenon DEF Moves, Same, SchedulerInv, LocalType, IsLocal
  <2>6. \A u \in Txns : /\ txn_dependency[u] \subseteq Txns
                        /\ txn_dependency'[u] \subseteq txn_dependency[u] \cup {t}
                        /\ u # d => txn_dependency'[u] = txn_dependency[u]
    BY <1>5, Zenon DEF SchedulerInv, SharedType
  <2>7. Txns' = Txns
    BY Zenon DEF Txns
  <2>8. \A u \in Txns : \A v \in txn_dependency'[u] : Dependent(v)'
    <3> SUFFICES ASSUME NEW u \in Txns, NEW v \in txn_dependency'[u] PROVE Dependent(v)'
      OBVIOUS
    <3>1. CASE v = t
      BY <2>4, <3>1, Zenon
    <3>2. CASE v # t
      <4>1. v \in txn_dependency[u] /\ v \in Txns
        BY <2>6, <3>2, Zenon
      <4> QED BY <2>3, <4>1, Zenon DEF SchedulerInv, WaitInv
    <3> QED BY <3>1, <3>2, Zenon
  <2>9. \A e \in Threads : \A v \in loc'[e].todo : Dependent(v)'
    BY <2>3, <2>5, Zenon DEF SchedulerInv, WaitInv
  <2>10. \A e \in Threads : \A f \in Threads \ {e} : loc'[e].todo \cap loc'[f].todo = {}
    BY <2>5, Zenon DEF SchedulerInv, WaitInv
  <2>11. \A e \in Threads : \A u \in Txns : loc'[e].todo \cap txn_dependency'[u] = {}
    <3> SUFFICES ASSUME NEW e \in Threads, NEW u \in Txns, NEW v \in loc'[e].todo, v \in txn_dependency'[u]
                 PROVE  FALSE
      BY Zenon
    <3>1. v \in loc[e].todo /\ v # t
      BY <2>2, <2>5, Zenon
    <3>2. v \in txn_dependency[u]
      BY <2>6, <3>1, Zenon
    <3> QED BY <3>1, <3>2, Zenon DEF SchedulerInv, WaitInv
  <2>12. \A u \in Txns : \A v \in Txns \ {u} : txn_dependency'[u] \cap txn_dependency'[v] = {}
    <3> SUFFICES ASSUME NEW u \in Txns, NEW v \in Txns \ {u}, NEW w \in txn_dependency'[u], w \in txn_dependency'[v]
                 PROVE  FALSE
      BY Zenon
    <3>1. w \in txn_dependency[u] \/ w \in txn_dependency[v]
      BY <2>6, Zenon
    <3>2. w # t
      BY <2>2, <3>1, Zenon
    <3>3. w \in txn_dependency[u] /\ w \in txn_dependency[v]
      BY <2>6, <3>2, Zenon
    <3> QED BY <3>3, Zenon DEF SchedulerInv, WaitInv
  <2> QED BY <2>7, <2>8, <2>9, <2>10, <2>11, <2>12, Zenon DEF WaitInv
<1>19. CoordinatorInv'
  BY <1>8, SchedulerAssumption DEF SchedulerInv, CoordinatorInv, Moves, Same, Kind, indices
<1>20. commit_state' = commit_state
  BY Zenon DEF indices
<1> QED BY <1>1, <1>3, <1>7, <1>8, <1>11, <1>12, <1>13, <1>14, <1>15, <1>16, <1>17, <1>18, <1>19, <1>20,
           StatusStep, Zenon

LEMMA WaitForDependencyKeeps ==
  ASSUME SchedulerInv, NEW th \in Threads, WaitForDependency(th)
  PROVE  SchedulerInv'
<1> DEFINE d == loc[th].idx
           suspended == ~is_executed(d) /\ txn_status[Txn(th)] # Halted
<1>1. d \in Txns /\ Txn(th) \in Txns /\ pc[th] = "dependency"
  BY KindAt, Zenon DEF IsLocal, WaitForDependency
<1>2. UNCHANGED <<indices, num_txns, validation, vlock>>
  BY Zenon DEF WaitForDependency
<1>3. CASE suspended
  <2> DEFINE new == [txn_status[Txn(th)] EXCEPT !.st = "Suspended", !.cv = th]
  <2>1. /\ txn_status' = [txn_status EXCEPT ![Txn(th)] = new]
        /\ txn_dependency' = [txn_dependency EXCEPT ![d] = @ \cup {Txn(th)}]
        /\ condvar' = [condvar EXCEPT ![th] = "Unresolved"]
        /\ Goto(th, "wait", Idle)
    BY <1>3 DEF WaitForDependency, Txn
  <2>2. txn_status[Txn(th)] \in Statuses
    BY <1>1 DEF SchedulerInv, SharedType
  <2>3. new \in Statuses /\ new.st = "Suspended" /\ new.inc = txn_status[Txn(th)].inc /\ new.cv = th
    BY <2>2, SuspendedIs, Zenon
  <2> HIDE DEF new
  <2>4. txn_dependency[d] \cup {Txn(th)} \in SUBSET Txns
    BY <1>1 DEF SchedulerInv, SharedType
  <2>5. /\ txn_status'[Txn(th)] = new /\ txn_status' \in [Txns' -> Statuses]
        /\ \A u \in Txns \ {Txn(th)} : txn_status'[u] = txn_status[u]
    BY <1>1, <1>2, <2>1, <2>3, SetStatus, Zenon DEF SchedulerInv
  <2>6. /\ txn_dependency'[d] = txn_dependency[d] \cup {Txn(th)}
        /\ \A u \in Txns \ {d} : txn_dependency'[u] = txn_dependency[u]
        /\ txn_dependency' \in [Txns' -> SUBSET Txns']
    <3> DEFINE deps == txn_dependency[d] \cup {Txn(th)}
    <3>1. txn_dependency' = [txn_dependency EXCEPT ![d] = deps] /\ num_txns' = num_txns
      BY <1>2, <2>1, Zenon
    <3>2. SharedType /\ deps \in SUBSET Txns
      BY <2>4, Zenon DEF SchedulerInv
    <3> HIDE DEF deps
    <3>3. /\ txn_dependency'[d] = deps
          /\ \A u \in Txns \ {d} : txn_dependency'[u] = txn_dependency[u]
          /\ txn_dependency' \in [Txns' -> SUBSET Txns']
      BY <1>1, <3>1, <3>2, SetDependency, Zenon
    <3> QED BY <3>3, Zenon DEF deps
  <2>7. /\ condvar'[th] = "Unresolved" /\ \A e \in Threads \ {th} : condvar'[e] = condvar[e]
        /\ condvar' \in [Threads -> {"Resolved", "Unresolved", "ExecutionHalted"}]
    BY <2>1, SetCondvar, Zenon DEF SchedulerInv
  <2>8. Suspends(th, Txn(th), d)
    BY <2>3, <2>5, <2>6, <2>7, Zenon DEF Suspends
  <2> QED BY <1>1, <1>2, <1>3, <2>1, <2>8, SuspendKeeps, Zenon
<1>4. CASE ~suspended
  <2>1. UNCHANGED <<indices, statuses, condvar>>
    BY <1>2, <1>4, Zenon DEF WaitForDependency, statuses, Txn
  <2>2. PICK p \in {"read", "vm_halted"} : Goto(th, p, Idle)
    BY <1>4 DEF WaitForDependency, Txn
  <2>3. p \in Running /\ pc[th] \in Running /\ pc[th] # "wait"
    BY <1>1 DEF Running
  <2>4. IsLocal(Idle) /\ Idle.todo \subseteq loc[th].todo
    BY IdleIs, Zenon DEF SchedulerInv
  <2> QED BY <2>1, <2>2, <2>3, <2>4, QuietIs, ExecutionGoesOn, Zenon
<1> QED BY <1>3, <1>4, Zenon

LEMMA SetLock ==
  ASSUME SharedType, NEW t \in Txns, NEW c \in Threads, vlock' = [vlock EXCEPT ![t] = c],
         num_txns' = num_txns
  PROVE  /\ vlock'[t] = c /\ \A u \in Txns \ {t} : vlock'[u] = vlock[u]
         /\ vlock' \in [Txns' -> Threads \cup {NoThread}]
BY DEF SharedType, Txns

LEMMA LocalTodo ==
  ASSUME NEW l, IsLocal(l), NEW D \in SUBSET Txns
  PROVE  /\ IsLocal([l EXCEPT !.todo = D, !.deps = D]) /\ [l EXCEPT !.todo = D, !.deps = D].todo = D
         /\ IsLocal([l EXCEPT !.todo = D]) /\ [l EXCEPT !.todo = D].todo = D
BY DEF IsLocal

\* finish_execution starts: the thread's own transaction is executed, and its dependents taken.
Executes(th, t) ==
  /\ txn_status' \in [Txns' -> Statuses]
  /\ txn_status'[t] \in {Status("Executed", Inc(th)), Halted}
  /\ txn_status[t] = Halted => txn_status'[t] = Halted
  /\ \A u \in Txns \ {t} : txn_status'[u] = txn_status[u]
  /\ vlock'[t] = th /\ \A u \in Txns \ {t} : vlock'[u] = vlock[u]
  /\ vlock' \in [Txns' -> Threads \cup {NoThread}]
  /\ txn_dependency'[t] = {} /\ \A u \in Txns \ {t} : txn_dependency'[u] = txn_dependency[u]
  /\ txn_dependency' \in [Txns' -> SUBSET Txns']

LEMMA ExecutesKeeps ==
  ASSUME SchedulerInv, NEW th \in Threads, pc[th] = "executed", NEW t \in Txns, t = Txn(th),
         Executes(th, t), NEW l, Goto(th, "resume", l), IsLocal(l), l.todo = txn_dependency[t],
         UNCHANGED <<indices, num_txns, condvar>>
  PROVE  SchedulerInv'
<1>1. Exe(th) /\ Kind(th) = "Execute" /\ pc[th] # "wait" /\ Inc(th) \in Nat
  BY KindAt DEF Exe, Running, Finishing
<1>2. /\ txn_status' \in [Txns' -> Statuses] /\ vlock' \in [Txns' -> Threads \cup {NoThread}]
      /\ txn_dependency' \in [Txns' -> SUBSET Txns']
      /\ \A u \in Txns \ {t} : txn_status'[u] = txn_status[u]
      /\ \A u \in Txns \ {t} : vlock'[u] = vlock[u]
  BY Zenon DEF Executes
<1>3. /\ txn_status'[t].cv = NoThread /\ txn_status'[t].st # "Suspended"
      /\ txn_status'[t].st = "ExecutionHalted" => txn_status'[t] = Halted
  <2>1. /\ Status("Executed", Inc(th)).cv = NoThread /\ Status("Executed", Inc(th)).st = "Executed"
        /\ Halted.cv = NoThread /\ Halted.st = "ExecutionHalted"
    BY StatusIs, Zenon
  <2>2. txn_status'[t] \in {Status("Executed", Inc(th)), Halted}
    BY Zenon DEF Executes
  <2> QED BY <2>1, <2>2
<1>4. SharedType'
  BY <1>2, Zenon DEF SchedulerInv, SharedType, indices, Txns, IsIndex
<1>5. Moves(th) /\ pc'[th] = "resume" /\ loc'[th] = l /\ task'[th] = task[th]
  BY GotoIs, Zenon DEF SchedulerInv
<1>6. IsTask(task[th])' /\ IsLocal(loc[th])'
  BY <1>5, Zenon DEF SchedulerInv, LocalType, IsTask, IsLocal, Txns
<1>7. "resume" \in Finishing /\ "resume" \in Pcs /\ Plain("resume") /\ "resume" # "wait"
  BY DEF Finishing, Pcs, Plain
<1>8. LocalType'
  BY <1>5, <1>6, <1>7, LocalsKept, Zenon DEF SchedulerInv
<1>9. /\ Kind(th)' = "Execute" /\ Txn(th)' = t /\ Inc(th)' = Inc(th)
      /\ ~Exe(th)' /\ Fin(th)' /\ ~Abt(th)'
  BY <1>1, <1>5, <1>7, Classes, Zenon DEF Kind, Txn, Inc, Exe, Fin, Abt
<1>10. ThreadInv(th)'
  <2>1. PcFits(pc[th], Kind(th))'
    BY <1>5, <1>7, <1>9, Fits, Zenon
  <2>2. OwnInv(th)'
    BY <1>9, Zenon DEF OwnInv, Executes
  <2>3. WakeInv(th)' /\ CallInv(th)'
    BY <1>5, <1>9 DEF WakeInv, CallInv
  <2> QED BY <2>1, <2>2, <2>3, Zenon DEF ThreadInv
<1>11. \A e \in Threads \ {th} : OwnInv(e)' /\ WakeInv(e)'
  BY <1>1, <1>2, <1>5, ExeOthers, Zenon
<1>12. CvInv(t)'
  BY <1>3, Zenon DEF CvInv
<1>13. CommitInv(t)'
  <2>1. ~(t < commit_state'.idx)
    BY <1>1, ExeUncommitted, Zenon DEF indices
  <2> QED BY <2>1, Zenon DEF CommitInv
<1>14. \A e \in Threads \ {th} : Alone(th, e)' /\ Alone(e, th)'
  BY <1>1, <1>5, <1>9, AloneKept, Zenon
<1>15. WaitInv'
  <2>1. \A u \in Txns : Dependent(u) => Dependent(u)'
    <3>1. Dependent(t) => Dependent(t)'
      <4>1. txn_status[t] \in {Status("Executing", Inc(th)), Halted}
        BY <1>1, OwnStatus, Zenon
      <4>2. Status("Executing", Inc(th)).st = "Executing" /\ Halted.st = "ExecutionHalted"
        BY StatusIs, Zenon
      <4>3. Dependent(t) => txn_status[t] = Halted
        BY <4>1, <4>2 DEF Dependent
      <4> QED BY <4>2, <4>3, Zenon DEF Dependent, Executes
    <3> QED BY <1>2, <3>1, Zenon DEF Dependent
  <2>2. \A u \in Txns : /\ txn_dependency[u] \subseteq Txns
                        /\ txn_dependency'[u] \subseteq txn_dependency[u]
                        /\ txn_dependency'[t] = {}
    BY Zenon DEF SchedulerInv, SharedType, Executes
  <2>3. \A e \in Threads \ {th} : loc'[e].todo = loc[e].todo
    BY <1>5, Zenon DEF Moves, Same
  <2>4. loc'[th].todo = txn_dependency[t]
    BY <1>5, Zenon
  <2>5. \A e \in Threads : loc[e].todo \subseteq Txns
    BY Zenon DEF SchedulerInv, LocalType, IsLocal
  <2>6. Txns' = Txns
    BY Zenon DEF Txns
  <2>7. \A u \in Txns : \A v \in txn_dependency'[u] : Dependent(v)'
    BY <2>1, <2>2, Zenon DEF SchedulerInv, WaitInv
  <2>8. \A e \in Threads : \A v \in loc'[e].todo : Dependent(v)'
    <3> SUFFICES ASSUME NEW e \in Threads, NEW v \in loc'[e].todo PROVE Dependent(v)'
      OBVIOUS
    <3>1. Dependent(v) /\ v \in Txns
      BY <2>2, <2>3, <2>4, <2>5, Zenon DEF SchedulerInv, WaitInv
    <3> QED BY <2>1, <3>1, Zenon
  <2>9. \A e \in Threads : \A f \in Threads \ {e} : loc'[e].todo \cap loc'[f].todo = {}
    <3> SUFFICES ASSUME NEW e \in Threads, NEW f \in Threads \ {e} PROVE loc'[e].todo \cap loc'[f].todo = {}
      OBVIOUS
    <3>1. CASE e = th
      BY <2>3, <2>4, <3>1, Zenon DEF SchedulerInv, WaitInv
    <3>2. CASE f = th
      BY <2>3, <2>4, <3>2, Zenon DEF SchedulerInv, WaitInv
    <3>3. CASE e # th /\ f # th
      BY <2>3, <3>3, Zenon DEF SchedulerInv, WaitInv
    <3> QED BY <3>1, <3>2, <3>3, Zenon
  <2>10. \A e \in Threads : \A u \in Txns : loc'[e].todo \cap txn_dependency'[u] = {}
    <3> SUFFICES ASSUME NEW e \in Threads, NEW u \in Txns PROVE loc'[e].todo \cap txn_dependency'[u] = {}
      OBVIOUS
    <3>1. CASE e = th
      <4>1. CASE u = t
        BY <2>2, <4>1, Zenon
      <4>2. CASE u # t
        BY <2>2, <2>4, <3>1, <4>2, Zenon DEF SchedulerInv, WaitInv
      <4> QED BY <4>1, <4>2, Zenon
    <3>2. CASE e # th
      BY <2>2, <2>3, <3>2, Zenon DEF SchedulerInv, WaitInv
    <3> QED BY <3>1, <3>2, Zenon
  <2>11. \A u \in Txns : \A v \in Txns \ {u} : txn_dependency'[u] \cap txn_dependency'[v] = {}
    BY <2>2, Zenon DEF SchedulerInv, WaitInv
  <2> QED BY <2>6, <2>7, <2>8, <2>9, <2>10, <2>11, Zenon DEF WaitInv
<1>16. CoordinatorInv'
  BY <1>5, SchedulerAssumption DEF SchedulerInv, CoordinatorInv, Moves, Same, Kind, indices
<1>17. commit_state' = commit_state
  BY Zenon DEF indices
<1> QED BY <1>1, <1>2, <1>4, <1>5, <1>8, <1>9, <1>10, <1>11, <1>12, <1>13, <1>14, <1>15, <1>16, <1>17,
           StatusStep, Zenon

LEMMA UnhaltedIs ==
  ASSUME NEW t, NEW s
  PROVE  /\ Unhalted(t, s) \in {s, Halted} /\ (txn_status[t] = Halted => Unhalted(t, s) = Halted)
         /\ txn_status[t] # Halted => Unhalted(t, s) = s
BY DEF Unhalted

LEMMA SetExecutedKeeps ==
  ASSUME SchedulerInv, NEW th \in Threads, SetExecuted(th)
  PROVE  SchedulerInv'
<1> DEFINE new == Unhalted(Txn(th), Status("Executed", Inc(th)))
           deps == txn_dependency[Txn(th)]
           l == [loc[th] EXCEPT !.todo = deps, !.deps = deps]
<1>1. Txn(th) \in Txns /\ pc[th] = "executed" /\ Inc(th) \in Nat /\ IsLocal(loc[th])
  BY KindAt, Zenon DEF SetExecuted
<1>2. /\ vlock' = [vlock EXCEPT ![Txn(th)] = th] /\ txn_status' = [txn_status EXCEPT ![Txn(th)] = new]
      /\ txn_dependency' = [txn_dependency EXCEPT ![Txn(th)] = {}] /\ Goto(th, "resume", l)
  BY Zenon DEF SetExecuted, Txn, Inc
<1>3. UNCHANGED <<indices, num_txns, condvar>>
  BY Zenon DEF SetExecuted
<1>4. deps \in SUBSET Txns /\ {} \in SUBSET Txns
  BY <1>1 DEF SchedulerInv, SharedType
<1> HIDE DEF deps
<1>5. IsLocal(l) /\ l.todo = deps
  BY <1>1, <1>4, LocalTodo, Zenon
<1>6. /\ new \in {Status("Executed", Inc(th)), Halted}
      /\ txn_status[Txn(th)] = Halted => new = Halted
  BY UnhaltedIs, Zenon
<1>7. "Executed" \in States
  BY DEF States
<1>8. new \in Statuses
  BY <1>1, <1>6, <1>7, IsStatus, HaltedIsStatus, Zenon
<1> HIDE DEF new, l
<1>9. /\ txn_status'[Txn(th)] = new /\ txn_status' \in [Txns' -> Statuses]
      /\ \A u \in Txns \ {Txn(th)} : txn_status'[u] = txn_status[u]
  BY <1>1, <1>2, <1>3, <1>8, SetStatus, Zenon DEF SchedulerInv
<1>10. /\ txn_dependency'[Txn(th)] = {} /\ txn_dependency' \in [Txns' -> SUBSET Txns']
       /\ \A u \in Txns \ {Txn(th)} : txn_dependency'[u] = txn_dependency[u]
  BY <1>1, <1>2, <1>3, <1>4, SetDependency, Zenon DEF SchedulerInv
<1>11. /\ vlock'[Txn(th)] = th /\ \A u \in Txns \ {Txn(th)} : vlock'[u] = vlock[u]
       /\ vlock' \in [Txns' -> Threads \cup {NoThread}]
  BY <1>1, <1>2, <1>3, SetLock, Zenon DEF SchedulerInv
<1>12. Executes(th, Txn(th))
  BY <1>6, <1>9, <1>10, <1>11, Zenon DEF Executes
<1>13. l.todo = txn_dependency[Txn(th)]
  BY <1>5, Zenon DEF deps
<1> QED BY <1>1, <1>2, <1>3, <1>5, <1>12, <1>13, ExecutesKeeps, Zenon

\* A Wakeup task is done once, by one thread.
LEMMA WakesKeeps ==
  ASSUME SchedulerInv, NEW th \in Threads, pc[th] = "run", Kind(th) = "Wakeup",
         NEW t \in Txns, t = Txn(th), NEW c \in Threads, c = task[th].cv,
         condvar'[c] = "Resolved", \A d \in Threads \ {c} : condvar'[d] = condvar[d],
         condvar' \in [Threads -> {"Resolved", "Unresolved", "ExecutionHalted"}],
         Return(th, NoTask), UNCHANGED <<indices, statuses>>
  PROVE  SchedulerInv'
<1>1. /\ pc[c] = "wait" /\ Txn(c) = t /\ condvar[c] = "Unresolved"
      /\ txn_status[t].cv = NoThread /\ c # th /\ pc[th] # "wait"
  BY Zenon DEF SchedulerInv, ThreadInv, WakeInv
<1>2. Exe(c) /\ ~Fin(c) /\ ~Abt(c)
  BY <1>1, KindAt DEF Exe, Fin, Abt, Finishing, Running, Marking
<1>3. SharedType' /\ num_txns' = num_txns /\ commit_state' = commit_state
  BY Zenon DEF SchedulerInv, SharedType, indices, statuses, Txns, IsIndex
<1>4. Moves(th) /\ pc'[th] = Top(th) /\ loc'[th] = Idle /\ task'[th] = NoTask
  BY ReturnIs, Zenon DEF SchedulerInv
<1>5. IsTask(NoTask) /\ NoTask.kind = "NoTask" /\ IsLocal(Idle) /\ Idle.todo = {}
  BY NoTaskIs, IdleIs, Zenon DEF SchedulerInv
<1>6. Top(th) \in Waiting /\ Top(th) \in Pcs /\ "NoTask" \in Kinds
  BY TopIs DEF Waiting, Pcs, Kinds
<1>7. LocalType'
  BY <1>3, <1>4, <1>5, <1>6, LocalsKept, Zenon DEF SchedulerInv, IsTask, IsLocal, Txns
<1>8. Kind(th)' = "NoTask" /\ ~Exe(th)' /\ ~Fin(th)' /\ ~Abt(th)'
  BY <1>4, <1>5, <1>6, Classes, Zenon DEF Kind, Exe, Fin, Abt
<1>9. ThreadInv(th)'
  <2>1. PcFits(pc[th], Kind(th))'
    BY <1>4, <1>6, <1>8, Fits, Zenon
  <2>2. OwnInv(th)' /\ WakeInv(th)'
    BY <1>8, Zenon DEF OwnInv, WakeInv
  <2>3. CallInv(th)'
    BY <1>4, TopIs DEF CallInv
  <2> QED BY <2>1, <2>2, <2>3, Zenon DEF ThreadInv
<1>10. txn_status' = txn_status /\ vlock' = vlock /\ txn_dependency' = txn_dependency
  BY Zenon DEF statuses
<1>11. \A d \in Threads \ {th} : OwnInv(d)' /\ WakeInv(d)'
  <2> SUFFICES ASSUME NEW d \in Threads \ {th} PROVE OwnInv(d)' /\ WakeInv(d)'
    OBVIOUS
  <2>1. Same(d) /\ OwnInv(d) /\ WakeInv(d)
    BY <1>4, Zenon DEF Moves, SchedulerInv, ThreadInv
  <2>2. ASSUME Kind(d) = "Wakeup"
        PROVE  condvar'[task[d].cv] = condvar[task[d].cv] /\ txn_status'[Txn(d)].cv = NoThread
    <3>1. Alone(th, d) /\ task[d].cv \in Threads /\ Txn(task[d].cv) = Txn(d) /\ txn_status[Txn(d)].cv = NoThread
      BY <2>1, <2>2, Zenon DEF SchedulerInv, WakeInv
    <3>2. task[d].cv # c
      BY <1>1, <2>2, <3>1, Zenon DEF Alone
    <3> QED BY <1>10, <3>1, <3>2, Zenon
  <2>3. OwnInv(d)'
    <3>1. CASE d = c
      <4>1. txn_status[t] \in {Status("Executing", Inc(c)), Halted}
        <5>1. c # NoThread
          BY SchedulerAssumption, Zenon
        <5> QED BY <1>1, <1>2, <2>1, <3>1, <5>1, Zenon DEF OwnInv
      <4>2. Exe(d)' /\ ~Fin(d)' /\ ~Abt(d)' /\ Txn(d)' = t /\ Inc(d)' = Inc(d)
        BY <1>1, <1>2, <2>1, <3>1, Zenon DEF Same, Exe, Fin, Abt, Kind, Txn, Inc
      <4> QED BY <1>10, <3>1, <4>1, <4>2, Zenon DEF OwnInv
    <3>2. CASE d # c
      BY <1>10, <2>1, <3>2, OwnKept, Zenon
    <3> QED BY <3>1, <3>2, Zenon
  <2> QED BY <1>1, <1>4, <2>2, <2>3, OtherWakeup, Zenon
<1>12. CvInv(t)'
  <2>1. CvInv(t)
    BY Zenon DEF SchedulerInv
  <2> QED BY <1>1, <1>10, <2>1, Zenon DEF CvInv
<1>13. CommitInv(t)'
  <2>1. ~(t < commit_state'.idx)
    BY <1>1, <1>2, <1>3, ExeUncommitted, Zenon DEF Exe
  <2> QED BY <2>1, Zenon DEF CommitInv
<1>14. \A d \in Threads \ {th} : Alone(th, d)' /\ Alone(d, th)'
  BY <1>4, <1>8, AloneKept, Zenon
<1>15. WaitInv'
  BY <1>3, <1>4, <1>5, <1>10, WaitKept, Zenon DEF Dependent
<1>16. CoordinatorInv'
  BY <1>3, <1>4, SchedulerAssumption DEF SchedulerInv, CoordinatorInv, Moves, Same, Kind
<1> QED BY <1>1, <1>3, <1>4, <1>7, <1>8, <1>9, <1>10, <1>11, <1>12, <1>13, <1>14, <1>15, <1>16,
           StatusStep, Zenon

LEMMA WakeupKeeps ==
  ASSUME SchedulerInv, NEW th \in Threads, Wakeup(th)
  PROVE  SchedulerInv'
<1> DEFINE c == task[th].cv
<1>1. pc[th] = "run" /\ Kind(th) = "Wakeup" /\ Return(th, NoTask) /\ UNCHANGED <<indices, statuses>>
  BY Zenon DEF Wakeup, Kind
<1>2. condvar' = [condvar EXCEPT ![c] = "Resolved"] /\ Txn(th) \in Txns
  BY KindAt, Zenon DEF Wakeup
<1>3. c \in Threads
  BY <1>1, Zenon DEF SchedulerInv, ThreadInv, WakeInv
<1>4. /\ condvar'[c] = "Resolved" /\ \A d \in Threads \ {c} : condvar'[d] = condvar[d]
      /\ condvar' \in [Threads -> {"Resolved", "Unresolved", "ExecutionHalted"}]
  BY <1>2, <1>3, SetCondvar, Zenon DEF SchedulerInv
<1> QED BY <1>1, <1>2, <1>3, <1>4, WakesKeeps, Zenon

\* A dependent is resumed, unless the scheduler has been halted.
Resumes(d) ==
  /\ txn_status' \in [Txns' -> Statuses] /\ \A u \in Txns \ {d} : txn_status'[u] = txn_status[u]
  /\ txn_status'[d].cv = txn_status[d].cv /\ txn_status'[d].inc = txn_status[d].inc
  /\ \/ txn_status'[d] = txn_status[d]
     \/ txn_status[d].st = "Suspended" /\ txn_status'[d].st = "Ready"

LEMMA ResumesKeeps ==
  ASSUME SchedulerInv, NEW th \in Threads, pc[th] = "resume", NEW d \in Txns, d \in loc[th].todo,
         Resumes(d), NEW l, Goto(th, "resume", l), IsLocal(l), l.todo = loc[th].todo \ {d},
         UNCHANGED <<indices, num_txns, vlock, txn_dependency, condvar>>
  PROVE  SchedulerInv'
<1>1. Fin(th) /\ ~Exe(th) /\ ~Abt(th) /\ Kind(th) = "Execute" /\ pc[th] # "wait"
  BY KindAt DEF Exe, Fin, Abt, Finishing, Marking
<1>2. /\ txn_status' \in [Txns' -> Statuses]
      /\ \A u \in Txns \ {d} : txn_status'[u] = txn_status[u]
      /\ txn_status'[d].cv = txn_status[d].cv /\ txn_status'[d].inc = txn_status[d].inc
  BY Zenon DEF Resumes
<1>3. CASE txn_status'[d] = txn_status[d]
  <2>1. \A u \in Txns : txn_status'[u] = txn_status[u]
    BY <1>2, <1>3, Zenon
  <2>2. txn_status' = txn_status
    <3>1. txn_status \in [Txns -> Statuses] /\ Txns' = Txns
      BY Zenon DEF SchedulerInv, SharedType, Txns
    <3>2. txn_status' \in [Txns -> Statuses]
      BY <1>2, <3>1, Zenon
    <3> QED BY <2>1, <3>1, <3>2
  <2>3. Moves(th) /\ pc'[th] = "resume" /\ loc'[th] = l /\ task'[th] = task[th]
    BY GotoIs, Zenon DEF SchedulerInv
  <2>4. SharedType'
    BY <1>2, Zenon DEF SchedulerInv, SharedType, CoordinatorInv, indices, Txns, IsIndex
  <2>5. IsTask(task[th])' /\ IsLocal(loc[th])' /\ loc'[th].todo \subseteq loc[th].todo
    BY <2>3, Zenon DEF SchedulerInv, LocalType, IsTask, IsLocal, Txns
  <2>6. PcFits(pc[th], Kind(th))' /\ Exe(th)' = Exe(th) /\ Fin(th)' = Fin(th) /\ Abt(th)' = Abt(th)
    BY <2>3, Zenon DEF SchedulerInv, ThreadInv, PcFits, Kind, Exe, Fin, Abt
  <2>7. CallInv(th)' /\ Active(th) /\ "resume" \in Pcs
    BY <2>3 DEF CallInv, Active, Pcs, Finishing
  <2> QED BY <1>1, <2>2, <2>3, <2>4, <2>5, <2>6, <2>7, Move, Zenon DEF indices
<1>4. CASE txn_status'[d] # txn_status[d]
  <2>1. txn_status[d].st = "Suspended" /\ txn_status'[d].st = "Ready"
    BY <1>4, Zenon DEF Resumes
  <2>2. SharedType' /\ commit_state' = commit_state
    BY <1>2, Zenon DEF SchedulerInv, SharedType, indices, Txns, IsIndex
  <2>3. Moves(th) /\ pc'[th] = "resume" /\ loc'[th] = l /\ task'[th] = task[th]
    BY GotoIs, Zenon DEF SchedulerInv
  <2>4. "resume" \in Finishing /\ "resume" \in Pcs
    BY DEF Finishing, Pcs
  <2>5. LocalType'
    BY <2>3, <2>4, LocalsKept, Zenon DEF SchedulerInv, LocalType, IsTask, IsLocal, Txns
  <2>6. /\ Kind(th)' = "Execute" /\ Txn(th)' = Txn(th) /\ Inc(th)' = Inc(th)
        /\ ~Exe(th)' /\ Fin(th)' /\ ~Abt(th)'
    BY <1>1, <2>3, <2>4, Classes, Zenon DEF Kind, Txn, Inc, Exe, Fin, Abt
  <2>7. ASSUME NEW e \in Threads, Txn(e) = d
        PROVE  ~Fin(e) /\ ~Abt(e) /\ Kind(e) # "Wakeup" /\ (Exe(e) => txn_status[d].cv = e)
    BY <2>1, <2>7, Owner
  <2>8. Txn(th) \in Txns \ {d}
    BY <1>1, <2>7, KindAt, Zenon
  <2>9. ThreadInv(th)'
    <3>1. PcFits(pc[th], Kind(th))'
      BY <2>3, <2>4, <2>6, Fits, Zenon
    <3>2. OwnInv(th)
      BY Zenon DEF SchedulerInv, ThreadInv
    <3>3. OwnInv(th)'
      BY <1>1, <1>2, <2>6, <2>8, <3>2, Zenon DEF OwnInv
    <3>4. WakeInv(th)' /\ CallInv(th)'
      BY <2>3, <2>6 DEF WakeInv, CallInv
    <3> QED BY <3>1, <3>3, <3>4, Zenon DEF ThreadInv
  <2>10. \A e \in Threads \ {th} : OwnInv(e)' /\ WakeInv(e)'
    <3> SUFFICES ASSUME NEW e \in Threads \ {th} PROVE OwnInv(e)' /\ WakeInv(e)'
      OBVIOUS
    <3>1. Same(e) /\ OwnInv(e)
      BY <2>3, Zenon DEF Moves, SchedulerInv, ThreadInv
    <3>2. OwnInv(e)'
      <4>1. CASE Txn(e) # d
        BY <1>2, <2>3, <4>1, OtherOwner, Zenon
      <4>2. CASE Txn(e) = d
        <5>1. ~Fin(e)' /\ ~Abt(e)' /\ Exe(e)' = Exe(e) /\ Txn(e)' = d /\ Inc(e)' = Inc(e) /\ pc'[e] = pc[e]
          BY <2>7, <3>1, <4>2, Zenon DEF Same, Exe, Fin, Abt, Kind, Txn, Inc
        <5>2. ASSUME Exe(e)
              PROVE  /\ pc[e] = "wait" /\ condvar[e] = "Unresolved"
                     /\ txn_status[d].cv = e /\ txn_status[d].inc = Inc(e)
          <6>1. txn_status[d].cv = e /\ e # NoThread
            BY <2>7, <4>2, <5>2, SchedulerAssumption, Zenon
          <6> QED BY <6>1, CvWaits, Zenon
        <5> QED BY <1>2, <2>1, <5>1, <5>2, Zenon DEF OwnInv
      <4> QED BY <4>1, <4>2, Zenon
    <3>3. Kind(e) = "Wakeup" => txn_status'[Txn(e)].cv = NoThread
      <4>1. Txn(e) \in Txns /\ (Kind(e) = "Wakeup" => txn_status[Txn(e)].cv = NoThread)
        BY KindAt, Owner, Zenon
      <4> QED BY <1>2, <2>7, <4>1, Zenon
    <3> QED BY <1>1, <2>3, <3>2, <3>3, OtherWakeup, Zenon
  <2>11. CvInv(d)'
    <3>1. txn_status[d].cv # NoThread => Same(txn_status[d].cv)
      BY <1>1, <2>3, CvWaits, Zenon DEF Moves
    <3>2. CvInv(d) /\ "Ready" # "Suspended" /\ "Ready" # "ExecutionHalted"
      BY DEF SchedulerInv
    <3> QED BY <1>2, <2>1, <3>1, <3>2, Zenon DEF CvInv, Same, Txn
  <2>12. CommitInv(d)'
    <3>1. CommitInv(d)
      BY Zenon DEF SchedulerInv
    <3>2. ~(d < commit_state.idx)
      BY <2>1, <3>1 DEF CommitInv
    <3> QED BY <2>2, <3>2, Zenon DEF CommitInv
  <2>13. \A e \in Threads \ {th} : Alone(th, e)' /\ Alone(e, th)'
    BY <2>3, <2>6, AloneKept, Zenon
  <2>14. WaitInv'
    <3>1. \A u \in Txns : u # d => (Dependent(u) => Dependent(u)')
      BY <1>2, Zenon DEF Dependent
    <3>2. \A e \in Threads : loc'[e].todo \subseteq loc[e].todo /\ loc[e].todo \subseteq Txns
      BY <2>3, Zenon DEF Moves, Same, SchedulerInv, LocalType, IsLocal
    <3>3. \A u \in Txns : txn_dependency[u] \subseteq Txns /\ d \notin txn_dependency[u]
      BY Zenon DEF SchedulerInv, SharedType, WaitInv
    <3>4. \A e \in Threads : d \notin loc'[e].todo
      <4> SUFFICES ASSUME NEW e \in Threads, d \in loc'[e].todo PROVE FALSE
        BY Zenon
      <4>1. e # th
        BY <2>3, Zenon
      <4> QED BY <3>2, <4>1, Zenon DEF SchedulerInv, WaitInv
    <3>5. \A u \in Txns : \A v \in txn_dependency[u] : Dependent(v)'
      BY <3>1, <3>3, Zenon DEF SchedulerInv, WaitInv
    <3>6. \A e \in Threads : \A v \in loc'[e].todo : Dependent(v)'
      <4> SUFFICES ASSUME NEW e \in Threads, NEW v \in loc'[e].todo PROVE Dependent(v)'
        OBVIOUS
      <4>1. v \in loc[e].todo /\ v \in Txns /\ v # d
        BY <3>2, <3>4, Zenon
      <4>2. Dependent(v)
        BY <4>1, Zenon DEF SchedulerInv, WaitInv
      <4> QED BY <3>1, <4>1, <4>2, Zenon
    <3>7. Txns' = Txns
      BY Zenon DEF Txns
    <3> QED BY <3>2, <3>5, <3>6, <3>7, Zenon DEF SchedulerInv, WaitInv
  <2>15. CoordinatorInv'
    BY <2>2, <2>3, SchedulerAssumption DEF SchedulerInv, CoordinatorInv, Moves, Same, Kind
  <2> QED BY <1>1, <1>2, <2>2, <2>3, <2>5, <2>6, <2>9, <2>10, <2>11, <2>12, <2>13, <2>14, <2>15,
             StatusStep, Zenon
<1> QED BY <1>3, <1>4, Zenon

LEMMA ReadyIs ==
  ASSUME NEW s \in Statuses
  PROVE  LET new == [s EXCEPT !.st = "Ready"]
         IN  new \in Statuses /\ new.st = "Ready" /\ new.inc = s.inc /\ new.cv = s.cv
BY DEF Statuses, States

LEMMA ResumeDependentKeeps ==
  ASSUME SchedulerInv, NEW th \in Threads, ResumeDependent(th)
  PROVE  SchedulerInv'
<1>1. PICK d \in loc[th].todo :
        /\ pc[th] = "resume"
        /\ txn_status' = [txn_status EXCEPT ![d] = Unhalted(d, [@ EXCEPT !.st = "Ready"])]
        /\ Goto(th, "resume", [loc[th] EXCEPT !.todo = @ \ {d}])
        /\ UNCHANGED <<indices, num_txns, validation, vlock, txn_dependency, condvar>>
  BY Zenon DEF ResumeDependent
<1> DEFINE s == txn_status[d]
           ready == [s EXCEPT !.st = "Ready"]
           new == Unhalted(d, ready)
           rest == loc[th].todo \ {d}
           l == [loc[th] EXCEPT !.todo = rest]
<1>2. IsLocal(loc[th]) /\ loc[th].todo \subseteq Txns /\ d \in Txns
  BY KindAt, Zenon DEF IsLocal
<1>3. /\ txn_status' = [txn_status EXCEPT ![d] = new] /\ Goto(th, "resume", l)
      /\ UNCHANGED <<indices, num_txns, vlock, txn_dependency, condvar>>
  BY <1>1, Zenon
<1>4. rest \in SUBSET Txns
  BY <1>2
<1> HIDE DEF rest
<1>5. IsLocal(l) /\ l.todo = rest
  BY <1>2, <1>4, LocalTodo, Zenon
<1>6. s \in Statuses
  BY <1>2 DEF SchedulerInv, SharedType
<1>7. ready \in Statuses /\ ready.st = "Ready" /\ ready.inc = s.inc /\ ready.cv = s.cv
  BY <1>6, ReadyIs, Zenon
<1>8. s = Halted \/ s.st = "Suspended"
  BY <1>2, Zenon DEF SchedulerInv, WaitInv, Dependent, CvInv
<1> HIDE DEF ready
<1>9. new = ready \/ (new = Halted /\ s = Halted)
  BY UnhaltedIs, Zenon
<1>10. s # Halted => new = ready
  BY UnhaltedIs, Zenon
<1>11. new \in Statuses
  BY <1>6, <1>7, <1>9, Zenon
<1> HIDE DEF new, l
<1>12. /\ txn_status'[d] = new /\ txn_status' \in [Txns' -> Statuses]
       /\ \A u \in Txns \ {d} : txn_status'[u] = txn_status[u]
  BY <1>2, <1>3, <1>11, SetStatus, Zenon DEF SchedulerInv
<1>13. s = Halted => new = Halted
  BY UnhaltedIs, Zenon DEF new
<1>14. Resumes(d)
  BY <1>7, <1>8, <1>10, <1>12, <1>13, Zenon DEF Resumes
<1>15. l.todo = loc[th].todo \ {d}
  BY <1>5, Zenon DEF rest
<1> QED BY <1>1, <1>2, <1>3, <1>5, <1>14, <1>15, ResumesKeeps, Zenon

LEMMA AbortableIs ==
  ASSUME NEW i
  PROVE  /\ Status("Executed", i).st = "Executed" /\ Status("Executed", i).inc = i
         /\ Status("Executed", i).cv = NoThread
         /\ Status("Aborting", i).st = "Aborting" /\ Status("Aborting", i).cv = NoThread
BY DEF Status

\* try_abort: the validated incarnation is aborted.
LEMMA AbortKeeps ==
  ASSUME SchedulerInv, NEW th \in Threads, pc[th] = "invalid", NEW t \in Txns, t = Txn(th),
         txn_status[t] = Status("Executed", Inc(th)), txn_status'[t] = Status("Aborting", Inc(th)),
         txn_status' \in [Txns' -> Statuses], \A u \in Txns \ {t} : txn_status'[u] = txn_status[u],
         Goto(th, "aborted", Idle),
         UNCHANGED <<indices, num_txns, vlock, txn_dependency, condvar>>
  PROVE  SchedulerInv'
<1>1. Kind(th) = "Validate" /\ pc[th] # "wait" /\ ~Exe(th) /\ ~Fin(th) /\ ~Abt(th)
  BY KindAt DEF Checking, Marking, Exe, Fin, Abt
<1>2. /\ txn_status[t].st = "Executed" /\ txn_status[t].inc = Inc(th) /\ txn_status[t].cv = NoThread
      /\ txn_status'[t].st = "Aborting" /\ txn_status'[t].cv = NoThread
  <2>1. /\ txn_status[t].st = "Executed" /\ txn_status[t].inc = Inc(th)
        /\ txn_status[t].cv = NoThread
    BY AbortableIs
  <2>2. txn_status'[t].st = "Aborting" /\ txn_status'[t].cv = NoThread
    BY AbortableIs
  <2> QED BY <2>1, <2>2, Zenon
<1>3. SharedType' /\ commit_state' = commit_state
  BY Zenon DEF SchedulerInv, SharedType, indices, Txns, IsIndex
<1>4. Moves(th) /\ pc'[th] = "aborted" /\ loc'[th] = Idle /\ task'[th] = task[th]
  BY GotoIs, Zenon DEF SchedulerInv
<1>5. "aborted" \in Marking /\ "aborted" \in Pcs /\ "aborted" \notin Finishing
  BY DEF Marking, Pcs, Finishing
<1>6. IsTask(task[th])' /\ IsLocal(loc[th])' /\ loc'[th].todo \subseteq loc[th].todo
  BY <1>4, IdleIs, Zenon DEF SchedulerInv, LocalType, IsTask, IsLocal, Txns
<1>7. LocalType'
  BY <1>4, <1>5, <1>6, LocalsKept, Zenon DEF SchedulerInv
<1>8. /\ Kind(th)' = "Validate" /\ Txn(th)' = t /\ Inc(th)' = Inc(th)
      /\ ~Exe(th)' /\ ~Fin(th)' /\ Abt(th)'
  BY <1>1, <1>4, <1>5, Zenon DEF Kind, Txn, Inc, Exe, Fin, Abt
<1>9. ThreadInv(th)'
  <2>1. PcFits(pc[th], Kind(th))'
    BY <1>4, <1>5, <1>8, Fits, Zenon
  <2>2. OwnInv(th)'
    BY <1>8, Zenon DEF OwnInv
  <2>3. WakeInv(th)' /\ CallInv(th)'
    BY <1>4, <1>8 DEF WakeInv, CallInv
  <2> QED BY <2>1, <2>2, <2>3, Zenon DEF ThreadInv
<1>10. ASSUME NEW d \in Threads, Txn(d) = t PROVE ~Exe(d) /\ ~Abt(d)
  <2>1. d # NoThread
    BY SchedulerAssumption, Zenon
  <2> QED BY <1>2, <1>10, <2>1, Owner
<1>11. \A d \in Threads \ {th} : OwnInv(d)' /\ WakeInv(d)'
  <2> SUFFICES ASSUME NEW d \in Threads \ {th} PROVE OwnInv(d)' /\ WakeInv(d)'
    OBVIOUS
  <2>1. Same(d) /\ OwnInv(d)
    BY <1>4, Zenon DEF Moves, SchedulerInv, ThreadInv
  <2>2. OwnInv(d)'
    <3>1. CASE Txn(d) # t
      BY <1>4, <3>1, OtherOwner, Zenon
    <3>2. CASE Txn(d) = t
      <4>1. /\ ~Exe(d)' /\ ~Abt(d)' /\ Fin(d)' = Fin(d) /\ Txn(d)' = t /\ Inc(d)' = Inc(d)
        BY <1>10, <2>1, <3>2, Zenon DEF Same, Exe, Fin, Abt, Kind, Txn, Inc
      <4>2. ASSUME Fin(d) PROVE vlock[t] = d /\ Inc(d) = Inc(th)
        <5>1. vlock[t] = d /\ txn_status[t] \in {Status("Executed", Inc(d)), Status("Aborting", Inc(d)), Halted}
          BY <2>1, <3>2, <4>2, Zenon DEF OwnInv
        <5>2. /\ Status("Executed", Inc(d)).inc = Inc(d)
              /\ Status("Aborting", Inc(d)).st = "Aborting" /\ Halted.st = "ExecutionHalted"
          BY DEF Status, Halted
        <5> QED BY <1>2, <5>1, <5>2
      <4> QED BY <4>1, <4>2, Zenon DEF OwnInv
    <3> QED BY <3>1, <3>2, Zenon
  <2>3. Kind(d) = "Wakeup" => txn_status'[Txn(d)].cv = NoThread
    <3>1. Txn(d) \in Txns /\ (Kind(d) = "Wakeup" => txn_status[Txn(d)].cv = NoThread)
      BY KindAt, Owner, Zenon
    <3> QED BY <1>2, <3>1, Zenon
  <2> QED BY <1>1, <1>4, <2>2, <2>3, OtherWakeup, Zenon
<1>12. CvInv(t)'
  BY <1>2 DEF CvInv
<1>13. CommitInv(t)'
  <2>1. CommitInv(t)
    BY Zenon DEF SchedulerInv
  <2>2. ~(t < commit_state.idx)
    BY <1>2, <2>1 DEF CommitInv
  <2> QED BY <1>3, <2>2, Zenon DEF CommitInv
<1>14. \A d \in Threads \ {th} : Alone(th, d)' /\ Alone(d, th)'
  <2> SUFFICES ASSUME NEW d \in Threads \ {th} PROVE Alone(th, d)' /\ Alone(d, th)'
    OBVIOUS
  <2>1. Kind(d)' = Kind(d) /\ Txn(d)' = Txn(d) /\ Exe(d)' = Exe(d) /\ Abt(d)' = Abt(d)
    BY <1>4, Zenon DEF Moves, Same, Kind, Txn, Exe, Abt
  <2>2. "Validate" # "Execute" /\ "Validate" # "Wakeup"
    OBVIOUS
  <2> QED BY <1>8, <1>10, <2>1, <2>2, Zenon DEF Alone
<1>15. WaitInv'
  <2>1. ~Dependent(t)
    BY <1>2 DEF Dependent
  <2> QED BY <1>4, <1>6, <2>1, WaitKept, Zenon
<1>16. CoordinatorInv'
  BY <1>3, <1>4, SchedulerAssumption DEF SchedulerInv, CoordinatorInv, Moves, Same, Kind
<1> QED BY <1>1, <1>3, <1>4, <1>7, <1>8, <1>9, <1>11, <1>12, <1>13, <1>14, <1>15, <1>16, StatusStep, Zenon

LEMMA AbortingIs ==
  ASSUME NEW i
  PROVE  [Status("Executed", i) EXCEPT !.st = "Aborting"] = Status("Aborting", i)
BY DEF Status

LEMMA TryAbortKeeps ==
  ASSUME SchedulerInv, NEW th \in Threads, TryAbort(th)
  PROVE  SchedulerInv'
<1>1. Txn(th) \in Txns /\ pc[th] = "invalid" /\ Inc(th) \in Nat
  BY KindAt, Zenon DEF TryAbort
<1>2. UNCHANGED <<indices, num_txns, validation, vlock, txn_dependency, condvar>>
  BY Zenon DEF TryAbort
<1>3. CASE Abortable(Txn(th), Inc(th))
  <2> DEFINE new == [txn_status[Txn(th)] EXCEPT !.st = "Aborting"]
  <2>1. txn_status' = [txn_status EXCEPT ![Txn(th)] = new] /\ Goto(th, "aborted", Idle)
    BY <1>3, Zenon DEF TryAbort, Txn, Inc
  <2>2. txn_status[Txn(th)] = Status("Executed", Inc(th))
    BY <1>3, Zenon DEF Abortable
  <2>3. new = Status("Aborting", Inc(th))
    BY <2>2, AbortingIs, Zenon
  <2>4. "Aborting" \in States
    BY DEF States
  <2>5. new \in Statuses
    BY <1>1, <2>3, <2>4, IsStatus, Zenon
  <2> HIDE DEF new
  <2>6. /\ txn_status'[Txn(th)] = new /\ txn_status' \in [Txns' -> Statuses]
        /\ \A u \in Txns \ {Txn(th)} : txn_status'[u] = txn_status[u]
    BY <1>1, <1>2, <2>1, <2>5, SetStatus, Zenon DEF SchedulerInv
  <2> QED BY <1>1, <1>2, <2>1, <2>2, <2>3, <2>6, AbortKeeps, Zenon
<1>4. CASE ~Abortable(Txn(th), Inc(th))
  <2>1. UNCHANGED <<indices, statuses, condvar>> /\ Goto(th, "validated", Idle)
    BY <1>2, <1>4, Zenon DEF TryAbort, statuses, Txn, Inc
  <2>2. "validated" \in Checking /\ pc[th] \in Checking
    BY <1>1 DEF Checking
  <2> QED BY <2>1, <2>2, QuietIs, ValidationGoesOn, Zenon
<1> QED BY <1>3, <1>4, Zenon

\* finish_abort: the next incarnation is ready.
LEMMA AbortedKeeps ==
  ASSUME SchedulerInv, NEW th \in Threads, pc[th] = "marked", NEW t \in Txns, t = Txn(th),
         vlock[t] = NoThread, \A u \in Txns \ {t} : vlock'[u] = vlock[u],
         vlock' \in [Txns' -> Threads \cup {NoThread}],
         txn_status'[t].cv = NoThread, txn_status'[t].st # "Suspended",
         txn_status'[t].st = "ExecutionHalted" => txn_status'[t] = Halted,
         txn_status[t] = Halted => txn_status'[t] = Halted,
         txn_status' \in [Txns' -> Statuses], \A u \in Txns \ {t} : txn_status'[u] = txn_status[u],
         Goto(th, "decrease", Idle),
         UNCHANGED <<indices, num_txns, txn_dependency, condvar>>
  PROVE  SchedulerInv'
<1>1. Kind(th) = "Validate" /\ pc[th] # "wait" /\ Abt(th)
  BY KindAt DEF Marking, Abt
<1>2. SharedType' /\ commit_state' = commit_state
  BY Zenon DEF SchedulerInv, SharedType, indices, Txns, IsIndex
<1>3. Moves(th) /\ pc'[th] = "decrease" /\ loc'[th] = Idle /\ task'[th] = task[th]
  BY GotoIs, Zenon DEF SchedulerInv
<1>4. "decrease" \in Finishing /\ "decrease" \in Pcs /\ "decrease" \notin Marking
  BY DEF Marking, Pcs, Finishing
<1>5. IsTask(task[th])' /\ IsLocal(loc[th])' /\ loc'[th].todo \subseteq loc[th].todo
  BY <1>3, IdleIs, Zenon DEF SchedulerInv, LocalType, IsTask, IsLocal, Txns
<1>6. LocalType'
  BY <1>3, <1>4, <1>5, LocalsKept, Zenon DEF SchedulerInv
<1>7. Kind(th)' = "Validate" /\ Txn(th)' = t /\ ~Exe(th)' /\ ~Fin(th)' /\ ~Abt(th)'
  <2>1. Kind(th)' = "Validate" /\ "Validate" # "Execute"
    BY <1>1, <1>3, Zenon DEF Kind
  <2> QED BY <1>3, <1>4, <2>1, Zenon DEF Txn, Exe, Fin, Abt
<1>8. ThreadInv(th)'
  <2>1. PcFits(pc[th], Kind(th))'
    BY <1>3, <1>7, Fits, Zenon
  <2>2. OwnInv(th)'
    BY <1>7, Zenon DEF OwnInv
  <2>3. WakeInv(th)' /\ CallInv(th)'
    BY <1>3, <1>7 DEF WakeInv, CallInv
  <2> QED BY <2>1, <2>2, <2>3, Zenon DEF ThreadInv
<1>9. ASSUME NEW d \in Threads \ {th}, Txn(d) = t PROVE ~Exe(d) /\ ~Fin(d) /\ ~Abt(d)
  <2>1. Alone(th, d) /\ d # NoThread
    BY SchedulerAssumption, Zenon DEF SchedulerInv
  <2>2. ~Fin(d)
    <3>1. Fin(d) => vlock[Txn(d)] = d
      BY Owner, Zenon
    <3> QED BY <1>9, <2>1, <3>1, Zenon
  <2> QED BY <1>1, <1>9, <2>1, <2>2, Zenon DEF Alone
<1>10. \A d \in Threads \ {th} : OwnInv(d)' /\ WakeInv(d)'
  <2> SUFFICES ASSUME NEW d \in Threads \ {th} PROVE OwnInv(d)' /\ WakeInv(d)'
    OBVIOUS
  <2>1. Same(d)
    BY <1>3, Zenon DEF Moves
  <2>2. OwnInv(d)'
    <3>1. CASE Txn(d) # t
      BY <1>3, <3>1, OtherOwner, Zenon
    <3>2. CASE Txn(d) = t
      <4>1. ~Exe(d)' /\ ~Fin(d)' /\ ~Abt(d)'
        BY <1>9, <2>1, <3>2, Zenon DEF Same, Exe, Fin, Abt, Kind
      <4> QED BY <4>1, Zenon DEF OwnInv
    <3> QED BY <3>1, <3>2, Zenon
  <2>3. Kind(d) = "Wakeup" => txn_status'[Txn(d)].cv = NoThread
    <3>1. Txn(d) \in Txns /\ (Kind(d) = "Wakeup" => txn_status[Txn(d)].cv = NoThread)
      BY KindAt, Owner, Zenon
    <3> QED BY <3>1, Zenon
  <2> QED BY <1>1, <1>3, <2>2, <2>3, OtherWakeup, Zenon
<1>11. CvInv(t)'
  BY Zenon DEF CvInv
<1>12. CommitInv(t)'
  <2>1. ~(t < commit_state'.idx)
    BY <1>1, <1>2, ExeUncommitted, Zenon
  <2> QED BY <2>1, Zenon DEF CommitInv
<1>13. \A d \in Threads \ {th} : Alone(th, d)' /\ Alone(d, th)'
  <2>1. "Validate" \notin {"Execute", "Wakeup"}
    OBVIOUS
  <2> QED BY <1>3, <1>7, <2>1, AloneKept, Zenon
<1>14. WaitInv'
  <2>1. Dependent(t) => Dependent(t)'
    <3>1. txn_status[t].st \in {"Aborting", "ExecutionHalted"} /\ CvInv(t)
      BY <1>1, Owner, Zenon DEF SchedulerInv
    <3>2. Dependent(t) => txn_status[t] = Halted
      BY <3>1 DEF Dependent, CvInv
    <3>3. Halted.st = "ExecutionHalted"
      BY StatusIs, Zenon
    <3> QED BY <3>2, <3>3, Zenon DEF Dependent
  <2> QED BY <1>3, <1>5, <2>1, WaitKept, Zenon
<1>15. CoordinatorInv'
  BY <1>2, <1>3, SchedulerAssumption DEF SchedulerInv, CoordinatorInv, Moves, Same, Kind
<1> QED BY <1>1, <1>2, <1>3, <1>6, <1>7, <1>8, <1>10, <1>11, <1>12, <1>13, <1>14, <1>15, StatusStep, Zenon

LEMMA SetAbortedKeeps ==
  ASSUME SchedulerInv, NEW th \in Threads, SetAborted(th)
  PROVE  SchedulerInv'
<1> DEFINE new == Unhalted(Txn(th), Status("Ready", Inc(th) + 1))
<1>1. Txn(th) \in Txns /\ pc[th] = "marked" /\ Inc(th) \in Nat /\ vlock[Txn(th)] = NoThread
  BY KindAt, Zenon DEF SetAborted, Txn
<1>2. /\ vlock' = [vlock EXCEPT ![Txn(th)] = th] /\ txn_status' = [txn_status EXCEPT ![Txn(th)] = new]
      /\ Goto(th, "decrease", Idle)
  BY Zenon DEF SetAborted, Txn, Inc
<1>3. UNCHANGED <<indices, num_txns, txn_dependency, condvar>>
  BY Zenon DEF SetAborted
<1>4. /\ new \in {Status("Ready", Inc(th) + 1), Halted}
      /\ txn_status[Txn(th)] = Halted => new = Halted
  BY UnhaltedIs, Zenon
<1>5. "Ready" \in States /\ Inc(th) + 1 \in Nat
  BY <1>1 DEF States
<1>6. new \in Statuses
  BY <1>4, <1>5, IsStatus, HaltedIsStatus, Zenon
<1> HIDE DEF new
<1>7. new.cv = NoThread /\ new.st # "Suspended" /\ (new.st = "ExecutionHalted" => new = Halted)
  <2>1. /\ Status("Ready", Inc(th) + 1).cv = NoThread /\ Status("Ready", Inc(th) + 1).st = "Ready"
        /\ Halted.cv = NoThread /\ Halted.st = "ExecutionHalted"
    BY StatusIs, Zenon
  <2> QED BY <1>4, <2>1
<1>8. /\ txn_status'[Txn(th)] = new /\ txn_status' \in [Txns' -> Statuses]
      /\ \A u \in Txns \ {Txn(th)} : txn_status'[u] = txn_status[u]
  BY <1>1, <1>2, <1>3, <1>6, SetStatus, Zenon DEF SchedulerInv
<1>9. /\ \A u \in Txns \ {Txn(th)} : vlock'[u] = vlock[u]
      /\ vlock' \in [Txns' -> Threads \cup {NoThread}]
  BY <1>1, <1>2, <1>3, SetLock, Zenon DEF SchedulerInv
<1> QED BY <1>1, <1>2, <1>3, <1>4, <1>7, <1>8, <1>9, AbortedKeeps, Zenon

\* halt: a transaction is halted and who waits in it is woken up.
LEMMA ResolvesKeeps ==
  ASSUME SchedulerInv, NEW th \in Threads, pc[th] = "resolve", NEW t \in Txns,
         txn_status'[t] = Halted, txn_status' \in [Txns' -> Statuses],
         \A u \in Txns \ {t} : txn_status'[u] = txn_status[u],
         \A d \in Threads : d # txn_status[t].cv => condvar'[d] = condvar[d],
         condvar' \in [Threads -> {"Resolved", "Unresolved", "ExecutionHalted"}],
         NEW p \in {"resolve", "send", "commit", "run"}, NEW l, Goto(th, p, l), IsLocal(l),
         l.todo \subseteq loc[th].todo, CallInv(th)',
         UNCHANGED <<indices, num_txns, vlock, txn_dependency>>
  PROVE  SchedulerInv'
<1>1. p \in Waiting /\ p \in Pcs /\ pc[th] \in Waiting /\ pc[th] # "wait"
  BY DEF Waiting, Pcs
<1>2. SharedType' /\ commit_state' = commit_state
  BY Zenon DEF SchedulerInv, SharedType, indices, Txns, IsIndex
<1>3. Moves(th) /\ pc'[th] = p /\ loc'[th] = l /\ task'[th] = task[th]
  BY GotoIs, Zenon DEF SchedulerInv
<1>4. IsTask(task[th])' /\ IsLocal(loc[th])' /\ loc'[th].todo \subseteq loc[th].todo
  BY <1>3, Zenon DEF SchedulerInv, LocalType, IsTask, IsLocal, Txns
<1>5. LocalType'
  BY <1>1, <1>3, <1>4, LocalsKept, Zenon DEF SchedulerInv
<1>6. \A d \in Threads : /\ Kind(d)' = Kind(d) /\ Txn(d)' = Txn(d) /\ Inc(d)' = Inc(d)
                         /\ (Exe(d)' => Exe(d)) /\ (Fin(d)' => Fin(d)) /\ (Abt(d)' => Abt(d))
                         /\ task'[d] = task[d] /\ (pc[d] = "wait" => pc'[d] = "wait")
  <2> SUFFICES ASSUME NEW d \in Threads
               PROVE  /\ Kind(d)' = Kind(d) /\ Txn(d)' = Txn(d) /\ Inc(d)' = Inc(d)
                      /\ (Exe(d)' => Exe(d)) /\ (Fin(d)' => Fin(d)) /\ (Abt(d)' => Abt(d))
                      /\ task'[d] = task[d] /\ (pc[d] = "wait" => pc'[d] = "wait")
    OBVIOUS
  <2>1. CASE d = th
    <3>1. /\ p \notin Finishing /\ p \notin Marking
          /\ pc[th] \notin Finishing /\ pc[th] \notin Marking
      BY DEF Finishing, Marking
    <3> QED BY <1>1, <1>3, <2>1, <3>1, Zenon DEF Kind, Txn, Inc, Exe, Fin, Abt
  <2>2. CASE d # th
    BY <1>3, <2>2, Zenon DEF Moves, Same, Kind, Txn, Inc, Exe, Fin, Abt
  <2> QED BY <2>1, <2>2, Zenon
<1>7. txn_status'[t].cv = NoThread /\ txn_status'[t].st = "ExecutionHalted"
  BY StatusIs, Zenon
<1>8. \A d \in Threads : OwnInv(d)' /\ WakeInv(d)'
  <2> SUFFICES ASSUME NEW d \in Threads PROVE OwnInv(d)' /\ WakeInv(d)'
    OBVIOUS
  <2>1. OwnInv(d) /\ WakeInv(d) /\ Txn(d) \in Txns
    BY KindAt, Zenon DEF SchedulerInv, ThreadInv
  <2>2. /\ Kind(d)' = Kind(d) /\ Txn(d)' = Txn(d) /\ Inc(d)' = Inc(d) /\ task'[d] = task[d]
        /\ (Exe(d)' => Exe(d)) /\ (Fin(d)' => Fin(d)) /\ (Abt(d)' => Abt(d))
        /\ pc[d] = "wait" => pc'[d] = "wait"
    BY <1>6, Zenon
  <2>3. Fin(d) => vlock'[Txn(d)] = d
    BY <2>1, Zenon DEF OwnInv
  <2>4. WakeInv(d)'
    <3> SUFFICES ASSUME Kind(d) = "Wakeup" PROVE WakeInv(d)'
      BY <2>2, Zenon DEF WakeInv
    <3> DEFINE c == task[d].cv
    <3>1. /\ c \in Threads /\ Txn(c) = Txn(d) /\ txn_status[Txn(d)].cv = NoThread /\ c # NoThread
          /\ pc[c] = "wait" /\ condvar[c] = "Unresolved"
      BY <2>1, SchedulerAssumption, Zenon DEF WakeInv
    <3>2. ASSUME c = txn_status[t].cv PROVE FALSE
      <4>1. Txn(c) = t
        BY <3>1, <3>2, CvWaits, Zenon
      <4> QED BY <3>1, <3>2, <4>1, Zenon
    <3>3. condvar'[c] = "Unresolved" /\ txn_status'[Txn(d)].cv = NoThread
      BY <1>7, <2>1, <3>1, <3>2, Zenon
    <3>4. Txn(c)' = Txn(d) /\ pc'[c] = "wait"
      BY <1>6, <3>1, Zenon
    <3> QED BY <2>2, <3>1, <3>3, <3>4, Zenon DEF WakeInv
  <2>5. CASE Txn(d) = t
    <3>1. Txn(d)' = t
      BY <2>2, <2>5, Zenon
    <3>2. OwnInv(d)'
      BY <2>2, <2>3, <2>5, <3>1, Zenon DEF OwnInv
    <3> QED BY <2>4, <3>2, Zenon
  <2>6. CASE Txn(d) # t
    <3>1. d # txn_status[t].cv
      <4>1. d # NoThread
        BY SchedulerAssumption, Zenon
      <4> QED BY <2>6, <4>1, CvWaits, Zenon
    <3>2. txn_status'[Txn(d)] = txn_status[Txn(d)] /\ condvar'[d] = condvar[d]
      BY <2>1, <2>6, <3>1, Zenon
    <3>3. OwnInv(d)'
      BY <2>1, <2>2, <2>3, <3>2, Zenon DEF OwnInv
    <3> QED BY <2>4, <3>3, Zenon
  <2> QED BY <2>5, <2>6, Zenon
<1>9. ThreadInv(th)'
  <2>1. PcFits(pc[th], Kind(th))'
    BY <1>1, <1>3, <1>6, KindAt, Fits, Zenon
  <2> QED BY <1>8, <2>1, Zenon DEF ThreadInv
<1>10. CvInv(t)'
  BY <1>7 DEF CvInv
<1>11. CommitInv(t)'
  <2>1. CommitInv(t)
    BY Zenon DEF SchedulerInv
  <2> QED BY <1>2, <1>6, <1>7, <2>1, Zenon DEF CommitInv
<1>12. \A d \in Threads \ {th} : Alone(th, d)' /\ Alone(d, th)'
  BY <1>3, <1>6, AloneKept, Zenon
<1>13. WaitInv'
  BY <1>3, <1>4, <1>7, WaitKept, Zenon DEF Dependent
<1>14. CoordinatorInv'
  BY <1>2, <1>3, SchedulerAssumption DEF SchedulerInv, CoordinatorInv, Moves, Same, Kind
<1> QED BY <1>1, <1>2, <1>3, <1>5, <1>6, <1>8, <1>9, <1>10, <1>11, <1>12, <1>13, <1>14, StatusStep, Zenon

LEMMA ResolveCondvarKeeps ==
  ASSUME SchedulerInv, NEW th \in Threads, ResolveCondvar(th)
  PROVE  SchedulerInv'
<1> DEFINE t == loc[th].idx
<1>1. t \in Txns /\ IsLocal(loc[th]) /\ pc[th] = "resolve"
  BY KindAt, Zenon DEF IsLocal, ResolveCondvar
<1>2. txn_status' = [txn_status EXCEPT ![t] = Halted]
  BY Zenon DEF ResolveCondvar
<1>3. UNCHANGED <<indices, num_txns, vlock, txn_dependency>>
  BY Zenon DEF ResolveCondvar
<1>4. /\ \A d \in Threads : d # txn_status[t].cv => condvar'[d] = condvar[d]
      /\ condvar' \in [Threads -> {"Resolved", "Unresolved", "ExecutionHalted"}]
  BY DEF ResolveCondvar, SchedulerInv, SharedType
<1>5. /\ txn_status'[t] = Halted /\ txn_status' \in [Txns' -> Statuses]
      /\ \A u \in Txns \ {t} : txn_status'[u] = txn_status[u]
  BY <1>1, <1>2, <1>3, HaltedIsStatus, SetStatus, Zenon DEF SchedulerInv
<1>6. CASE t + 1 = num_txns
  <2>1. Goto(th, loc[th].next, Idle)
    BY <1>6, Zenon DEF ResolveCondvar
  <2>2. pc'[th] = loc[th].next
    BY <2>1, GotoIs, Zenon DEF SchedulerInv
  <2>3. CallInv(th)' /\ loc[th].next \in {"send", "commit", "run"}
    BY <1>1, <1>3, <2>2, HaltReturns DEF indices
  <2>4. loc[th].next \in {"resolve", "send", "commit", "run"}
    BY <2>3, Zenon
  <2>5. IsLocal(Idle) /\ Idle.todo \subseteq loc[th].todo
    BY IdleIs, Zenon DEF SchedulerInv
  <2> QED BY <1>1, <1>3, <1>4, <1>5, <2>1, <2>3, <2>4, <2>5, ResolvesKeeps, Zenon
<1>7. CASE t + 1 # num_txns
  <2> DEFINE l == [loc[th] EXCEPT !.idx = t + 1]
  <2>1. Goto(th, "resolve", l)
    BY <1>7, Zenon DEF ResolveCondvar
  <2>2. t + 1 \in Txns
    <3>1. num_txns \in Nat
      BY Zenon DEF SchedulerInv, SharedType
    <3> QED BY <1>1, <1>7, <3>1 DEF Txns
  <2>3. IsLocal(l) /\ l.todo = loc[th].todo /\ l.next = loc[th].next
    BY <1>1, <2>2 DEF IsLocal
  <2> HIDE DEF l
  <2>4. pc'[th] = "resolve" /\ loc'[th] = l
    BY <2>1, GotoIs, Zenon DEF SchedulerInv
  <2>5. CallInv(th)
    BY Zenon DEF SchedulerInv, ThreadInv
  <2>6. CallInv(th)'
    BY <1>1, <1>3, <2>3, <2>4, <2>5 DEF CallInv, indices, Top
  <2> QED BY <1>1, <1>3, <1>4, <1>5, <2>1, <2>3, <2>6, ResolvesKeeps, Zenon
<1> QED BY <1>6, <1>7, Zenon

\* The next transaction is committed: it has been executed and nobody owns it.
LEMMA CommitsKeeps ==
  ASSUME SchedulerInv, NEW th \in Threads, pc[th] = "commit", NEW t \in Txns, t = commit_state.idx,
         Commitable(t), txn_status'[t].st = "Committed", txn_status'[t].cv = txn_status[t].cv,
         txn_status' \in [Txns' -> Statuses], \A u \in Txns \ {t} : txn_status'[u] = txn_status[u],
         commit_state'.idx = t + 1, SharedType',
         UNCHANGED <<num_txns, vlock, txn_dependency, condvar>>,
         NEW p \in {"panic", "halt", "run", "commit"}, Moves(th), pc'[th] = p,
         task'[th] = task[th] \/ task'[th] = Done,
         IsLocal(loc[th])', loc'[th].todo \subseteq loc[th].todo, CallInv(th)', CoordinatorInv'
  PROVE  SchedulerInv'
<1>1. /\ p \in Waiting /\ p \in Pcs /\ p \notin Finishing /\ p \notin Marking
      /\ pc[th] \notin Finishing /\ pc[th] \notin Marking /\ pc[th] # "wait"
  BY DEF Waiting, Pcs, Finishing, Marking
<1>2. txn_status[t].st = "Executed" /\ vlock[t] = NoThread
  BY Zenon DEF Commitable
<1>3. CvInv(t) /\ CommitInv(t)
  BY Zenon DEF SchedulerInv
<1>4. txn_status[t].cv = NoThread
  BY <1>2, <1>3 DEF CvInv
<1>5. ASSUME NEW d \in Threads, Txn(d) = t PROVE ~Exe(d) /\ ~Fin(d) /\ ~Abt(d)
  <2>1. d # NoThread
    BY SchedulerAssumption, Zenon
  <2> QED BY <1>2, <1>4, <1>5, <2>1, Owner
<1>6. Done.kind = "Done" /\ IsTask(Done) /\ "Done" \notin {"Execute", "Wakeup"}
  BY DEF SchedulerInv, SharedType, Done, NoTask, IsTask, Kinds, Txns
<1>7. IsTask(task[th])'
  BY <1>6, Zenon DEF SchedulerInv, LocalType, IsTask, Txns
<1>8. LocalType'
  BY <1>1, <1>7, LocalsKept, Zenon DEF SchedulerInv
<1>9. /\ Kind(th)' \in {"Execute", "Wakeup"} => task'[th] = task[th]
      /\ (Exe(th)' => Exe(th)) /\ ~Fin(th)' /\ ~Abt(th)' /\ Kind(th)' \in Kinds
  <2>1. Kind(th)' \in {"Execute", "Wakeup"} => task'[th] = task[th]
    BY <1>6, Zenon DEF Kind
  <2>2. Exe(th)' => Exe(th)
    BY <1>1, <2>1, Zenon DEF Exe, Kind
  <2> QED BY <1>1, <1>7, <2>1, <2>2, Zenon DEF Fin, Abt, Kind, IsTask
<1>10. ThreadInv(th)'
  <2>1. PcFits(pc[th], Kind(th))'
    BY <1>1, <1>9, Fits, Zenon
  <2>2. OwnInv(th) /\ WakeInv(th) /\ Txn(th) \in Txns
    BY KindAt, Zenon DEF SchedulerInv, ThreadInv
  <2>3. OwnInv(th)'
    <3> SUFFICES ASSUME Exe(th)' PROVE OwnInv(th)'
      BY <1>9, Zenon DEF OwnInv
    <3>1. Exe(th) /\ task'[th] = task[th]
      BY <1>9, Zenon DEF Exe
    <3>2. txn_status'[Txn(th)] = txn_status[Txn(th)]
      BY <1>5, <2>2, <3>1, Zenon
    <3>3. txn_status[Txn(th)] \in {Status("Executing", Inc(th)), Halted}
      BY <1>1, <2>2, <3>1, Zenon DEF OwnInv
    <3>4. Txn(th)' = Txn(th) /\ Inc(th)' = Inc(th)
      BY <3>1, Zenon DEF Txn, Inc
    <3> QED BY <1>9, <3>2, <3>3, <3>4, Zenon DEF OwnInv
  <2>4. WakeInv(th)'
    <3> SUFFICES ASSUME Kind(th)' = "Wakeup" PROVE WakeInv(th)'
      BY Zenon DEF WakeInv
    <3>1. task'[th] = task[th] /\ Kind(th) = "Wakeup"
      BY <1>9, Zenon DEF Kind
    <3> DEFINE c == task[th].cv
    <3>2. /\ c \in Threads /\ pc[c] = "wait" /\ Txn(c) = Txn(th) /\ condvar[c] = "Unresolved"
          /\ txn_status[Txn(th)].cv = NoThread
      BY <2>2, <3>1, Zenon DEF WakeInv
    <3>3. Same(c)
      BY <1>1, <3>2, Zenon DEF Moves
    <3>4. txn_status'[Txn(th)].cv = NoThread
      BY <1>4, <2>2, <3>2, Zenon
    <3> QED BY <3>1, <3>2, <3>3, <3>4, Zenon DEF WakeInv, Same, Txn
  <2> QED BY <2>1, <2>3, <2>4, Zenon DEF ThreadInv
<1>11. \A d \in Threads \ {th} : OwnInv(d)' /\ WakeInv(d)'
  <2> SUFFICES ASSUME NEW d \in Threads \ {th} PROVE OwnInv(d)' /\ WakeInv(d)'
    OBVIOUS
  <2>1. Same(d)
    BY Zenon DEF Moves
  <2>2. OwnInv(d)'
    <3>1. CASE Txn(d) # t
      BY <3>1, OtherOwner, Zenon
    <3>2. CASE Txn(d) = t
      <4>1. ~Exe(d)' /\ ~Fin(d)' /\ ~Abt(d)'
        BY <1>5, <2>1, <3>2, Zenon DEF Same, Exe, Fin, Abt, Kind
      <4> QED BY <4>1, Zenon DEF OwnInv
    <3> QED BY <3>1, <3>2, Zenon
  <2>3. Kind(d) = "Wakeup" => txn_status'[Txn(d)].cv = NoThread
    <3>1. Txn(d) \in Txns /\ (Kind(d) = "Wakeup" => txn_status[Txn(d)].cv = NoThread)
      BY KindAt, Owner, Zenon
    <3> QED BY <1>4, <3>1, Zenon
  <2> QED BY <1>1, <2>2, <2>3, OtherWakeup, Zenon
<1>12. CvInv(t)'
  BY <1>4 DEF CvInv
<1>13. CommitInv(t)'
  <2>1. ASSUME NEW d \in Threads, Kind(d)' = "Execute" \/ Abt(d)' PROVE Txn(d)' # t
    <3>1. (Exe(d) \/ Fin(d) \/ Abt(d)) /\ Txn(d)' = Txn(d)
      <4>1. CASE d = th
        <5>1. Kind(th)' = "Execute"
          BY <1>9, <2>1, <4>1, Zenon
        <5>2. Exe(th)' /\ task'[th] = task[th]
          BY <1>1, <1>9, <5>1, Zenon DEF Exe
        <5> QED BY <1>9, <4>1, <5>2, Zenon DEF Txn
      <4>2. CASE d # th
        BY <2>1, <4>2, Zenon DEF Moves, Same, Kind, Txn, Exe, Fin, Abt
      <4> QED BY <4>1, <4>2, Zenon
    <3> QED BY <1>5, <3>1, Zenon
  <2> QED BY <2>1, Zenon DEF CommitInv
<1>14. \A d \in Threads \ {th} : Alone(th, d)' /\ Alone(d, th)'
  BY <1>9, AloneKept, Zenon
<1>15. WaitInv'
  <2>1. ~Dependent(t)
    BY <1>2 DEF Dependent
  <2> QED BY <2>1, WaitKept, Zenon
<1>16. /\ \A u \in Txns \ {t} : u < commit_state'.idx => u < commit_state.idx
       /\ commit_state'.idx > 0
  <2>1. t \in Nat /\ Txns \subseteq Nat
    <3>1. num_txns \in Nat
      BY Zenon DEF SchedulerInv, SharedType
    <3> QED BY <3>1 DEF Txns
  <2> QED BY <2>1
<1>17. Kind(th)' = "Execute" \/ Abt(th)' => Txn(th)' = Txn(th) /\ Kind(th) = "Execute"
  BY <1>9, Zenon DEF Kind, Txn
<1> QED BY <1>1, <1>8, <1>10, <1>11, <1>12, <1>13, <1>14, <1>15, <1>16, <1>17, StatusStep, Zenon

LEMMA CommittedIs ==
  ASSUME NEW s \in Statuses
  PROVE  LET new == [s EXCEPT !.st = "Committed"]
         IN  new \in Statuses /\ new.st = "Committed" /\ new.cv = s.cv
BY DEF Statuses, States

-----------------------------------------------------------------------------
(* Every call *)

LEMMA SchedulerStepKeeps ==
  ASSUME Extrema, SchedulerInv, NEW th \in Threads, SchedulerStep(th)
  PROVE  SchedulerInv'
BY NothingToCommitKeeps, HaltKeeps, ResolveCondvarKeeps, ChooseKeeps, ClaimKeeps, ClaimedKeeps,
   FetchAddKeeps, IncarnateKeeps, WaitForDependencyKeeps, WokenUpKeeps, SetExecutedKeeps,
   ResumeDependentKeeps, RevalidateKeeps, RequireKeeps, DecreaseKeeps, UpdateKeeps,
   FinishValidationKeeps, TryAbortKeeps, SetAbortedKeeps, ReleaseKeeps, ReexecuteKeeps, Zenon
   DEF SchedulerStep
=============================================================================
