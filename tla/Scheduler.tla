----------------------------- MODULE Scheduler -----------------------------
(***************************************************************************)
(* The Scheduler of aptos-move/block-executor: which transaction of a block *)
(* each thread is to execute or to validate next, and which transactions    *)
(* are committed.  A step is an access to an atomic or what is done under   *)
(* one lock, with three exceptions that leave interleavings out:            *)
(*   - next_task reads the two indexes, a status and done_marker in two     *)
(*     steps; in the code each may be stale, and is then looked at again;   *)
(*   - finish_execution sets the status and takes the dependents together;  *)
(*     in the code a transaction that comes to depend on this one between   *)
(*     the two, after an abort, is resumed early and meets the estimate     *)
(*     again;                                                               *)
(*   - it lowers execution_idx and reads validation_idx together; in the    *)
(*     code a dependent may be taken up between the two.                    *)
(* The write lock of a validation status is held over several steps and is  *)
(* a variable; the others are held within one step.  BlockStm has the       *)
(* threads that call the scheduler.                                         *)
(***************************************************************************)
EXTENDS Integers, FiniteSets, FiniteSetsExt

CONSTANTS
  Threads,
  Coordinator,    \* the thread that commits
  NoThread

VARIABLES
  num_txns,
  txn_status,     \* ExecutionStatus of each transaction
  validation,     \* ValidationStatus of each transaction
  vlock,          \* the thread that holds each ValidationStatus for writing
  txn_dependency,
  execution_idx,
  validation_idx, \* index and wave
  commit_state,   \* index and wave
  done_marker,
  condvar,        \* the DependencyStatus each thread waits on
  pc, task, loc   \* of each thread: where it is, its SchedulerTask, its locals

ASSUME SchedulerAssumption == Coordinator \in Threads /\ NoThread \notin Threads

indices == <<execution_idx, validation_idx, commit_state, done_marker>>
statuses == <<num_txns, txn_status, validation, vlock, txn_dependency>>
threads == <<condvar, pc, task, loc>>
scheduler == <<indices, statuses, threads>>

Txns == 0..num_txns - 1

Larger(i, j) == IF i > j THEN i ELSE j

\* A status and its incarnation.  A suspended transaction has a condition variable, named
\* by the thread that waits on it, and keeps it when it becomes Ready.
Status(s, i) == [st |-> s, inc |-> i, cv |-> NoThread]
Halted == Status("ExecutionHalted", 0)

NoTask == [kind |-> "NoTask", txn |-> 0, inc |-> 0, wave |-> 0, cv |-> NoThread]
Done == [NoTask EXCEPT !.kind = "Done"]
ValidationTask(t, i, w) ==
  [kind |-> "Validate", txn |-> t, inc |-> i, wave |-> w, cv |-> NoThread]
\* An ExecutionTask, of type Wakeup when the Ready status it comes from has a condvar.
ExecutionTask(t, s) ==
  [kind |-> IF s.cv = NoThread THEN "Execute" ELSE "Wakeup",
   txn |-> t, inc |-> s.inc, wave |-> 0, cv |-> s.cv]

\* The locals of a call: a transaction index, validation_idx as read, cur_wave, the
\* dependents and those still to resume, revalidate_suffix, where halt returns to.
NoIndex == [idx |-> 0, wave |-> 0]
Idle == [idx |-> 0, seen |-> NoIndex, wave |-> 0, deps |-> {}, todo |-> {},
         outside |-> FALSE, next |-> ""]

\* Where the loop of work_task_with_scope starts: the coordinator commits first.
Top(th) == IF th = Coordinator THEN "commit" ELSE "run"

\* Thread th goes on at p with its task; or its call returns the task tk.
Goto(th, p, l) ==
  /\ pc' = [pc EXCEPT ![th] = p]
  /\ loc' = [loc EXCEPT ![th] = l]
  /\ UNCHANGED task

Return(th, tk) ==
  /\ pc' = [pc EXCEPT ![th] = Top(th)]
  /\ task' = [task EXCEPT ![th] = tk]
  /\ loc' = [loc EXCEPT ![th] = Idle]

\* Scheduler::new for a block of n transactions, with every thread of the pool in its loop.
SchedulerInit(n, pool) ==
  /\ num_txns = n
  /\ txn_status = [t \in 0..n - 1 |-> Status("Ready", 0)]
  /\ validation = [t \in 0..n - 1 |-> [triggered |-> 0, required |-> 0, validated |-> -1]]
  /\ vlock = [t \in 0..n - 1 |-> NoThread]
  /\ txn_dependency = [t \in 0..n - 1 |-> {}]
  /\ execution_idx = 0
  /\ validation_idx = NoIndex
  /\ commit_state = NoIndex
  /\ done_marker = FALSE
  /\ condvar = [th \in Threads |-> "Resolved"]
  /\ pc = [th \in Threads |-> IF th \in pool THEN Top(th) ELSE "finished"]
  /\ task = [th \in Threads |-> IF th \in pool THEN NoTask ELSE Done]
  /\ loc = [th \in Threads |-> Idle]

-----------------------------------------------------------------------------
(* try_commit and halt *)

\* try_commit needs the lock of the validation status and an executed transaction.  It
\* then moves the commit wave up, and commits if a validation of that wave has succeeded.
Commitable(t) == vlock[t] = NoThread /\ txn_status[t].st = "Executed"
\* Mutant of CommitWave: the transaction's own triggered wave is not looked at.
CommitWaveSame(t) == commit_state.wave
CommitWave(t) == Larger(commit_state.wave, validation[t].triggered)
CanCommit(t) ==
  Commitable(t) /\ validation[t].validated >= Larger(CommitWave(t), validation[t].required)

\* The part of a commit that is the scheduler's; the coordinator's is in BlockStm.
TryCommit(t) ==
  /\ CanCommit(t)
  /\ txn_status' = [txn_status EXCEPT ![t].st = "Committed"]
  /\ commit_state' = [idx |-> t + 1, wave |-> CommitWave(t)]
  /\ done_marker' = (done_marker \/ t + 1 = num_txns)
  /\ UNCHANGED <<num_txns, validation, vlock, txn_dependency, execution_idx,
                 validation_idx, condvar>>

NothingToCommit(th) ==
  LET t == commit_state.idx
  IN  /\ pc[th] = "commit" /\ ~CanCommit(t)
      /\ commit_state' = [commit_state EXCEPT !.wave = IF Commitable(t) THEN CommitWave(t)
                                                       ELSE @]
      /\ Goto(th, "run", Idle)
      /\ UNCHANGED <<statuses, execution_idx, validation_idx, done_marker, condvar>>

\* halt: the thread that sets the marker resolves the condvar of every transaction.
Halt(th) ==
  /\ pc[th] = "halt"
  /\ done_marker' = TRUE
  /\ IF done_marker THEN Goto(th, loc[th].next, Idle) ELSE Goto(th, "resolve", loc[th])
  /\ UNCHANGED <<statuses, execution_idx, validation_idx, commit_state, condvar>>

ResolveCondvar(th) ==
  LET t == loc[th].idx
  IN  /\ pc[th] = "resolve"
      /\ txn_status' = [txn_status EXCEPT ![t] = Halted]
      /\ condvar' = [c \in Threads |-> IF c = txn_status[t].cv THEN "ExecutionHalted"
                                       ELSE condvar[c]]
      /\ IF t + 1 = num_txns THEN Goto(th, loc[th].next, Idle)
         ELSE Goto(th, "resolve", [loc[th] EXCEPT !.idx = t + 1])
      /\ UNCHANGED <<indices, num_txns, validation, vlock, txn_dependency>>

-----------------------------------------------------------------------------
(* next_task and the calls it tries *)

\* The loop of next_task starts: the marker and validation_idx are read.
NextTask(th) ==
  /\ pc[th] \in {"run", "next_task"} /\ task[th].kind = "NoTask"
  /\ IF done_marker THEN Return(th, Done)
     ELSE Goto(th, "choose", [Idle EXCEPT !.seen = validation_idx])
  /\ UNCHANGED <<indices, statuses, condvar>>

\* Mutant of NeverExecuted: the incarnation alone is looked at.
NeverExecutedYet(t) == txn_status[t].inc = 0
NeverExecuted(t) ==
  txn_status[t].st \in {"Ready", "Executing", "Suspended"} /\ txn_status[t].inc = 0

\* execution_idx is read: validate if that index is behind, else execute if a transaction
\* is left, else there is no task.
Choose(th) ==
  LET v == loc[th].seen.idx
      prefer_validate == v < Min({execution_idx, num_txns}) /\ ~NeverExecuted(v)
  IN  /\ pc[th] = "choose"
      /\ IF prefer_validate THEN Goto(th, "claim", loc[th])
         ELSE IF execution_idx < num_txns THEN Goto(th, "fetch_add", Idle)
         ELSE Return(th, IF done_marker THEN Done ELSE NoTask)
      /\ UNCHANGED <<indices, statuses, condvar>>

\* try_validate_next_version: the compare-and-swap of validation_idx,
Claim(th) ==
  LET seen == loc[th].seen
      claimed == validation_idx = seen
  IN  /\ pc[th] = "claim"
      /\ validation_idx' = IF claimed THEN [seen EXCEPT !.idx = @ + 1] ELSE validation_idx
      /\ IF claimed THEN Goto(th, "claimed", loc[th]) ELSE Goto(th, "next_task", Idle)
      /\ UNCHANGED <<statuses, execution_idx, commit_state, done_marker, condvar>>

\* and the look at the status of the transaction claimed.
Claimed(th) ==
  LET t == loc[th].seen.idx
  IN  /\ pc[th] = "claimed"
      /\ IF txn_status[t].st = "Executed"
         THEN Return(th, ValidationTask(t, txn_status[t].inc, loc[th].seen.wave))
         ELSE Goto(th, "next_task", Idle)
      /\ UNCHANGED <<indices, statuses, condvar>>

\* try_execute_next_version: the fetch-and-add of execution_idx,
FetchAdd(th) ==
  /\ pc[th] = "fetch_add"
  /\ execution_idx' = execution_idx + 1
  /\ IF execution_idx < num_txns
     THEN Goto(th, "incarnate", [Idle EXCEPT !.idx = execution_idx])
     ELSE Goto(th, "next_task", Idle)
  /\ UNCHANGED <<statuses, validation_idx, commit_state, done_marker, condvar>>

\* try_incarnate: a Ready transaction is taken for execution.
Ready(t) == txn_status[t].st = "Ready"
SetExecuting(t) ==
  txn_status' = [txn_status EXCEPT ![t] = Status("Executing", txn_status[t].inc)]

Incarnate(th) ==
  LET t == loc[th].idx
  IN  /\ pc[th] = "incarnate"
      /\ IF Ready(t) THEN SetExecuting(t) /\ Return(th, ExecutionTask(t, txn_status[t]))
         ELSE UNCHANGED txn_status /\ Goto(th, "next_task", Idle)
      /\ UNCHANGED <<indices, num_txns, validation, vlock, txn_dependency, condvar>>

-----------------------------------------------------------------------------
(* Dependencies *)

is_executed(t) == txn_status[t].st \in {"Executed", "Committed"}

\* wait_for_dependency, under the mutex of the dependency: read again if that has been
\* executed, give up if the scheduler is halted, suspend otherwise.
WaitForDependency(th) ==
  LET t == task[th].txn
      d == loc[th].idx
      suspended == ~is_executed(d) /\ txn_status[t] # Halted
  IN  /\ pc[th] = "dependency"
      /\ IF suspended
         THEN /\ txn_status' = [txn_status EXCEPT ![t] = [@ EXCEPT !.st = "Suspended", !.cv = th]]
              /\ txn_dependency' = [txn_dependency EXCEPT ![d] = @ \cup {t}]
              /\ condvar' = [condvar EXCEPT ![th] = "Unresolved"]
         ELSE UNCHANGED <<txn_status, txn_dependency, condvar>>
      /\ Goto(th, IF is_executed(d) THEN "read" ELSE IF suspended THEN "wait" ELSE "vm_halted", Idle)
      /\ UNCHANGED <<indices, num_txns, validation, vlock>>

\* The wait of fetch_data on the condition variable ends.
WokenUp(th) ==
  /\ pc[th] = "wait" /\ condvar[th] # "Unresolved"
  /\ Goto(th, IF condvar[th] = "Resolved" THEN "read" ELSE "vm_halted", Idle)
  /\ UNCHANGED <<indices, statuses, condvar>>

\* A Wakeup task: the suspended execution goes on.
Wakeup(th) ==
  /\ pc[th] = "run" /\ task[th].kind = "Wakeup"
  /\ condvar' = [condvar EXCEPT ![task[th].cv] = "Resolved"]
  /\ Return(th, NoTask)
  /\ UNCHANGED <<indices, statuses>>

-----------------------------------------------------------------------------
(* finish_execution and decrease_validation_idx *)

\* A status is changed unless the scheduler has been halted.
Unhalted(t, s) == IF txn_status[t] = Halted THEN Halted ELSE s

\* The validation status is locked, the transaction is executed and its dependents are
\* taken.
SetExecuted(th) ==
  LET t == task[th].txn
  IN  /\ pc[th] = "executed" /\ vlock[t] = NoThread
      /\ vlock' = [vlock EXCEPT ![t] = th]
      /\ txn_status' = [txn_status EXCEPT ![t] =
                          Unhalted(t, Status("Executed", task[th].inc))]
      /\ txn_dependency' = [txn_dependency EXCEPT ![t] = {}]
      /\ Goto(th, "resume", [loc[th] EXCEPT !.todo = txn_dependency[t],
                                              !.deps = txn_dependency[t]])
      /\ UNCHANGED <<indices, num_txns, validation, condvar>>

\* resume: a dependent becomes Ready, to be woken up.
ResumeDependent(th) ==
  \E d \in loc[th].todo :
    /\ pc[th] = "resume"
    /\ txn_status' = [txn_status EXCEPT ![d] = Unhalted(d, [@ EXCEPT !.st = "Ready"])]
    /\ Goto(th, "resume", [loc[th] EXCEPT !.todo = @ \ {d}])
    /\ UNCHANGED <<indices, num_txns, validation, vlock, txn_dependency, condvar>>

\* execution_idx is lowered to the lowest dependent and validation_idx read.  If that is
\* past the transaction, this thread is to validate it, and the later ones are to be
\* validated again if this incarnation wrote a new key.
Revalidate(th) ==
  LET t == task[th].txn
      l == [loc[th] EXCEPT !.deps = {}, !.wave = validation_idx.wave]
  IN  /\ pc[th] = "resume" /\ loc[th].todo = {}
      /\ execution_idx' = Min({execution_idx} \cup loc[th].deps)
      /\ IF validation_idx.idx <= t
         THEN /\ vlock' = [vlock EXCEPT ![t] = NoThread]
              /\ Return(th, NoTask)
         ELSE /\ UNCHANGED vlock
              /\ Goto(th, IF l.outside THEN "decrease" ELSE "require", l)
      /\ UNCHANGED <<num_txns, txn_status, validation, txn_dependency, validation_idx,
                     commit_state, done_marker, condvar>>

\* required_wave is set and the validation task returned.
Require(th) ==
  LET t == task[th].txn
  IN  /\ pc[th] = "require"
      /\ validation' = [validation EXCEPT ![t].required = loc[th].wave]
      /\ vlock' = [vlock EXCEPT ![t] = NoThread]
      /\ Return(th, ValidationTask(t, task[th].inc, loc[th].wave))
      /\ UNCHANGED <<indices, num_txns, txn_status, txn_dependency, condvar>>

\* Where finish_execution and finish_abort go on after decrease_validation_idx.
Decreased(th) == IF task[th].kind = "Execute" THEN "require" ELSE "reexecute"

\* decrease_validation_idx(txn_idx + 1): the closure of fetch_update reads validation_idx
\* and, under the lock of the next transaction's validation status, raises its
\* max_triggered_wave;
Decrease(th) ==
  LET target == task[th].txn + 1
      seen == validation_idx
  IN  /\ pc[th] = "decrease"
      /\ IF target < num_txns /\ seen.idx > target
         THEN /\ vlock[target] = NoThread
              /\ validation' = [validation EXCEPT ![target].triggered = Larger(@, seen.wave + 1)]
              /\ Goto(th, "update", [loc[th] EXCEPT !.seen = seen])
         ELSE /\ UNCHANGED validation
              /\ Goto(th, Decreased(th), loc[th])
      /\ UNCHANGED <<indices, num_txns, txn_status, vlock, txn_dependency, condvar>>

\* then validation_idx is swapped if it is still the same, or all is done again.
Update(th) ==
  LET seen == loc[th].seen
      next == [idx |-> task[th].txn + 1, wave |-> seen.wave + 1]
  IN  /\ pc[th] = "update"
      /\ IF validation_idx = seen
         THEN /\ validation_idx' = next
              /\ Goto(th, Decreased(th),
                      [loc[th] EXCEPT !.seen = NoIndex, !.wave = next.wave])
         ELSE /\ UNCHANGED validation_idx
              /\ Goto(th, "decrease", [loc[th] EXCEPT !.seen = NoIndex])
      /\ UNCHANGED <<statuses, execution_idx, commit_state, done_marker, condvar>>

-----------------------------------------------------------------------------
(* finish_validation, try_abort and finish_abort *)

\* finish_validation
FinishValidation(th) ==
  LET t == task[th].txn
  IN  /\ pc[th] = "validated" /\ vlock[t] = NoThread
      /\ validation' = [validation EXCEPT ![t].validated = Larger(@, task[th].wave)]
      /\ Return(th, NoTask)
      /\ UNCHANGED <<indices, num_txns, txn_status, vlock, txn_dependency, condvar>>

\* Mutant of Abortable: the incarnation is not compared.
AbortableAny(t, inc) == txn_status[t].st = "Executed"
Abortable(t, inc) == txn_status[t] = Status("Executed", inc)

\* try_abort: only the incarnation that was validated can be aborted.  If it is no longer
\* there the validation counts as done.
TryAbort(th) ==
  LET t == task[th].txn
  IN  /\ pc[th] = "invalid"
      /\ IF Abortable(t, task[th].inc)
         THEN /\ txn_status' = [txn_status EXCEPT ![t].st = "Aborting"]
              /\ Goto(th, "aborted", Idle)
         ELSE /\ UNCHANGED txn_status
              /\ Goto(th, "validated", Idle)
      /\ UNCHANGED <<indices, num_txns, validation, vlock, txn_dependency, condvar>>

\* finish_abort: the next incarnation is ready, and the later transactions are to be
\* validated again before the lock is released;
SetAborted(th) ==
  LET t == task[th].txn
  IN  /\ pc[th] = "marked" /\ vlock[t] = NoThread
      /\ vlock' = [vlock EXCEPT ![t] = th]
      /\ txn_status' = [txn_status EXCEPT ![t] =
                          Unhalted(t, Status("Ready", task[th].inc + 1))]
      /\ Goto(th, "decrease", Idle)
      /\ UNCHANGED <<indices, num_txns, validation, txn_dependency, condvar>>

\* then the lock is released,
Release(th) ==
  LET t == task[th].txn
  IN  /\ pc[th] = "reexecute" /\ vlock[t] = th
      /\ vlock' = [vlock EXCEPT ![t] = NoThread]
      /\ Goto(th, "reexecute", Idle)
      /\ UNCHANGED <<indices, num_txns, txn_status, validation, txn_dependency, condvar>>

\* and the transaction taken for execution, unless execution_idx will come to it.
Reexecute(th) ==
  LET t == task[th].txn
  IN  /\ pc[th] = "reexecute" /\ vlock[t] # th
      /\ IF execution_idx > t /\ Ready(t)
         THEN SetExecuting(t) /\ Return(th, ExecutionTask(t, txn_status[t]))
         ELSE UNCHANGED txn_status /\ Return(th, NoTask)
      /\ UNCHANGED <<indices, num_txns, validation, vlock, txn_dependency, condvar>>

-----------------------------------------------------------------------------
SchedulerStep(th) ==
  \/ NothingToCommit(th) \/ Halt(th) \/ ResolveCondvar(th)
  \/ Choose(th) \/ Claim(th) \/ Claimed(th) \/ FetchAdd(th) \/ Incarnate(th)
  \/ WaitForDependency(th) \/ WokenUp(th)
  \/ SetExecuted(th) \/ ResumeDependent(th) \/ Revalidate(th) \/ Require(th)
  \/ Decrease(th) \/ Update(th)
  \/ FinishValidation(th) \/ TryAbort(th) \/ SetAborted(th) \/ Release(th) \/ Reexecute(th)
=============================================================================
