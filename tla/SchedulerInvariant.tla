-------------------------- MODULE SchedulerInvariant --------------------------
EXTENDS Scheduler

(* The inductive invariant of the scheduler of block-STM: who owns each          *)
(* transaction, who holds its locks, who waits for whom, and what a thread's     *)
(* place in the code says of its task.  SchedulerProofs shows that every action  *)
(* of the scheduler keeps it, BlockStmProofs that the whole executor does.       *)

-----------------------------------------------------------------------------
(* Where a thread is *)

\* Its task, if it has one, is still before it.
Waiting == {"commit", "run", "hook", "halt", "resolve", "send", "panic"}
\* It looks for a task.
Looking == {"next_task", "choose", "claim", "claimed", "fetch_add", "incarnate"}
\* It executes a transaction: the VM runs, its output is applied and recorded.
Running == {"read", "dependency", "wait", "vm_halted"}
Applying == {"apply", "show", "look"}
\* finish_execution, with the validation status locked.
Finishing == {"resume", "decrease", "update", "require"}
\* It validates a transaction, or has aborted one and marks its entries.
Checking == {"validate", "validated", "invalid"}
Marking == {"aborted", "marked"}

Pcs == Waiting \cup Looking \cup Running \cup Applying \cup Finishing \cup Checking \cup Marking
         \cup {"executed", "reexecute", "finished"}
Kinds == {"NoTask", "Done", "Wakeup", "Execute", "Validate"}
States == {"Ready", "Executing", "Suspended", "Executed", "Committed", "Aborting",
           "ExecutionHalted"}

Kind(th) == task[th].kind
Txn(th) == task[th].txn
Inc(th) == task[th].inc

Exe(th) == Kind(th) = "Execute" /\ pc[th] \notin Finishing
Fin(th) == Kind(th) = "Execute" /\ pc[th] \in Finishing
Abt(th) == pc[th] \in Marking

-----------------------------------------------------------------------------
(* The invariant of the scheduler *)

IsIndex(i) == DOMAIN i = {"idx", "wave"} /\ i.idx \in Nat
IsTask(tk) == tk.kind \in Kinds /\ tk.txn \in Txns /\ tk.inc \in Nat
IsLocal(l) ==
  /\ DOMAIN l = {"idx", "seen", "wave", "deps", "todo", "outside", "next"}
  /\ l.idx \in Txns /\ IsIndex(l.seen) /\ l.deps \subseteq Txns /\ l.todo \subseteq Txns

Statuses == [st : States, inc : Nat, cv : Threads \cup {NoThread}]

SharedType ==
  /\ num_txns \in Nat \ {0}
  /\ txn_status \in [Txns -> Statuses]
  /\ vlock \in [Txns -> Threads \cup {NoThread}]
  /\ txn_dependency \in [Txns -> SUBSET Txns]
  /\ execution_idx \in Nat /\ IsIndex(validation_idx)
  /\ IsIndex(commit_state) /\ commit_state.idx <= num_txns
  /\ condvar \in [Threads -> {"Resolved", "Unresolved", "ExecutionHalted"}]

LocalType ==
  /\ DOMAIN pc = Threads /\ \A th \in Threads : pc[th] \in Pcs
  /\ DOMAIN task = Threads /\ \A th \in Threads : IsTask(task[th])
  /\ DOMAIN loc = Threads /\ \A th \in Threads : IsLocal(loc[th])

\* The task a thread has where it is.
PcFits(p, kind) ==
  /\ p \in Looking => kind = "NoTask"
  /\ p \in Running \cup Applying \cup {"executed", "resume", "require"} => kind = "Execute"
  /\ p \in Checking \cup Marking \cup {"reexecute"} => kind = "Validate"
  /\ p \in {"decrease", "update"} => kind \in {"Execute", "Validate"}
  /\ p = "finished" => kind = "Done"

\* The status of the transaction a thread owns.
OwnInv(th) ==
  LET s == txn_status[Txn(th)]
  IN  /\ Exe(th) => \/ s \in {Status("Executing", Inc(th)), Halted}
                    \/ /\ pc[th] = "wait" /\ condvar[th] = "Unresolved"
                       /\ s.st \in {"Suspended", "Ready"} /\ s.inc = Inc(th) /\ s.cv = th
      /\ Fin(th) => /\ vlock[Txn(th)] = th
                    /\ s \in {Status("Executed", Inc(th)), Status("Aborting", Inc(th)), Halted}
      /\ Abt(th) => s \in {Status("Aborting", Inc(th)), Halted}

\* A Wakeup task is for a thread that waits.
WakeInv(th) ==
  Kind(th) = "Wakeup" =>
    LET c == task[th].cv
    IN  /\ c \in Threads /\ pc[c] = "wait" /\ Txn(c) = Txn(th)
        /\ condvar[c] = "Unresolved"
        /\ txn_status[Txn(th)].cv = NoThread

\* What the locals of a call are there for.
CallInv(th) ==
  /\ pc[th] \in {"claim", "claimed"} => loc[th].seen.idx \in Txns
  /\ pc[th] \in {"commit", "send", "panic"} => th = Coordinator
  /\ pc[th] = "hook" => th # Coordinator
  /\ pc[th] \in {"halt", "resolve"} => loc[th].next \in {"send", Top(th)}
  /\ pc[th] = "send" \/ (pc[th] \in {"halt", "resolve"} /\ loc[th].next = "send")
       => th = Coordinator /\ commit_state.idx > 0

ThreadInv(th) == PcFits(pc[th], Kind(th)) /\ OwnInv(th) /\ WakeInv(th) /\ CallInv(th)

\* A condition variable is that of the thread that waits.
CvInv(t) ==
  LET s == txn_status[t]
  IN  /\ s.cv # NoThread => /\ s.st \in {"Suspended", "Ready"}
                            /\ pc[s.cv] = "wait" /\ Txn(s.cv) = t
      /\ s.st = "Suspended" => s.cv # NoThread
      /\ s.st = "ExecutionHalted" => s = Halted

\* A committed transaction is nobody's.
CommitInv(t) ==
  t < commit_state.idx =>
    /\ txn_status[t].st \in {"Committed", "ExecutionHalted"}
    /\ \A th \in Threads : Kind(th) = "Execute" \/ Abt(th) => Txn(th) # t

\* A transaction has one owner.  Only finish_execution and the abort of its result may
\* meet, as the abort waits for the lock.
Alone(th, d) ==
  /\ Kind(th) = "Execute" /\ Kind(d) = "Execute" => Txn(th) # Txn(d)
  /\ Abt(th) /\ (Exe(d) \/ Abt(d)) => Txn(th) # Txn(d)
  /\ Kind(th) = "Wakeup" /\ Kind(d) = "Wakeup" => Txn(th) # Txn(d)

\* A dependent is suspended, and is to be resumed once.
Dependent(u) == txn_status[u].st \in {"Suspended", "ExecutionHalted"}
WaitInv ==
  /\ \A t \in Txns : \A u \in txn_dependency[t] : Dependent(u)
  /\ \A th \in Threads : \A u \in loc[th].todo : Dependent(u)
  /\ \A th \in Threads : \A d \in Threads \ {th} : loc[th].todo \cap loc[d].todo = {}
  /\ \A th \in Threads : \A t \in Txns : loc[th].todo \cap txn_dependency[t] = {}
  /\ \A t \in Txns : \A d \in Txns \ {t} : txn_dependency[t] \cap txn_dependency[d] = {}

\* The coordinator commits up to the last transaction and then ends.
CoordinatorInv ==
  commit_state.idx = num_txns =>
    \/ pc[Coordinator] = "panic"
    \/ pc[Coordinator] \in {"run", "finished"} /\ Kind(Coordinator) = "Done"

SchedulerInv ==
  /\ SharedType /\ LocalType
  /\ \A th \in Threads : ThreadInv(th)
  /\ \A t \in Txns : CvInv(t) /\ CommitInv(t)
  /\ \A th \in Threads : \A d \in Threads \ {th} : Alone(th, d)
  /\ WaitInv /\ CoordinatorInv

\* A set of numbers has a least, and one that is bounded a greatest.
Extrema ==
  /\ \A S \in SUBSET Nat : S # {} => Min(S) \in S /\ \A j \in S : Min(S) <= j
  /\ \A n \in Nat : \A S \in SUBSET (0..n) : S # {} => Max(S) \in S /\ \A j \in S : Max(S) >= j

-----------------------------------------------------------------------------
(* Steps of one thread *)

\* The other threads stay where they are.
Same(d) == pc'[d] = pc[d] /\ task'[d] = task[d] /\ loc'[d] = loc[d]
Moves(th) ==
  /\ DOMAIN pc' = Threads /\ DOMAIN task' = Threads /\ DOMAIN loc' = Threads
  /\ \A d \in Threads \ {th} : Same(d)

=============================================================================
