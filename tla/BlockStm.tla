------------------------------ MODULE BlockStm ------------------------------
(***************************************************************************)
(* The parallel block executor of aptos-move/block-executor: the threads of *)
(* work_task_with_scope execute and validate the transactions that the      *)
(* Scheduler gives them over the multi-version map, and the coordinator     *)
(* commits them in order and hands each to a worker for its commit hook.    *)
(* A transaction reads keys one by one and then, as a function of the       *)
(* values read, writes keys, adds deltas to aggregators and publishes       *)
(* modules.                                                                 *)
(***************************************************************************)
EXTENDS Scheduler, VersionedData, Sequences

CONSTANTS
  Keys,
  Modules,         \* the keys that are module paths
  Blocks,          \* the blocks to execute
  Size(_),         \* the number of transactions of a block
  Workers(_),      \* the threads that execute it besides the coordinator, as a sequence
  Reads(_, _),     \* the keys that a transaction of a block reads, in order
  Output(_, _, _), \* its output on the values read: [status, writes, deltas]
  Gas(_, _),       \* its execution and io gas
  GasLimit(_)      \* maybe_block_gas_limit of the executor of a block, -1 if none

VARIABLES
  block,           \* the block under execution
  versioned,       \* the entries of the multi-version map
  base_value,      \* aggregator_base_value of each key, -1 if not set
  inputs,          \* TxnLastInputOutput: the read set of each transaction,
  outputs,         \* its output,
  delta_writes,    \* its materialized deltas,
  module_reads, module_writes,
  intersection,    \* module_read_write_intersection
  exec,            \* of each thread: the execution, validation or hook it is in
  fees,            \* accumulated_fee_statement of the coordinator
  channel,         \* post_commit_txs: the transactions sent to each worker
  worker_idx

\* execute_transactions_parallel has at least two threads, and an empty block never gets to
\* them.
ASSUME StmAssumption ==
  \A b \in Blocks : /\ Size(b) \in Nat \ {0}
                    /\ Workers(b) \in Seq(Threads \ {Coordinator}) /\ Workers(b) # <<>>

memory == <<versioned, base_value>>
modules == <<module_reads, module_writes, intersection>>
lastio == <<inputs, outputs, delta_writes, modules>>
hooks == <<fees, channel, worker_idx>>
vars == <<block, scheduler, memory, lastio, exec, hooks>>

NoOutput == [status |-> "None", writes |-> <<>>, deltas |-> <<>>]
VmAborted == [NoOutput EXCEPT !.status = "Abort"]

\* The captured reads and their values; the output and the keys to write, add to, mark or
\* materialize; the keys to delete; the modules to record.
NoExec == [reads |-> <<>>, vals |-> <<>>, out |-> NoOutput, todo |-> {}, stale |-> {},
           loads |-> {}, publishes |-> {}]

Set(th, e) == exec' = [exec EXCEPT ![th] = e]

OutputKeys(out) == DOMAIN out.writes \cup DOMAIN out.deltas
modified_keys(t) == OutputKeys(outputs[t])

Storage(k) == 0

fetch_data(k, t) == ReadEntries(versioned[k], base_value[k], t)

Init ==
  /\ block \in Blocks
  /\ SchedulerInit(Size(block), {Coordinator} \cup Range(Workers(block)))
  /\ versioned = [k \in Keys |-> [t \in Txns |-> NoEntry]]
  /\ base_value = [k \in Keys |-> -1]
  /\ inputs = [t \in Txns |-> <<>>]
  /\ outputs = [t \in Txns |-> NoOutput]
  /\ delta_writes = [t \in Txns |-> <<>>]
  /\ module_reads = {} /\ module_writes = {} /\ intersection = FALSE
  /\ exec = [th \in Threads |-> NoExec]
  /\ fees = 0
  /\ channel = [th \in Threads |-> <<>>]
  /\ worker_idx = 1

-----------------------------------------------------------------------------
(* The coordinator: coordinator_commit_hook *)

\* CommitGuard: when the iteration ends, the transaction goes to the next worker.
Send(t) ==
  /\ channel' = [channel EXCEPT ![Workers(block)[worker_idx]] = Append(@, t)]
  /\ worker_idx' = (worker_idx % Len(Workers(block))) + 1

\* The coordinator commits the next transaction.  It is made the last one if the block's
\* gas is used up.  The last one of the block ends the coordinator's loop, and one that
\* ends the block early halts the scheduler.  update_to_skip_rest takes a successful
\* output and panics on another.
Commit(th) ==
  LET t == commit_state.idx
      last == t + 1 = num_txns
      status == outputs[t].status
      total == fees + IF status = "Abort" THEN 0 ELSE Gas(block, t)
      exceeded == status # "Abort" /\ GasLimit(block) # -1 /\ total >= GasLimit(block)
      panic == exceeded /\ status # "Success"
      truncated == exceeded \/ status # "Success"
  IN  /\ pc[th] = "commit"
      /\ TryCommit(t)
      /\ fees' = total
      /\ outputs' = IF exceeded /\ ~panic THEN [outputs EXCEPT ![t].status = "SkipRest"]
                    ELSE outputs
      /\ IF panic THEN Goto(th, "panic", Idle) /\ Send(t)
         ELSE IF truncated /\ ~last
         THEN Goto(th, "halt", [Idle EXCEPT !.next = "send"]) /\ UNCHANGED <<channel, worker_idx>>
         ELSE /\ pc' = [pc EXCEPT ![th] = IF last THEN "run" ELSE "commit"]
              /\ task' = [task EXCEPT ![th] = IF last THEN Done ELSE @]
              /\ UNCHANGED loc
              /\ Send(t)
      /\ UNCHANGED <<block, memory, inputs, delta_writes, modules, exec>>

\* The iteration that has halted the scheduler ends.
SendLast(th) ==
  /\ pc[th] = "send"
  /\ Send(commit_state.idx - 1)
  /\ Goto(th, "run", Idle)
  /\ UNCHANGED <<block, indices, statuses, condvar, memory, lastio, exec, fees>>

-----------------------------------------------------------------------------
(* The workers: worker_commit_hook, and the end of the loop *)

\* A worker runs the hooks of the transactions it has received before its next task.
\* Mutant of HookWaits: a worker that is told to end leaves its channel.
HookWaitsUndrained(th) == pc[th] = "run" /\ channel[th] # <<>> /\ task[th].kind # "Done"
HookWaits(th) == pc[th] = "run" /\ channel[th] # <<>>

StartHook(th) ==
  /\ HookWaits(th)
  /\ Goto(th, "hook", Idle)
  /\ Set(th, [NoExec EXCEPT !.todo = DOMAIN outputs[Head(channel[th])].deltas])
  /\ UNCHANGED <<block, indices, statuses, condvar, memory, lastio, hooks>>

\* A delta is materialized: from the entries at and below it, which gives it a shortcut,
\* or, when the aggregator's base value is not set, from storage, which sets it.
Materialize(th) ==
  LET t == Head(channel[th])
  IN  \E k \in exec[th].todo :
        LET r == fetch_data(k, t + 1)
            op == MapThenSumSet(LAMBDA j : versioned[k][j].val,
                                {j \in 0..t : versioned[k][j] # NoEntry})
            value == IF r = Unresolved THEN Storage(k) + op ELSE r.val
        IN  /\ pc[th] = "hook"
            /\ IF r = Unresolved
               THEN /\ base_value' = [base_value EXCEPT ![k] = Storage(k)]
                    /\ UNCHANGED versioned
               ELSE /\ versioned' = [versioned EXCEPT ![k][t].shortcut = value]
                    /\ UNCHANGED base_value
            /\ delta_writes' = [delta_writes EXCEPT ![t] =
                 [key \in DOMAIN @ \cup {k} |-> IF key = k THEN value ELSE @[key]]]
            /\ Set(th, [NoExec EXCEPT !.todo = exec[th].todo \ {k}])
            /\ UNCHANGED <<block, scheduler, inputs, outputs, modules, hooks>>

EndHook(th) ==
  /\ pc[th] = "hook" /\ exec[th].todo = {}
  /\ channel' = [channel EXCEPT ![th] = Tail(@)]
  /\ Goto(th, "run", Idle)
  /\ UNCHANGED <<block, indices, statuses, condvar, memory, lastio, exec, fees, worker_idx>>

\* The loop ends.  A worker drains its channel until the coordinator drops the sender.
Finish(th) ==
  /\ pc[th] = "run" /\ task[th].kind = "Done" /\ ~HookWaits(th)
  /\ th # Coordinator => pc[Coordinator] = "finished"
  /\ Goto(th, "finished", Idle)
  /\ UNCHANGED <<block, indices, statuses, condvar, memory, lastio, exec, hooks>>

-----------------------------------------------------------------------------
(* execute *)

\* The VM has ended with output out: the keys to write, the keys that only the previous
\* incarnation modified, and whether one is new.
VmEnds(th, e, result) ==
  \E out \in {result} :
    LET old == modified_keys(task[th].txn)
        new == OutputKeys(out)
    IN  /\ Goto(th, "apply", [Idle EXCEPT !.outside = ~(new \subseteq old)])
        /\ Set(th, [e EXCEPT !.out = out, !.todo = new, !.stale = old \ new])

StartExecution(th) ==
  LET t == task[th].txn
  IN  /\ pc[th] = "run" /\ task[th].kind = "Execute" /\ ~HookWaits(th)
      /\ IF Reads(block, t) = <<>> THEN VmEnds(th, NoExec, Output(block, t, <<>>))
         ELSE Goto(th, "read", Idle) /\ UNCHANGED exec
      /\ UNCHANGED <<block, indices, statuses, condvar, memory, lastio, hooks>>

\* The read of a module, which is captured without its version, never waits: it finds no
\* module where there is an estimate.
ModuleRead(k, t) ==
  LET r == fetch_data(k, t)
  IN  Found("Module", -1, -1, IF r.kind = "Dependency" THEN -1
                              ELSE IF r = NotFound THEN Storage(k) ELSE r.val)

\* What a ReadDescriptor keeps of a read: the version of a write, the value of a resolved
\* aggregator, or that there was nothing to read but the storage.
Descriptor(k, r) ==
  [key |-> k, kind |-> r.kind, idx |-> r.idx, inc |-> r.inc,
   val |-> IF r.kind = "Resolved" THEN r.val ELSE 0]

\* get_state_value: one read of the VM, which ends after the last one.  An unresolved
\* aggregator gets its base value from storage and is read again.
Read(th) ==
  LET t == task[th].txn
      e == exec[th]
      k == Reads(block, t)[Len(e.reads) + 1]
  IN  /\ pc[th] = "read"
      /\ \E r \in {IF k \in Modules THEN ModuleRead(k, t) ELSE fetch_data(k, t)} :
           LET next == [e EXCEPT !.reads = Append(@, Descriptor(k, r)),
                                 !.vals = Append(@, IF r = NotFound THEN Storage(k) ELSE r.val)]
               ends == Len(next.reads) = Len(Reads(block, t))
           IN  /\ base_value' =
                    [base_value EXCEPT ![k] = IF r = Unresolved THEN Storage(k) ELSE @]
               /\ CASE r.kind = "Dependency" ->
                         Goto(th, "dependency", [Idle EXCEPT !.idx = r.idx]) /\ UNCHANGED exec
                    [] r = Unresolved -> UNCHANGED <<pc, task, loc, exec>>
                    [] r.kind # "Dependency" /\ r # Unresolved /\ ends ->
                         VmEnds(th, next, Output(block, t, next.vals))
                    [] OTHER -> Goto(th, "read", Idle) /\ Set(th, next)
      /\ UNCHANGED <<block, indices, statuses, condvar, versioned, lastio, hooks>>

\* A read has returned ExecutionHalted: the VM ends without output.
VmHalted(th) ==
  /\ pc[th] = "vm_halted"
  /\ VmEnds(th, exec[th], VmAborted)
  /\ UNCHANGED <<block, indices, statuses, condvar, memory, lastio, hooks>>

\* apply_updates: one write or delta, the writes first; then a key of the previous
\* incarnation is deleted.
Apply(th) ==
  LET t == task[th].txn
      e == exec[th]
      writes == e.todo \cap DOMAIN e.out.writes
      Put(k, entry) == versioned' = [versioned EXCEPT ![k][t] = entry]
  IN  /\ pc[th] = "apply"
      /\ \/ \E k \in writes :
              Put(k, Write(task[th].inc, e.out.writes[k])) /\ Set(th, [e EXCEPT !.todo = @ \ {k}])
         \/ \E k \in e.todo \ writes :
              /\ writes = {}
              /\ Put(k, Delta(e.out.deltas[k])) /\ Set(th, [e EXCEPT !.todo = @ \ {k}])
         \/ \E k \in e.stale :
              /\ e.todo = {}
              /\ Put(k, NoEntry) /\ Set(th, [e EXCEPT !.stale = @ \ {k}])
      /\ UNCHANGED <<block, scheduler, base_value, lastio, hooks>>

\* record: the modules that the execution has read and published are shown one by one,
\* each before the other set is looked at, unless an intersection is already known.
ModulesOf(e) ==
  [loads |-> {e.reads[i].key : i \in DOMAIN e.reads} \cap Modules,
   publishes |-> DOMAIN e.out.writes \cap Modules]

Applied(th) == pc[th] = "apply" /\ exec[th].todo = {} /\ exec[th].stale = {}
NothingToShow(e) == intersection \/ ModulesOf(e) = [loads |-> {}, publishes |-> {}]

StartRecord(th) ==
  LET paths == ModulesOf(exec[th])
  IN  /\ Applied(th) /\ ~NothingToShow(exec[th])
      /\ Goto(th, "show", loc[th])
      /\ Set(th, [exec[th] EXCEPT !.loads = paths.loads, !.publishes = paths.publishes])
      /\ UNCHANGED <<block, indices, statuses, condvar, memory, lastio, hooks>>

Path(e) == IF e.loads # {} THEN CHOOSE m \in e.loads : TRUE
           ELSE CHOOSE m \in e.publishes : TRUE

Show(th) ==
  LET e == exec[th]
  IN  /\ pc[th] = "show" /\ e.loads \cup e.publishes # {}
      /\ module_reads' = module_reads \cup (IF e.loads # {} THEN {Path(e)} ELSE {})
      /\ module_writes' = module_writes \cup (IF e.loads # {} THEN {} ELSE {Path(e)})
      /\ Goto(th, "look", loc[th])
      /\ UNCHANGED <<block, indices, statuses, condvar, memory, inputs, outputs, delta_writes,
                     intersection, exec, hooks>>

\* An intersection halts the scheduler: the block will be executed sequentially.
Look(th) ==
  LET e == exec[th]
      found == Path(e) \in IF e.loads # {} THEN module_writes ELSE module_reads
  IN  /\ pc[th] = "look"
      /\ IF found
         THEN /\ intersection' = TRUE
              /\ pc' = [pc EXCEPT ![th] = "halt"]
              /\ task' = [task EXCEPT ![th] = NoTask]
              /\ loc' = [loc EXCEPT ![th] = [Idle EXCEPT !.next = Top(th)]]
              /\ Set(th, NoExec)
         ELSE /\ UNCHANGED intersection
              /\ Goto(th, "show", loc[th])
              /\ Set(th, [e EXCEPT !.loads = @ \ {Path(e)},
                                   !.publishes = IF e.loads = {} THEN @ \ {Path(e)} ELSE @])
      /\ UNCHANGED <<block, indices, statuses, condvar, memory, inputs, outputs, delta_writes,
                     module_reads, module_writes, hooks>>

\* The inputs and the output are stored, and finish_execution is called.
Record(th) ==
  LET t == task[th].txn
      e == exec[th]
  IN  /\ \/ Applied(th) /\ NothingToShow(e)
         \/ pc[th] = "show" /\ e.loads \cup e.publishes = {}
      /\ inputs' = [inputs EXCEPT ![t] = e.reads]
      /\ outputs' = [outputs EXCEPT ![t] = e.out]
      /\ Goto(th, "executed", loc[th])
      /\ Set(th, NoExec)
      /\ UNCHANGED <<block, indices, statuses, condvar, memory, delta_writes, modules, hooks>>

-----------------------------------------------------------------------------
(* validate *)

\* The recorded read set is loaded and its reads done again, up to the first that differs.
StartValidation(th) ==
  LET reads == inputs[task[th].txn]
  IN  /\ pc[th] = "run" /\ task[th].kind = "Validate" /\ ~HookWaits(th)
      /\ Goto(th, IF reads = <<>> THEN "validated" ELSE "validate", Idle)
      /\ Set(th, [NoExec EXCEPT !.reads = reads])
      /\ UNCHANGED <<block, indices, statuses, condvar, memory, lastio, hooks>>

Validate(th) ==
  LET rd == Head(exec[th].reads)
      rest == Tail(exec[th].reads)
      r == fetch_data(rd.key, task[th].txn)
      valid == rd.kind = "Module" \/ rd = Descriptor(rd.key, r)
  IN  /\ pc[th] = "validate"
      /\ Goto(th, IF ~valid THEN "invalid" ELSE IF rest = <<>> THEN "validated"
                  ELSE "validate", Idle)
      /\ Set(th, [NoExec EXCEPT !.reads = IF valid THEN rest ELSE <<>>])
      /\ UNCHANGED <<block, indices, statuses, condvar, memory, lastio, hooks>>

\* The entries of the aborted incarnation become estimates before finish_abort.
MarkEstimate(th) ==
  LET t == task[th].txn
      todo == {k \in modified_keys(t) : ~versioned[k][t].estimate}
  IN  /\ pc[th] = "aborted"
      /\ IF todo = {} THEN Goto(th, "marked", Idle) /\ UNCHANGED versioned
         ELSE \E k \in todo :
                /\ versioned' = [versioned EXCEPT ![k][t].estimate = TRUE]
                /\ Goto(th, IF todo = {k} THEN "marked" ELSE "aborted", Idle)
      /\ UNCHANGED <<block, indices, statuses, condvar, base_value, lastio, exec, hooks>>

-----------------------------------------------------------------------------
ExecutorStep(th) ==
  \/ Commit(th) \/ SendLast(th) \/ StartHook(th) \/ Materialize(th) \/ EndHook(th)
  \/ Finish(th)
  \/ StartExecution(th) \/ Read(th) \/ VmHalted(th) \/ Apply(th)
  \/ StartRecord(th) \/ Show(th) \/ Look(th) \/ Record(th)
  \/ StartValidation(th) \/ Validate(th) \/ MarkEstimate(th)

\* The steps within a call of the scheduler, and the tasks that need nothing else.
SchedulerCall(th) ==
  /\ \/ SchedulerStep(th)
     \/ ~HookWaits(th) /\ (NextTask(th) \/ Wakeup(th))
  /\ UNCHANGED <<block, memory, lastio, exec, hooks>>

Step(th) == ExecutorStep(th) \/ SchedulerCall(th)

Next == \E th \in Threads : Step(th)

\* Every thread of the pool runs on.
Spec == Init /\ [][Next]_vars /\ \A th \in Threads : WF_vars(Step(th))

-----------------------------------------------------------------------------
(* Properties *)

AllFinished == \A th \in Threads : pc[th] = "finished"

\* The block run one transaction at a time, as execute_transactions_sequential does: the
\* output of a transaction on a state, and the state after the first n transactions.
SeqOutput(b, t, state) ==
  LET reads == Reads(b, t) IN Output(b, t, [i \in DOMAIN reads |-> state[reads[i]]])

SeqStates ==
  [b \in Blocks |->
     LET state[n \in 0..Size(b)] ==
           IF n = 0 THEN [k \in Keys |-> Storage(k)]
           ELSE LET old == state[n - 1]
                    out == SeqOutput(b, n - 1, old)
                IN  [k \in Keys |-> CASE k \in DOMAIN out.writes -> out.writes[k]
                                    [] k \in DOMAIN out.deltas -> old[k] + out.deltas[k]
                                    [] OTHER -> old[k]]
     IN  state]

SeqOutputs ==
  [b \in Blocks |-> [t \in 0..Size(b) - 1 |-> SeqOutput(b, t, SeqStates[b][t])]]

\* A transaction ends the block by its status, or by using up the gas.
SeqLengths ==
  [b \in Blocks |->
     LET Ends(t) ==
           \/ SeqOutputs[b][t].status # "Success"
           \/ GasLimit(b) # -1 /\ MapThenSumSet(LAMBDA i : Gas(b, i), 0..t) >= GasLimit(b)
     IN  Min({Size(b)} \cup {t + 1 : t \in {i \in 0..Size(b) - 1 : Ends(i)}})]

\* The outputs of the committed transactions are those of the sequential execution and
\* their entries in the map are their last writes, unless an intersection of module reads
\* and writes is known: what execute_transactions_parallel returns does not depend on how
\* the threads ran.
CommittedIsSequential ==
  intersection \/ \A t \in 0..commit_state.idx - 1 :
        LET out == SeqOutputs[block][t]
        IN  /\ outputs[t].writes = out.writes /\ outputs[t].deltas = out.deltas
            /\ \A k \in Keys :
                 CASE k \in DOMAIN out.writes ->
                        versioned[k][t] = Write(versioned[k][t].inc, out.writes[k])
                   [] k \in DOMAIN out.deltas ->
                        versioned[k][t] \in {Delta(out.deltas[k]),
                           [Delta(out.deltas[k]) EXCEPT !.shortcut = SeqStates[block][t + 1][k]]}
                   [] OTHER -> versioned[k][t] = NoEntry

\* When the threads have finished without an intersection, exactly the transactions that
\* the sequential execution runs are committed, the hook of each has been run, and the
\* deltas are materialized to the values of the sequential execution.
FinishedIsComplete ==
  AllFinished /\ ~intersection =>
    /\ commit_state.idx = SeqLengths[block]
    /\ \A t \in 0..commit_state.idx - 1 :
         delta_writes[t] = [k \in DOMAIN outputs[t].deltas |-> SeqStates[block][t + 1][k]]
    /\ \A th \in Threads : channel[th] = <<>>

\* None of the assertions fails: the statuses are as suspend, resume, set_executed_status
\* and set_aborted_status expect, write finds an older incarnation or none, delete and
\* mark_estimate find an entry, a commit hook can materialize its deltas, and the
\* coordinator has no execution task when it commits the last transaction.  They rest on
\* that a transaction is executed by one thread at a time.
AssertionsHold ==
  /\ pc[Coordinator] = "commit" /\ commit_state.idx = num_txns - 1 /\ CanCommit(num_txns - 1)
       => task[Coordinator].kind \notin {"Execute", "Wakeup"}
  /\ \A th \in Threads :
       LET t == task[th].txn
           At(p) == pc[th] = p
           Is(s) == txn_status[t] \in {Status(s, task[th].inc), Halted}
       IN  /\ At("dependency") \/ At("executed") => Is("Executing")
           /\ At("aborted") \/ At("marked") => Is("Aborting")
           /\ At("resume") => \A d \in loc[th].todo :
                txn_status[d] = Halted \/ txn_status[d].st = "Suspended"
           /\ At("apply") => /\ \A k \in exec[th].todo : versioned[k][t].inc < task[th].inc
                             /\ \A k \in exec[th].stale : versioned[k][t] # NoEntry
           /\ At("aborted") => \A k \in modified_keys(t) : versioned[k][t] # NoEntry
           /\ At("hook") => \A k \in exec[th].todo :
                fetch_data(k, Head(channel[th]) + 1).kind \in {"Resolved", "Unresolved"}
           /\ task[th].kind = "Execute" => \A other \in Threads \ {th} :
                ~(task[other].kind = "Execute" /\ task[other].txn = t)

\* The output that update_to_skip_rest takes is a successful one, as its unreachable!() says.
SkipRestIsOfSuccess == pc[Coordinator] # "panic"

\* Every thread finishes: no transaction is left behind by the two indices, no suspended
\* execution is left asleep, no lock is waited for in a circle, and a halt reaches every
\* thread.
Termination == <>AllFinished
=============================================================================
