--------------------------- MODULE MemoryProofs ---------------------------
EXTENDS BlockStm, SchedulerInvariant, TLAPS

(* What the executor's memory holds: the commit hooks in their channels, the     *)
(* columns of the multi-version memory, the last output of each transaction and  *)
(* the work a thread has in hand.  MemoryInv relates them to the status of each  *)
(* transaction; the lemmas show that every action of the executor keeps it as    *)
(* long as the scheduler's invariant holds, and that the two invariants imply    *)
(* the executor's assertions (AssertionsFollow).                                 *)

-----------------------------------------------------------------------------
(* The commit hooks *)

\* The transactions that wait for their hook are committed, and none is the coordinator's.
HooksInv ==
  /\ block \in Blocks /\ worker_idx \in 1..Len(Workers(block))
  /\ channel \in [Threads -> Seq(Nat)]
  /\ channel[Coordinator] = <<>>
  /\ \A th \in Threads : \A i \in 1..Len(channel[th]) : channel[th][i] < commit_state.idx

\* Committed transactions go to workers.
LEMMA SendIs ==
  ASSUME HooksInv, NEW t \in Nat, commit_state.idx \in Nat, commit_state'.idx \in Nat,
         t < commit_state'.idx, commit_state.idx <= commit_state'.idx, Send(t), block' = block
  PROVE  HooksInv'
<1> DEFINE w == Workers(block)[worker_idx]
<1>1. Len(Workers(block)) \in Nat \ {0} /\ worker_idx \in 1..Len(Workers(block)) /\ block \in Blocks
  BY StmAssumption DEF HooksInv
<1>2. w \in Threads \ {Coordinator}
  BY <1>1, StmAssumption
<1>3. worker_idx' \in 1..Len(Workers(block))
  BY <1>1 DEF Send
<1> HIDE DEF w
<1>4. channel' = [channel EXCEPT ![w] = Append(@, t)] /\ channel \in [Threads -> Seq(Nat)]
  BY Zenon DEF w, Send, HooksInv
<1>5. /\ channel' \in [Threads -> Seq(Nat)] /\ channel'[w] = Append(channel[w], t)
      /\ \A d \in Threads \ {w} : channel'[d] = channel[d]
  BY <1>2, <1>4
<1>6. ASSUME NEW d \in Threads, NEW i \in 1..Len(channel'[d]) PROVE channel'[d][i] < commit_state'.idx
  <2>1. channel[d] \in Seq(Nat) /\ \A j \in 1..Len(channel[d]) : channel[d][j] < commit_state.idx
    BY Zenon DEF HooksInv
  <2>2. CASE d = w
    <3>1. channel'[d] = Append(channel[d], t)
      BY <1>5, <2>2
    <3>2. i \in 1..Len(channel[d]) + 1
      BY <1>6, <2>1, <3>1
    <3>3. channel'[d][i] = IF i = Len(channel[d]) + 1 THEN t ELSE channel[d][i]
      BY <2>1, <3>1, <3>2
    <3>4. CASE i = Len(channel[d]) + 1
      BY <3>3, <3>4
    <3>5. CASE i # Len(channel[d]) + 1
      <4>1. i \in 1..Len(channel[d])
        BY <2>1, <3>2, <3>5
      <4>2. channel[d][i] \in Nat /\ channel[d][i] < commit_state.idx
        BY <2>1, <4>1
      <4> QED BY <3>3, <3>5, <4>2
    <3> QED BY <3>4, <3>5
  <2>3. CASE d # w
    BY <1>5, <1>6, <2>1, <2>3, SMTT(30)
  <2> QED BY <2>2, <2>3
<1>7. channel'[Coordinator] = <<>>
  BY <1>2, <1>5, SchedulerAssumption, Zenon DEF HooksInv
<1> QED BY <1>3, <1>5, <1>6, <1>7, Zenon DEF HooksInv

LEMMA EndHookIs ==
  ASSUME HooksInv, NEW th \in Threads, th # Coordinator, channel[th] # <<>>,
         commit_state' = commit_state, worker_idx' = worker_idx, block' = block,
         channel' = [channel EXCEPT ![th] = Tail(@)]
  PROVE  HooksInv'
<1>1. channel[th] \in Seq(Nat) /\ channel \in [Threads -> Seq(Nat)]
  BY Zenon DEF HooksInv
<1>2. Tail(channel[th]) \in Seq(Nat)
  BY <1>1
<1>3. /\ channel' \in [Threads -> Seq(Nat)] /\ channel'[th] = Tail(channel[th])
      /\ \A d \in Threads \ {th} : channel'[d] = channel[d]
  BY <1>1, <1>2
<1>4. ASSUME NEW d \in Threads, NEW i \in 1..Len(channel'[d]) PROVE channel'[d][i] < commit_state.idx
  <2>1. channel[d] \in Seq(Nat) /\ \A j \in 1..Len(channel[d]) : channel[d][j] < commit_state.idx
    BY Zenon DEF HooksInv
  <2>2. CASE d = th
    BY <1>3, <1>4, <2>1, <2>2
  <2> QED BY <1>3, <1>4, <2>1, <2>2, Zenon
<1>5. channel'[Coordinator] = <<>>
  BY <1>3, SchedulerAssumption, Zenon DEF HooksInv
<1> QED BY <1>3, <1>4, <1>5, Zenon DEF HooksInv

-----------------------------------------------------------------------------
(* The invariant of the multi-version map *)

\* What the VM returns: the keys it writes are not those it adds deltas to.
IsOutput(out) ==
  /\ DOMAIN out = {"status", "writes", "deltas"}
  /\ OutputKeys(out) \subseteq Keys
  /\ DOMAIN out.writes \cap DOMAIN out.deltas = {}
VmOutputs == \A b, t, vals : IsOutput(Output(b, t, vals))

IsExec(e) ==
  /\ DOMAIN e = {"reads", "vals", "out", "todo", "stale", "loads", "publishes"}
  /\ IsOutput(e.out)

IsEntry(en) ==
  /\ DOMAIN en = {"cell", "inc", "val", "shortcut", "estimate"}
  /\ en.inc \in Int /\ en.estimate \in BOOLEAN
  /\ en.cell = "None" => ~en.estimate

MemoryType ==
  /\ DOMAIN exec = Threads /\ \A th \in Threads : IsExec(exec[th])
  /\ DOMAIN versioned = Keys
  /\ \A k \in Keys : DOMAIN versioned[k] = Txns /\ \A t \in Txns : IsEntry(versioned[k][t])
  /\ DOMAIN outputs = Txns /\ \A t \in Txns : IsOutput(outputs[t])

\* The entries of a transaction are those of its recorded output,
Matches(t) == \A k \in Keys : versioned[k][t].cell # "None" <=> k \in modified_keys(t)
\* are no estimates and have the deltas,
Clean(t) ==
  \A k \in Keys : /\ ~versioned[k][t].estimate
                  /\ k \in DOMAIN outputs[t].deltas => versioned[k][t].cell = "Delta"
\* and come from incarnations before i.
Older(t, i) == \A k \in Keys : versioned[k][t].inc < i

\* What a status says of the entries of its transaction.
StatusFits(t, s) ==
  /\ s.st \notin {"Executing", "ExecutionHalted"} => Matches(t)
  /\ s.st \in {"Ready", "Suspended"} => Older(t, s.inc)
  /\ s.st \in {"Executed", "Aborting"} => Older(t, s.inc + 1)
  /\ s.st = "Executed" => Clean(t)

ColumnInv(t) ==
  /\ StatusFits(t, txn_status[t])
  /\ t < commit_state.idx => Matches(t) /\ Clean(t)

\* While the output of an execution is applied, the entries are those of the keys done,
\* with the old ones of the keys that are not.
Applies(t, i, e) ==
  LET new == OutputKeys(e.out)
  IN  /\ e.todo \subseteq new
      /\ e.stale \subseteq modified_keys(t) \ new
      /\ \A k \in Keys : versioned[k][t].cell # "None" <=>
           k \in (new \ e.todo) \cup (e.todo \cap modified_keys(t)) \cup e.stale
      /\ \A k \in new \ e.todo : /\ ~versioned[k][t].estimate
                                 /\ k \in DOMAIN e.out.deltas => versioned[k][t].cell = "Delta"
      /\ \A k \in e.todo : versioned[k][t].inc < i

\* What a thread at p with task tk knows of the entries of the transaction.
Works(p, tk, e) ==
  /\ tk.kind = "Execute" /\ p \notin Finishing =>
       /\ Older(tk.txn, tk.inc + 1)
       /\ p \notin Applying => Matches(tk.txn)
       /\ p \notin Applying \cup {"executed"} => Older(tk.txn, tk.inc)
       /\ p = "executed" => Clean(tk.txn)
  /\ p \in Marking => Matches(tk.txn)
  /\ p \in Applying => Applies(tk.txn, tk.inc, e)
  /\ p \in {"show", "look"} => e.todo = {} /\ e.stale = {}

\* A worker in a hook has a transaction, whose deltas it materializes.
HookInv(th) ==
  pc[th] = "hook" => /\ channel[th] # <<>>
                     /\ exec[th].todo \subseteq DOMAIN outputs[Head(channel[th])].deltas

WorkInv(th) == Works(pc[th], task[th], exec[th]) /\ HookInv(th)

MemoryInv ==
  /\ VmOutputs /\ MemoryType /\ HooksInv
  /\ \A t \in Txns : ColumnInv(t)
  /\ \A th \in Threads : WorkInv(th)

\* The task of a thread by where it is.
LEMMA TaskAt ==
  ASSUME SchedulerInv, NEW th \in Threads
  PROVE  /\ Kind(th) \in Kinds /\ Txn(th) \in Txns /\ Inc(th) \in Nat /\ IsLocal(loc[th])
         /\ pc[th] \in Looking => Kind(th) = "NoTask"
         /\ pc[th] \in Running \cup Applying \cup {"executed", "resume", "require"}
              => Kind(th) = "Execute"
         /\ pc[th] \in Checking \cup Marking \cup {"reexecute"} => Kind(th) = "Validate"
         /\ pc[th] \in {"decrease", "update"} => Kind(th) \in {"Execute", "Validate"}
BY Zenon DEF SchedulerInv, LocalType, IsTask, ThreadInv, PcFits, Kind, Txn, Inc

-----------------------------------------------------------------------------
(* Steps that leave the entries of a transaction alone *)

\* Only the value and the shortcut of an entry may change, and the status of the output.
Kept(t) ==
  /\ \A k \in Keys : /\ versioned'[k][t].cell = versioned[k][t].cell
                     /\ versioned'[k][t].inc = versioned[k][t].inc
                     /\ versioned'[k][t].estimate = versioned[k][t].estimate
  /\ modified_keys(t)' = modified_keys(t) /\ outputs'[t].deltas = outputs[t].deltas

LEMMA KeptIs ==
  ASSUME NEW t, Kept(t)
  PROVE  /\ Matches(t)' <=> Matches(t)
         /\ Clean(t)' <=> Clean(t)
         /\ \A i : Older(t, i)' <=> Older(t, i)
BY Zenon DEF Kept, Matches, Clean, Older

LEMMA ColumnKept ==
  ASSUME NEW t, Kept(t), NEW s, s = txn_status'[t], StatusFits(t, s),
         t < commit_state'.idx => Matches(t) /\ Clean(t)
  PROVE  ColumnInv(t)'
<1>1. StatusFits(t, s)'
  BY KeptIs, Zenon DEF StatusFits
<1>2. StatusFits(t, txn_status[t])'
  BY <1>1, Zenon DEF StatusFits
<1> QED BY <1>2, KeptIs, Zenon DEF ColumnInv

LEMMA AppliesKept ==
  ASSUME NEW t, Kept(t), NEW i, NEW e, Applies(t, i, e), IsExec(e)
  PROVE  Applies(t, i, e)'
<1>1. OutputKeys(e.out) \subseteq Keys
  BY Zenon DEF IsExec, IsOutput
<1>2. \A k \in OutputKeys(e.out) : k \in Keys
  BY <1>1, Zenon
<1>3. \A k \in e.todo : k \in Keys
  BY <1>2, Zenon DEF Applies
<1> QED BY <1>2, <1>3, Zenon DEF Applies, Kept

LEMMA WorksKept ==
  ASSUME NEW p, NEW tk, NEW e, IsExec(e), Works(p, tk, e),
         (tk.kind = "Execute" /\ p \notin Finishing) \/ p \in Marking => Kept(tk.txn),
         p \in Applying => tk.kind = "Execute"
  PROVE  Works(p, tk, e)'
<1>1. CASE Kept(tk.txn)
  <2>1. /\ Matches(tk.txn)' <=> Matches(tk.txn)
        /\ Clean(tk.txn)' <=> Clean(tk.txn)
        /\ \A i : Older(tk.txn, i)' <=> Older(tk.txn, i)
    BY <1>1, KeptIs, Zenon
  <2>2. Applies(tk.txn, tk.inc, e) => Applies(tk.txn, tk.inc, e)'
    BY <1>1, AppliesKept, Zenon
  <2> QED BY <2>1, <2>2, Zenon DEF Works
<1>2. CASE ~Kept(tk.txn)
  <2>1. p \notin Applying /\ p \notin Marking /\ ~(tk.kind = "Execute" /\ p \notin Finishing)
    BY <1>2 DEF Applying, Finishing
  <2>2. p \notin {"show", "look"}
    BY <2>1 DEF Applying
  <2> QED BY <2>1, <2>2, Zenon DEF Works
<1> QED BY <1>1, <1>2

\* The transaction whose hook a worker runs is committed.
LEMMA HookIsCommitted ==
  ASSUME SchedulerInv, HooksInv, NEW th \in Threads, channel[th] # <<>>
  PROVE  Head(channel[th]) \in Txns /\ Head(channel[th]) < commit_state.idx
<1>1. channel[th] \in Seq(Nat)
  BY Zenon DEF HooksInv
<1>2. Head(channel[th]) = channel[th][1] /\ 1 \in 1..Len(channel[th]) /\ channel[th][1] \in Nat
  BY <1>1
<1>3. channel[th][1] < commit_state.idx
  BY <1>2, Zenon DEF HooksInv
<1> QED BY <1>2, <1>3 DEF SchedulerInv, SharedType, IsIndex, Txns

\* The transaction that a thread owns.
Owns(th, t) == t = Txn(th) /\ (Exe(th) \/ Abt(th))

\* What the other threads know stays true.
LEMMA OthersKeep ==
  ASSUME SchedulerInv, MemoryInv, NEW th \in Threads, Moves(th),
         \A t \in Txns : Kept(t) \/ Owns(th, t),
         NEW d \in Threads \ {th}, exec'[d] = exec[d],
         pc[d] = "hook" => channel'[d] # <<>> /\ Head(channel'[d]) = Head(channel[d])
  PROVE  WorkInv(d)'
<1> DEFINE p == pc[d]
           tk == task[d]
           e == exec[d]
<1>1. p' = p /\ tk' = tk /\ e' = e
  BY Zenon DEF Moves, Same
<1>2. Works(p, tk, e) /\ IsExec(e)
  BY Zenon DEF MemoryInv, WorkInv, MemoryType
<1>3. tk.txn \in Txns /\ (p \in Applying => tk.kind = "Execute")
  BY TaskAt, Zenon DEF Txn, Kind
<1>4. (tk.kind = "Execute" /\ p \notin Finishing) \/ p \in Marking => Kept(tk.txn)
  <2>1. Exe(d) \/ Abt(d) => ~Owns(th, Txn(d))
    BY Zenon DEF SchedulerInv, Alone, Owns, Exe
  <2> QED BY <1>3, <2>1, Zenon DEF Exe, Abt, Kind, Txn
<1>5. \E q, r, s : q = p /\ r = tk /\ s = e
  OBVIOUS
<1>6. Works(pc[d], task[d], exec[d])'
  <2>1. PICK q, r, s : q = p /\ r = tk /\ s = e
    BY <1>5
  <2>2. Works(q, r, s)'
    BY <1>2, <1>3, <1>4, <2>1, WorksKept, Zenon
  <2>3. q = pc'[d] /\ r = task'[d] /\ s = exec'[d]
    BY <1>1, <2>1, Zenon
  <2> QED BY <2>2, <2>3, Zenon DEF Works, Applies
<1>7. HookInv(d)'
  <2> SUFFICES ASSUME pc[d] = "hook"
               PROVE  /\ channel'[d] # <<>>
                      /\ exec'[d].todo \subseteq DOMAIN outputs'[Head(channel'[d])].deltas
    BY <1>1, Zenon DEF HookInv
  <2> DEFINE u == Head(channel[d])
  <2>1. channel[d] # <<>> /\ exec[d].todo \subseteq DOMAIN outputs[u].deltas
    BY Zenon DEF MemoryInv, WorkInv, HookInv
  <2>2. u \in Txns /\ u < commit_state.idx
    BY <2>1, HookIsCommitted, Zenon DEF MemoryInv
  <2> HIDE DEF u
  <2>3. ~Owns(th, u)
    BY <2>2, Zenon DEF SchedulerInv, CommitInv, Owns, Exe
  <2>4. outputs'[u].deltas = outputs[u].deltas
    BY <2>2, <2>3, Zenon DEF Kept
  <2> QED BY <1>1, <2>1, <2>4, Zenon DEF u
<1> QED BY <1>6, <1>7, Zenon DEF WorkInv

\* A step that leaves the entries of every transaction alone.
LEMMA MemoryStep ==
  ASSUME SchedulerInv, MemoryInv, SchedulerInv', NEW th \in Threads, Moves(th),
         num_txns' = num_txns, MemoryType', HooksInv', \A t \in Txns : Kept(t),
         \A d \in Threads \ {th} : exec'[d] = exec[d],
         \A d \in Threads \ {th} :
           pc[d] = "hook" => channel'[d] # <<>> /\ Head(channel'[d]) = Head(channel[d]),
         \A t \in Txns : txn_status'[t] = txn_status[t] \/ StatusFits(t, txn_status'[t]),
         \A t \in Txns : t < commit_state'.idx => t < commit_state.idx \/ (Matches(t) /\ Clean(t)),
         Works(pc'[th], task'[th], exec'[th]), HookInv(th)'
  PROVE  MemoryInv'
<1>1. \A d \in Threads \ {th} : WorkInv(d)'
  BY OthersKeep, Zenon
<1>2. ASSUME NEW t \in Txns PROVE ColumnInv(t)'
  <2>1. ColumnInv(t)
    BY Zenon DEF MemoryInv
  <2>2. PICK s : s = txn_status'[t]
    OBVIOUS
  <2>3. StatusFits(t, s)
    BY <2>1, <2>2, Zenon DEF ColumnInv
  <2>4. t < commit_state'.idx => Matches(t) /\ Clean(t)
    BY <2>1, Zenon DEF ColumnInv
  <2> QED BY <2>2, <2>3, <2>4, ColumnKept, Zenon
<1>3. WorkInv(th)'
  <2>1. PICK q, r, s : q = pc'[th] /\ r = task'[th] /\ s = exec'[th]
    OBVIOUS
  <2>2. IsExec(s) /\ Works(q, r, s)
    BY <2>1, Zenon DEF MemoryType
  <2>3. r.txn \in Txns /\ (q \in Applying => r.kind = "Execute")
    <3>1. IsTask(task[th])' /\ PcFits(pc[th], Kind(th))'
      BY Zenon DEF SchedulerInv, LocalType, ThreadInv
    <3> QED BY <2>1, <3>1, Zenon DEF IsTask, PcFits, Kind, Txns
  <2>4. Works(q, r, s)'
    BY <2>2, <2>3, WorksKept, Zenon
  <2> QED BY <2>1, <2>4, Zenon DEF WorkInv, Works, Applies
<1>4. \A t \in Txns' : ColumnInv(t)'
  BY <1>2, Zenon DEF Txns
<1>5. VmOutputs'
  BY Zenon DEF MemoryInv, VmOutputs
<1> QED BY <1>1, <1>3, <1>4, <1>5, Zenon DEF MemoryInv

-----------------------------------------------------------------------------
(* The calls of the scheduler *)

\* The places where a thread with a task to execute has not begun to apply an output.
Free(p) == p \notin Applying \cup Marking \cup Finishing \cup {"executed"}
\* The entries before an incarnation is applied.
Fresh(t, i) == Matches(t) /\ Older(t, i)

LEMMA FreeIs ==
  ASSUME NEW p, Free(p), NEW tk, tk.inc \in Nat, NEW e, NEW f
  PROVE  /\ Works(p, tk, e) => (tk.kind = "Execute" => Fresh(tk.txn, tk.inc))
         /\ (tk.kind = "Execute" => Fresh(tk.txn, tk.inc)) /\ MemoryType /\ tk.txn \in Txns
              => Works(p, tk, f)
<1>1. p \notin Applying /\ p \notin Marking /\ p \notin Finishing /\ p # "executed"
      /\ p \notin {"show", "look"}
  BY DEF Free, Applying
<1>2. MemoryType /\ tk.txn \in Txns /\ Older(tk.txn, tk.inc) => Older(tk.txn, tk.inc + 1)
  BY DEF MemoryType, IsEntry, Older
<1> QED BY <1>1, <1>2, Zenon DEF Works, Fresh

LEMMA FinishingIs ==
  ASSUME NEW p \in Finishing, NEW tk, NEW e
  PROVE  Works(p, tk, e)
<1>1. p \notin Applying /\ p \notin Marking /\ p \notin {"show", "look"}
  BY DEF Finishing, Applying, Marking
<1> QED BY <1>1, Zenon DEF Works

\* A step after which a thread knows nothing new of the entries.
Ordinary(th) ==
  /\ Moves(th) /\ pc'[th] # "hook"
  /\ \/ pc'[th] \in Finishing
     \/ Free(pc'[th]) /\ (task'[th].kind = "Execute" => task'[th] = task[th] /\ Free(pc[th]))

LEMMA OrdinaryWorks ==
  ASSUME SchedulerInv, MemoryInv, SchedulerInv', num_txns' = num_txns,
         NEW th \in Threads, Ordinary(th), NEW e
  PROVE  Works(pc'[th], task'[th], e) /\ HookInv(th)'
<1>1. HookInv(th)'
  BY Zenon DEF Ordinary, HookInv
<1>2. CASE pc'[th] \in Finishing
  BY <1>1, <1>2, FinishingIs, Zenon
<1>3. CASE pc'[th] \notin Finishing
  <2>1. Free(pc'[th]) /\ (task'[th].kind = "Execute" => task'[th] = task[th] /\ Free(pc[th]))
    BY <1>3, Zenon DEF Ordinary
  <2>2. Works(pc[th], task[th], exec[th]) /\ MemoryType
    BY Zenon DEF MemoryInv, WorkInv
  <2>3. task[th].inc \in Nat /\ task'[th].inc \in Nat /\ task'[th].txn \in Txns
    BY Zenon DEF SchedulerInv, LocalType, IsTask, Txns
  <2>4. task'[th].kind = "Execute" => Fresh(task'[th].txn, task'[th].inc)
    BY <2>1, <2>2, <2>3, FreeIs, Zenon
  <2>5. Works(pc'[th], task'[th], e)
    BY <2>1, <2>2, <2>3, <2>4, FreeIs, Zenon
  <2> QED BY <1>1, <2>5, Zenon
<1> QED BY <1>2, <1>3, Zenon

LEMMA AllKept ==
  ASSUME UNCHANGED <<num_txns, versioned, outputs>>
  PROVE  \A t : Kept(t)
BY Zenon DEF Kept, modified_keys

LEMMA TypeNext ==
  ASSUME num_txns' = num_txns,
         DOMAIN exec' = Threads, \A th \in Threads : IsExec(exec'[th]),
         DOMAIN versioned' = Keys, \A k \in Keys : DOMAIN versioned'[k] = Txns,
         \A k \in Keys : \A t \in Txns : IsEntry(versioned'[k][t]),
         DOMAIN outputs' = Txns, \A t \in Txns : IsOutput(outputs'[t])
  PROVE  MemoryType'
<1>1. \A th \in Threads : IsExec(exec[th])'
  BY Zenon DEF IsExec, IsOutput, OutputKeys
<1>2. \A k \in Keys : \A t \in Txns : IsEntry(versioned[k][t])'
  BY Zenon DEF IsEntry
<1>3. \A t \in Txns : IsOutput(outputs[t])'
  BY Zenon DEF IsOutput, OutputKeys
<1> QED BY <1>1, <1>2, <1>3, Zenon DEF MemoryType, Txns

LEMMA TypeKept ==
  ASSUME MemoryType, UNCHANGED <<num_txns, versioned, outputs>>, NEW th \in Threads,
         DOMAIN exec' = Threads, IsExec(exec'[th]), \A d \in Threads \ {th} : exec'[d] = exec[d]
  PROVE  MemoryType'
<1>1. \A d \in Threads : IsExec(exec'[d])
  BY Zenon DEF MemoryType
<1> QED BY <1>1, TypeNext, Zenon DEF MemoryType

\* A call of the scheduler.
Outside == UNCHANGED <<block, memory, lastio, exec, hooks>>

LEMMA CallKeeps ==
  ASSUME SchedulerInv, MemoryInv, SchedulerInv', Outside, num_txns' = num_txns,
         commit_state'.idx = commit_state.idx, NEW th \in Threads, Moves(th),
         \A t \in Txns : txn_status'[t] = txn_status[t] \/ StatusFits(t, txn_status'[t]),
         Works(pc'[th], task'[th], exec[th]), pc'[th] # "hook"
  PROVE  MemoryInv'
<1>1. UNCHANGED <<num_txns, versioned, outputs, exec, channel, worker_idx, block>>
  BY Zenon DEF Outside, memory, lastio, hooks
<1>2. MemoryType'
  BY <1>1, TypeKept, Zenon DEF MemoryInv, MemoryType
<1>3. HooksInv'
  BY <1>1, Zenon DEF MemoryInv, HooksInv
<1>4. \A d \in Threads \ {th} :
        pc[d] = "hook" => channel'[d] # <<>> /\ Head(channel'[d]) = Head(channel[d])
  BY <1>1, Zenon DEF MemoryInv, WorkInv, HookInv
<1>5. HookInv(th)'
  BY Zenon DEF HookInv
<1>6. Works(pc'[th], task'[th], exec'[th])
  BY <1>1, Zenon
<1> QED BY <1>1, <1>2, <1>3, <1>4, <1>5, <1>6, AllKept, MemoryStep, Zenon

LEMMA OrdinaryKeeps ==
  ASSUME SchedulerInv, MemoryInv, SchedulerInv', Outside, num_txns' = num_txns,
         commit_state'.idx = commit_state.idx, NEW th \in Threads, Ordinary(th),
         \A t \in Txns : txn_status'[t] = txn_status[t] \/ StatusFits(t, txn_status'[t])
  PROVE  MemoryInv'
<1>1. Works(pc'[th], task'[th], exec[th])
  BY OrdinaryWorks, Zenon
<1> QED BY <1>1, CallKeeps, Zenon DEF Ordinary

LEMMA FreePcs ==
  /\ \A p \in Waiting \cup Looking \cup Running \cup Checking \cup {"reexecute", "finished"} : Free(p)
  /\ {"commit", "run", "halt", "resolve", "send", "panic", "hook"} \subseteq Waiting
BY DEF Free, Waiting, Looking, Running, Checking, Applying, Marking, Finishing

LEMMA Goes ==
  ASSUME SchedulerInv, NEW th \in Threads, NEW p, NEW l, Goto(th, p, l), p # "hook",
         p \in Finishing \/ (Free(p) /\ (Free(pc[th]) \/ Kind(th) # "Execute"))
  PROVE  Ordinary(th)
<1>1. Moves(th) /\ pc'[th] = p /\ task'[th] = task[th]
  BY DEF SchedulerInv, LocalType, Goto, Moves, Same
<1> QED BY <1>1, Zenon DEF Ordinary, Kind

LEMMA Returned ==
  ASSUME SchedulerInv, NEW th \in Threads, NEW tk, Return(th, tk)
  PROVE  /\ Moves(th) /\ pc'[th] = Top(th) /\ task'[th] = tk
         /\ Top(th) # "hook" /\ Free(Top(th))
<1>1. Moves(th) /\ pc'[th] = Top(th) /\ task'[th] = tk
  BY DEF SchedulerInv, LocalType, Return, Moves, Same
<1>2. Top(th) # "hook" /\ Top(th) \in {"commit", "run"}
  BY DEF Top
<1> QED BY <1>1, <1>2, FreePcs, Zenon

LEMMA Returns ==
  ASSUME SchedulerInv, NEW th \in Threads, NEW tk, Return(th, tk), tk.kind # "Execute"
  PROVE  Ordinary(th)
BY Returned, Zenon DEF Ordinary

LEMMA TaskKinds ==
  /\ NoTask.kind # "Execute" /\ Done.kind # "Execute"
  /\ \A t, i, w : ValidationTask(t, i, w).kind # "Execute"
BY DEF NoTask, Done, ValidationTask

\* Looking for a task.
LEMMA LookingKeeps ==
  ASSUME SchedulerInv, NEW th \in Threads,
         \/ NextTask(th) \/ Choose(th) \/ Claim(th) \/ Claimed(th) \/ FetchAdd(th)
  PROVE  Ordinary(th)
<1>1. \A p \in {"next_task", "choose", "claim", "claimed", "fetch_add", "incarnate", "run"} :
        Free(p) /\ p # "hook"
  BY FreePcs DEF Looking
<1>2. CASE NextTask(th)
  <2>1. Free(pc[th])
    BY <1>1, <1>2, Zenon DEF NextTask
  <2> QED BY <1>1, <1>2, <2>1, Goes, Returns, TaskKinds, Zenon DEF NextTask
<1>3. CASE Choose(th)
  BY <1>1, <1>3, Goes, Returns, TaskKinds, Zenon DEF Choose
<1>4. CASE Claim(th)
  BY <1>1, <1>4, Goes, Zenon DEF Claim
<1>5. CASE Claimed(th)
  BY <1>1, <1>5, Goes, Returns, TaskKinds, Zenon DEF Claimed
<1>6. CASE FetchAdd(th)
  BY <1>1, <1>6, Goes, Zenon DEF FetchAdd
<1> QED BY <1>2, <1>3, <1>4, <1>5, <1>6, Zenon

\* finish_execution after the status is set.
LEMMA FinishingKeeps ==
  ASSUME SchedulerInv, NEW th \in Threads,
         Revalidate(th) \/ Require(th) \/ Decrease(th) \/ Update(th) \/ Release(th)
  PROVE  Ordinary(th)
<1>1. /\ \A p \in {"decrease", "require", "update"} : p \in Finishing /\ p # "hook"
      /\ Free("reexecute") /\ "reexecute" # "hook"
  BY FreePcs DEF Finishing
<1>2. CASE Revalidate(th)
  BY <1>1, <1>2, Goes, Returns, TaskKinds, Zenon DEF Revalidate
<1>3. CASE Require(th)
  BY <1>3, Returns, TaskKinds, Zenon DEF Require
<1>4. ASSUME NEW l, Goto(th, Decreased(th), l) PROVE Ordinary(th)
  BY <1>1, <1>4, Goes, Zenon DEF Decreased, Kind
<1>5. CASE Decrease(th)
  BY <1>1, <1>4, <1>5, Goes, Zenon DEF Decrease
<1>6. CASE Update(th)
  BY <1>1, <1>4, <1>6, Goes, Zenon DEF Update
<1>7. CASE Release(th)
  BY <1>1, <1>7, Goes, Zenon DEF Release
<1> QED BY <1>2, <1>3, <1>5, <1>6, <1>7, Zenon

LEMMA WaitingKeeps ==
  ASSUME SchedulerInv, NEW th \in Threads,
         \/ NothingToCommit(th) \/ Halt(th) \/ WokenUp(th) \/ Wakeup(th) \/ FinishValidation(th)
  PROVE  Ordinary(th)
<1>1. \A p \in {"commit", "run", "resolve", "send", "halt", "read", "wait", "vm_halted"} :
        Free(p) /\ p # "hook"
  BY FreePcs DEF Running
<1>2. CASE NothingToCommit(th)
  BY <1>1, <1>2, Goes, Zenon DEF NothingToCommit
<1>3. CASE Halt(th)
  <2>1. loc[th].next \in {"send", "commit", "run"} /\ Free(pc[th])
    <3>1. pc[th] = "halt" /\ loc[th].next \in {"send", Top(th)}
      BY <1>3, Zenon DEF Halt, SchedulerInv, ThreadInv, CallInv
    <3>2. Top(th) \in {"commit", "run"}
      BY DEF Top
    <3> QED BY <1>1, <3>1, <3>2, Zenon
  <2> QED BY <1>1, <1>3, <2>1, Goes, Zenon DEF Halt
<1>4. CASE WokenUp(th)
  BY <1>1, <1>4, Goes, Zenon DEF WokenUp
<1>5. CASE Wakeup(th)
  BY <1>5, Returns, TaskKinds, Zenon DEF Wakeup
<1>6. CASE FinishValidation(th)
  BY <1>6, Returns, TaskKinds, Zenon DEF FinishValidation
<1> QED BY <1>2, <1>3, <1>4, <1>5, <1>6, Zenon

LEMMA QuietCalls ==
  ASSUME SchedulerInv, MemoryInv, SchedulerInv', Outside, NEW th \in Threads,
         \/ NothingToCommit(th) \/ Halt(th) \/ WokenUp(th) \/ Wakeup(th) \/ FinishValidation(th)
         \/ NextTask(th) \/ Choose(th) \/ Claim(th) \/ Claimed(th) \/ FetchAdd(th)
         \/ Revalidate(th) \/ Require(th) \/ Decrease(th) \/ Update(th) \/ Release(th)
  PROVE  MemoryInv'
<1>1. num_txns' = num_txns /\ txn_status' = txn_status
  BY Zenon DEF NothingToCommit, Halt, WokenUp, Wakeup, FinishValidation, NextTask, Choose,
               Claim, Claimed, FetchAdd, Revalidate, Require, Decrease, Update, Release,
               statuses
<1>2. commit_state'.idx = commit_state.idx
  <2>1. CASE NothingToCommit(th)
    BY <2>1 DEF NothingToCommit, SchedulerInv, SharedType, IsIndex
  <2> QED BY <2>1, Zenon DEF Halt, WokenUp, Wakeup, FinishValidation, NextTask, Choose,
               Claim, Claimed, FetchAdd, Revalidate, Require, Decrease, Update, Release,
               indices
<1>3. Ordinary(th)
  BY LookingKeeps, FinishingKeeps, WaitingKeeps, Zenon
<1> QED BY <1>1, <1>2, <1>3, OrdinaryKeeps, Zenon

\* The calls that change the status of a transaction.
LEMMA OneStatus ==
  ASSUME SchedulerInv, NEW t, NEW s, StatusFits(t, s), txn_status' = [txn_status EXCEPT ![t] = s]
  PROVE  \A u \in Txns : txn_status'[u] = txn_status[u] \/ StatusFits(u, txn_status'[u])
<1>1. \A u \in Txns : txn_status'[u] = IF u = t THEN s ELSE txn_status[u]
  BY DEF SchedulerInv, SharedType
<1> QED BY <1>1, Zenon

LEMMA StatusOf ==
  /\ \A s, i : Status(s, i).st = s /\ Status(s, i).inc = i
  /\ Halted.st = "ExecutionHalted"
BY DEF Status, Halted

LEMMA FitsAlways ==
  ASSUME NEW t
  PROVE  StatusFits(t, Halted) /\ \A i : StatusFits(t, Status("Executing", i))
BY StatusOf DEF StatusFits

\* A transaction is taken for execution.
LEMMA TakeKeepsMemory ==
  ASSUME SchedulerInv, MemoryInv, SchedulerInv', Outside, UNCHANGED <<indices, num_txns>>,
         NEW th \in Threads, NEW t \in Txns, Ready(t), SetExecuting(t),
         Return(th, ExecutionTask(t, txn_status[t]))
  PROVE  MemoryInv'
<1> DEFINE s == txn_status[t]
           tk == ExecutionTask(t, s)
<1>1. tk.txn = t /\ tk.inc = s.inc
  BY DEF ExecutionTask
<1>2. s.inc \in Nat /\ s.st = "Ready" /\ StatusFits(t, s) /\ MemoryType
  <2>1. s \in Statuses
    BY DEF SchedulerInv, SharedType
  <2>2. s.inc \in Nat
    BY <2>1 DEF Statuses
  <2> QED BY <2>2, Zenon DEF Ready, MemoryInv, ColumnInv
<1>3. Fresh(t, s.inc)
  BY <1>2 DEF StatusFits, Fresh
<1>4. StatusFits(t, Status("Executing", s.inc))
  BY FitsAlways, Zenon
<1>5. \A u \in Txns : txn_status'[u] = txn_status[u] \/ StatusFits(u, txn_status'[u])
  BY <1>4, OneStatus, Zenon DEF SetExecuting
<1>6. Moves(th) /\ pc'[th] = Top(th) /\ task'[th] = tk /\ Top(th) # "hook" /\ Free(Top(th))
  BY Returned, Zenon
<1> HIDE DEF tk
<1>7. Works(pc'[th], task'[th], exec[th])
  BY <1>1, <1>2, <1>3, <1>6, FreeIs, Zenon
<1> QED BY <1>5, <1>6, <1>7, CallKeeps, Zenon DEF indices

LEMMA TakesKeep ==
  ASSUME SchedulerInv, MemoryInv, SchedulerInv', Outside, NEW th \in Threads,
         Incarnate(th) \/ Reexecute(th)
  PROVE  MemoryInv'
<1>1. UNCHANGED <<indices, num_txns>> /\ commit_state'.idx = commit_state.idx
  BY Zenon DEF Incarnate, Reexecute, indices
<1>2. loc[th].idx \in Txns /\ task[th].txn \in Txns
  BY Zenon DEF SchedulerInv, LocalType, IsLocal, IsTask
<1>3. CASE UNCHANGED txn_status /\ Ordinary(th)
  BY <1>1, <1>3, OrdinaryKeeps, Zenon
<1>4. CASE Incarnate(th)
  <2>1. Free("incarnate") /\ Free("next_task") /\ "next_task" # "hook"
    BY FreePcs DEF Looking
  <2>2. CASE ~Ready(loc[th].idx)
    BY <1>3, <1>4, <2>1, <2>2, Goes, Zenon DEF Incarnate
  <2> QED BY <1>1, <1>2, <1>3, <1>4, <2>1, <2>2, TakeKeepsMemory, Zenon DEF Incarnate
<1>5. CASE Reexecute(th)
  BY <1>1, <1>2, <1>3, <1>5, TakeKeepsMemory, Returns, TaskKinds, Zenon DEF Reexecute
<1> QED BY <1>4, <1>5, Zenon

LEMMA UnhaltedFits ==
  ASSUME NEW t, NEW s, txn_status[t] # Halted => StatusFits(t, s)
  PROVE  StatusFits(t, Unhalted(t, s))
BY FitsAlways, Zenon DEF Unhalted

LEMMA WaitForDependencyKeepsMemory ==
  ASSUME SchedulerInv, MemoryInv, SchedulerInv', Outside, NEW th \in Threads, WaitForDependency(th)
  PROVE  MemoryInv'
<1> DEFINE t == task[th].txn
           s == [txn_status[t] EXCEPT !.st = "Suspended", !.cv = th]
<1>1. num_txns' = num_txns /\ commit_state'.idx = commit_state.idx /\ pc[th] = "dependency"
  BY Zenon DEF WaitForDependency, indices
<1>2. Free("dependency") /\ \A p \in {"read", "wait", "vm_halted"} : Free(p) /\ p # "hook"
  BY FreePcs DEF Running
<1>3. Ordinary(th)
  BY <1>1, <1>2, Goes, Zenon DEF WaitForDependency
<1>4. CASE txn_status[t] # Halted /\ txn_status' = [txn_status EXCEPT ![t] = s]
  <2>1. pc[th] \in Running /\ pc[th] \notin Finishing /\ pc[th] # "wait"
    BY <1>1 DEF Running, Finishing
  <2>2. Kind(th) = "Execute" /\ t \in Txns /\ task[th].inc \in Nat
    BY <2>1, TaskAt, Zenon DEF Txn, Inc
  <2>3. txn_status[t] = Status("Executing", task[th].inc)
    <3>1. OwnInv(th) /\ Exe(th)
      BY <2>1, <2>2, Zenon DEF SchedulerInv, ThreadInv, Exe
    <3> QED BY <1>4, <2>1, <3>1, Zenon DEF OwnInv, Txn, Inc
  <2>4. s.st = "Suspended" /\ s.inc = task[th].inc
    BY <2>3 DEF Status
  <2>5. Fresh(t, task[th].inc)
    BY <1>1, <1>2, <2>2, FreeIs, Zenon DEF MemoryInv, WorkInv, Kind
  <2> HIDE DEF s
  <2>6. StatusFits(t, s)
    BY <2>4, <2>5 DEF StatusFits, Fresh
  <2> QED BY <1>1, <1>3, <1>4, <2>6, OneStatus, OrdinaryKeeps, Zenon
<1>5. CASE UNCHANGED txn_status
  BY <1>1, <1>3, <1>5, OrdinaryKeeps, Zenon
<1> QED BY <1>4, <1>5, Zenon DEF WaitForDependency

LEMMA SetExecutedKeepsMemory ==
  ASSUME SchedulerInv, MemoryInv, SchedulerInv', Outside, NEW th \in Threads, SetExecuted(th)
  PROVE  MemoryInv'
<1> DEFINE t == task[th].txn
           s == Status("Executed", task[th].inc)
<1>1. /\ num_txns' = num_txns /\ commit_state'.idx = commit_state.idx /\ pc[th] = "executed"
      /\ txn_status' = [txn_status EXCEPT ![t] = Unhalted(t, s)]
  BY Zenon DEF SetExecuted, indices
<1>2. "resume" \in Finishing /\ "resume" # "hook"
  BY DEF Finishing
<1>3. Ordinary(th)
  BY <1>2, Goes, Zenon DEF SetExecuted
<1>4. Kind(th) = "Execute" /\ Works(pc[th], task[th], exec[th])
  BY <1>1, TaskAt, Zenon DEF MemoryInv, WorkInv
<1>5. Older(t, task[th].inc + 1) /\ Matches(t) /\ Clean(t)
  BY <1>1, <1>4 DEF Works, Applying, Finishing, Kind
<1>6. s.st = "Executed" /\ s.inc = task[th].inc
  BY StatusOf, Zenon
<1> HIDE DEF s
<1>7. StatusFits(t, s)
  BY <1>5, <1>6 DEF StatusFits
<1> QED BY <1>1, <1>3, <1>7, UnhaltedFits, OneStatus, OrdinaryKeeps, Zenon

LEMMA ResumeDependentKeepsMemory ==
  ASSUME SchedulerInv, MemoryInv, SchedulerInv', Outside, NEW th \in Threads, ResumeDependent(th)
  PROVE  MemoryInv'
<1>1. PICK d \in loc[th].todo :
        /\ txn_status' = [txn_status EXCEPT ![d] = Unhalted(d, [@ EXCEPT !.st = "Ready"])]
        /\ Goto(th, "resume", [loc[th] EXCEPT !.todo = @ \ {d}])
  BY Zenon DEF ResumeDependent
<1> DEFINE s == [txn_status[d] EXCEPT !.st = "Ready"]
<1>2. num_txns' = num_txns /\ commit_state'.idx = commit_state.idx
  BY Zenon DEF ResumeDependent, indices
<1>3. "resume" \in Finishing /\ "resume" # "hook"
  BY DEF Finishing
<1>4. Ordinary(th)
  BY <1>1, <1>3, Goes, Zenon
<1>5. d \in Txns /\ Dependent(d) /\ CvInv(d) /\ StatusFits(d, txn_status[d])
  BY <1>1, Zenon DEF SchedulerInv, LocalType, IsLocal, WaitInv, MemoryInv, ColumnInv
<1>6. txn_status[d] \in Statuses
  BY <1>5 DEF SchedulerInv, SharedType
<1>7. s.st = "Ready" /\ s.inc = txn_status[d].inc
  BY <1>6 DEF Statuses
<1>8. txn_status' = [txn_status EXCEPT ![d] = Unhalted(d, s)]
  BY <1>1, Zenon
<1> HIDE DEF s
<1>9. txn_status[d] # Halted => StatusFits(d, s)
  BY <1>5, <1>7 DEF Dependent, CvInv, StatusFits
<1> QED BY <1>2, <1>4, <1>8, <1>9, UnhaltedFits, OneStatus, OrdinaryKeeps, Zenon

LEMMA TryAbortKeepsMemory ==
  ASSUME SchedulerInv, MemoryInv, SchedulerInv', Outside, NEW th \in Threads, TryAbort(th)
  PROVE  MemoryInv'
<1> DEFINE t == task[th].txn
           s == [txn_status[t] EXCEPT !.st = "Aborting"]
<1>1. num_txns' = num_txns /\ commit_state'.idx = commit_state.idx /\ pc[th] = "invalid"
  BY Zenon DEF TryAbort, indices
<1>2. /\ "invalid" \in Checking /\ "validated" # "hook" /\ Free("validated")
      /\ "aborted" \in Marking /\ "aborted" \notin Applying /\ "aborted" # "hook"
      /\ "aborted" \notin {"show", "look"}
  BY FreePcs DEF Checking, Marking, Applying
<1>3. t \in Txns /\ Kind(th) = "Validate"
  BY <1>1, <1>2, TaskAt, Zenon DEF Txn
<1>4. Kind(th) # "Execute"
  BY <1>3
<1>5. CASE Abortable(t, task[th].inc)
  <2>1. txn_status' = [txn_status EXCEPT ![t] = s] /\ Goto(th, "aborted", Idle)
    BY <1>5, Zenon DEF TryAbort
  <2>2. txn_status[t].st = "Executed" /\ s.st = "Aborting" /\ s.inc = txn_status[t].inc
    BY <1>5 DEF Abortable, Status
  <2>3. StatusFits(t, txn_status[t])
    BY <1>3, Zenon DEF MemoryInv, ColumnInv
  <2> HIDE DEF s
  <2>4. StatusFits(t, s) /\ Matches(t)
    BY <2>2, <2>3 DEF StatusFits
  <2>5. Moves(th) /\ pc'[th] = "aborted" /\ task'[th] = task[th]
    BY <2>1 DEF SchedulerInv, LocalType, Goto, Moves, Same
  <2>6. Works(pc'[th], task'[th], exec[th])
    BY <1>2, <1>4, <2>4, <2>5, Zenon DEF Works, Kind
  <2> QED BY <1>1, <1>2, <2>1, <2>4, <2>5, <2>6, OneStatus, CallKeeps, Zenon
<1>6. CASE ~Abortable(t, task[th].inc)
  <2>1. UNCHANGED txn_status /\ Ordinary(th)
    BY <1>2, <1>4, <1>6, Goes, Zenon DEF TryAbort
  <2> QED BY <1>1, <2>1, OrdinaryKeeps, Zenon
<1> QED BY <1>5, <1>6, Zenon

LEMMA SetAbortedKeepsMemory ==
  ASSUME SchedulerInv, MemoryInv, SchedulerInv', Outside, NEW th \in Threads, SetAborted(th)
  PROVE  MemoryInv'
<1> DEFINE t == task[th].txn
           s == Status("Ready", task[th].inc + 1)
<1>1. /\ num_txns' = num_txns /\ commit_state'.idx = commit_state.idx /\ pc[th] = "marked"
      /\ txn_status' = [txn_status EXCEPT ![t] = Unhalted(t, s)]
  BY Zenon DEF SetAborted, indices
<1>2. "decrease" \in Finishing /\ "decrease" # "hook" /\ "marked" \in Marking
  BY DEF Finishing, Marking
<1>3. Ordinary(th)
  BY <1>2, Goes, Zenon DEF SetAborted
<1>4. txn_status[t] \in {Status("Aborting", task[th].inc), Halted} /\ t \in Txns
  <2>1. OwnInv(th) /\ Abt(th) /\ t \in Txns
    BY <1>1, <1>2, TaskAt, Zenon DEF SchedulerInv, ThreadInv, Abt, Txn
  <2> QED BY <2>1, Zenon DEF OwnInv, Txn, Inc
<1>5. StatusFits(t, txn_status[t])
  BY <1>4, Zenon DEF MemoryInv, ColumnInv
<1>6. /\ s.st = "Ready" /\ s.inc = task[th].inc + 1
      /\ Status("Aborting", task[th].inc).st = "Aborting"
      /\ Status("Aborting", task[th].inc).inc = task[th].inc
  BY StatusOf, Zenon
<1> HIDE DEF s
<1>7. txn_status[t] # Halted => StatusFits(t, s)
  BY <1>4, <1>5, <1>6 DEF StatusFits
<1> QED BY <1>1, <1>3, <1>7, UnhaltedFits, OneStatus, OrdinaryKeeps, Zenon

LEMMA ResolveCondvarKeepsMemory ==
  ASSUME SchedulerInv, MemoryInv, SchedulerInv', Outside, NEW th \in Threads, ResolveCondvar(th)
  PROVE  MemoryInv'
<1>1. /\ num_txns' = num_txns /\ commit_state'.idx = commit_state.idx /\ pc[th] = "resolve"
      /\ txn_status' = [txn_status EXCEPT ![loc[th].idx] = Halted]
  BY Zenon DEF ResolveCondvar, indices
<1>2. \A p \in {"commit", "run", "resolve", "send"} : Free(p) /\ p # "hook"
  BY FreePcs
<1>3. loc[th].next \in {"send", "commit", "run"}
  <2>1. loc[th].next \in {"send", Top(th)}
    BY <1>1, Zenon DEF SchedulerInv, ThreadInv, CallInv
  <2> QED BY <2>1 DEF Top
<1>4. Ordinary(th)
  BY <1>1, <1>2, <1>3, Goes, Zenon DEF ResolveCondvar
<1> QED BY <1>1, <1>4, FitsAlways, OneStatus, OrdinaryKeeps, Zenon

LEMMA CallsKeepMemory ==
  ASSUME SchedulerInv, MemoryInv, SchedulerInv', NEW th \in Threads, SchedulerCall(th)
  PROVE  MemoryInv'
<1>1. Outside
  BY Zenon DEF SchedulerCall, Outside
<1> QED BY <1>1, QuietCalls, TakesKeep, WaitForDependencyKeepsMemory, SetExecutedKeepsMemory,
           ResumeDependentKeepsMemory, TryAbortKeepsMemory, SetAbortedKeepsMemory,
           ResolveCondvarKeepsMemory, Zenon DEF SchedulerCall, SchedulerStep

-----------------------------------------------------------------------------
(* The steps of the executor that change no entry *)

LEMMA SetIs ==
  ASSUME MemoryType, NEW th \in Threads, NEW e, Set(th, e)
  PROVE  DOMAIN exec' = Threads /\ exec'[th] = e /\ \A d \in Threads \ {th} : exec'[d] = exec[d]
BY DEF MemoryType, Set

LEMMA NoExecIs ==
  /\ IsOutput(NoOutput) /\ IsOutput(VmAborted) /\ IsExec(NoExec)
  /\ \A r : IsExec([NoExec EXCEPT !.reads = r])
  /\ \A s : IsExec([NoExec EXCEPT !.todo = s]) /\ [NoExec EXCEPT !.todo = s].todo = s
BY DEF IsOutput, OutputKeys, NoOutput, VmAborted, IsExec, NoExec

LEMMA ExecKeeps ==
  ASSUME SchedulerInv, MemoryInv, SchedulerInv',
         UNCHANGED <<statuses, versioned, outputs, channel, worker_idx, block>>,
         commit_state'.idx = commit_state.idx, NEW th \in Threads, Moves(th),
         DOMAIN exec' = Threads, IsExec(exec'[th]), \A d \in Threads \ {th} : exec'[d] = exec[d],
         Works(pc'[th], task'[th], exec'[th]), HookInv(th)'
  PROVE  MemoryInv'
<1>1. UNCHANGED <<num_txns, txn_status, versioned, outputs, channel, worker_idx, block>>
  BY Zenon DEF statuses
<1>2. MemoryType'
  BY <1>1, TypeKept, Zenon DEF MemoryInv
<1>3. HooksInv'
  BY <1>1, Zenon DEF MemoryInv, HooksInv
<1>4. \A d \in Threads \ {th} :
        pc[d] = "hook" => channel'[d] # <<>> /\ Head(channel'[d]) = Head(channel[d])
  BY <1>1, Zenon DEF MemoryInv, WorkInv, HookInv
<1> QED BY <1>1, <1>2, <1>3, <1>4, AllKept, MemoryStep, Zenon

\* A step of the executor that leaves what the threads share as it is.
Inside == UNCHANGED <<block, indices, statuses, condvar, versioned, outputs, hooks>>

LEMMA InsideKeeps ==
  ASSUME SchedulerInv, MemoryInv, SchedulerInv', Inside, NEW th \in Threads, Moves(th),
         \/ UNCHANGED exec
         \/ \E e : IsExec(e) /\ Set(th, e),
         Works(pc'[th], task'[th], exec'[th]), HookInv(th)'
  PROVE  MemoryInv'
<1>1. MemoryType
  BY Zenon DEF MemoryInv
<1>2. DOMAIN exec' = Threads /\ IsExec(exec'[th]) /\ \A d \in Threads \ {th} : exec'[d] = exec[d]
  BY <1>1, SetIs, Zenon DEF MemoryType
<1> QED BY <1>2, ExecKeeps, Zenon DEF Inside, hooks, indices

LEMMA InsideOrdinary ==
  ASSUME SchedulerInv, MemoryInv, SchedulerInv', Inside, NEW th \in Threads, Ordinary(th),
         \/ UNCHANGED exec
         \/ \E e : IsExec(e) /\ Set(th, e)
  PROVE  MemoryInv'
BY OrdinaryWorks, InsideKeeps, Zenon DEF Ordinary, Inside, statuses

LEMMA StartHookKeepsMemory ==
  ASSUME SchedulerInv, MemoryInv, SchedulerInv', NEW th \in Threads, StartHook(th)
  PROVE  MemoryInv'
<1> DEFINE s == DOMAIN outputs[Head(channel[th])].deltas
           e == [NoExec EXCEPT !.todo = s]
<1>1. Inside /\ pc[th] = "run" /\ channel[th] # <<>> /\ Goto(th, "hook", Idle) /\ Set(th, e)
  BY Zenon DEF StartHook, HookWaits, Inside, memory, lastio
<1>2. Moves(th) /\ pc'[th] = "hook" /\ task'[th] = task[th]
  BY <1>1 DEF SchedulerInv, LocalType, Goto, Moves, Same
<1>3. IsExec(e) /\ e.todo = s
  BY NoExecIs, Zenon
<1>4. exec'[th] = e
  BY <1>1, SetIs, Zenon DEF MemoryInv
<1> HIDE DEF e
<1>5. HookInv(th)'
  BY <1>1, <1>3, <1>4, Zenon DEF HookInv, Inside, hooks
<1>6. Free("run") /\ Free("hook")
  BY FreePcs, Zenon
<1>7. Works(pc[th], task[th], exec[th]) /\ task[th].inc \in Nat /\ task[th].txn \in Txns /\ MemoryType
  BY TaskAt, Zenon DEF MemoryInv, WorkInv, Inc, Txn
<1>8. Works(pc'[th], task'[th], exec'[th])
  BY <1>1, <1>2, <1>6, <1>7, FreeIs, Zenon
<1> QED BY <1>1, <1>2, <1>3, <1>5, <1>8, InsideKeeps, Zenon

\* The output of the VM is to be applied.
LEMMA VmEndsKeepsMemory ==
  ASSUME SchedulerInv, MemoryInv, SchedulerInv', Inside, NEW th \in Threads, Free(pc[th]),
         Kind(th) = "Execute", NEW e, IsExec(e), NEW o, IsOutput(o), VmEnds(th, e, o)
  PROVE  MemoryInv'
<1> DEFINE t == task[th].txn
           i == task[th].inc
           old == modified_keys(t)
           new == OutputKeys(o)
<1>0. PICK f : f = [e EXCEPT !.out = o, !.todo = new, !.stale = old \ new]
  OBVIOUS
<1>1. Goto(th, "apply", [Idle EXCEPT !.outside = ~(new \subseteq old)]) /\ Set(th, f)
  BY <1>0, Zenon DEF VmEnds
<1>2. Moves(th) /\ pc'[th] = "apply" /\ task'[th] = task[th]
  BY <1>1 DEF SchedulerInv, LocalType, Goto, Moves, Same
<1>3. IsExec(f) /\ f.out = o /\ f.todo = new /\ f.stale = old \ new
  BY <1>0 DEF IsExec
<1>4. exec'[th] = f
  BY <1>1, SetIs, Zenon DEF MemoryInv
<1>5. t \in Txns /\ i \in Nat /\ MemoryType /\ Works(pc[th], task[th], exec[th])
  BY TaskAt, Zenon DEF MemoryInv, WorkInv, Inc, Txn
<1>6. Fresh(t, i)
  BY <1>5, FreeIs, Zenon DEF Kind
<1>7. Works("run", task[th], f)
  BY <1>5, <1>6, FreeIs, FreePcs, Zenon
<1>8. Older(t, i + 1)
  BY <1>7 DEF Works, Applying, Finishing, Kind
<1>9. Applies(t, i, f)
  <2>1. new \subseteq Keys
    BY Zenon DEF IsOutput
  <2>2. \A k : k \in (new \ f.todo) \cup (f.todo \cap old) \cup f.stale <=> k \in old
    BY <1>3, Zenon
  <2>3. \A k \in Keys : versioned[k][t].cell # "None" <=>
          k \in (new \ f.todo) \cup (f.todo \cap old) \cup f.stale
    BY <1>6, <2>2, Zenon DEF Fresh, Matches
  <2>4. \A k \in f.todo : versioned[k][t].inc < i
    BY <1>3, <1>6, <2>1, Zenon DEF Fresh, Older
  <2> QED BY <1>3, <2>3, <2>4, Zenon DEF Applies
<1>10. "apply" \notin Marking /\ "apply" \notin {"show", "look"} /\ "apply" \in Applying
       /\ "apply" # "executed" /\ "apply" # "hook"
  BY DEF Marking, Applying
<1>11. Works("apply", task[th], f)
  BY <1>8, <1>9, <1>10, Zenon DEF Works
<1>12. HookInv(th)'
  BY <1>2, <1>10, Zenon DEF HookInv
<1> QED BY <1>1, <1>2, <1>3, <1>4, <1>11, <1>12, InsideKeeps, Zenon

LEMMA ReadWith ==
  ASSUME NEW e, IsExec(e), NEW a, NEW b
  PROVE  IsExec([e EXCEPT !.reads = a, !.vals = b])
BY DEF IsExec

LEMMA ReadKeepsMemory ==
  ASSUME SchedulerInv, MemoryInv, SchedulerInv', NEW th \in Threads, Read(th)
  PROVE  MemoryInv'
<1> DEFINE t == task[th].txn
           k == Reads(block, t)[Len(exec[th].reads) + 1]
           Next1(r) == [exec[th] EXCEPT !.reads = Append(@, Descriptor(k, r)),
                                        !.vals = Append(@, IF r = NotFound THEN Storage(k) ELSE r.val)]
<1>1. Inside /\ pc[th] = "read"
  BY Zenon DEF Read, Inside, lastio
<1>2. IsExec(exec[th]) /\ VmOutputs
  BY Zenon DEF MemoryInv, MemoryType
<1>3. Free("read") /\ Free("dependency") /\ "read" # "hook" /\ "dependency" # "hook" /\ pc[th] \in Running
  BY <1>1, FreePcs DEF Running
<1>4. Kind(th) = "Execute"
  BY <1>3, TaskAt, Zenon
<1>5. \A r : IsExec(Next1(r))
  BY <1>2, ReadWith, Zenon
<1> HIDE DEF Next1
<1>6. CASE \E l : Goto(th, "dependency", l) /\ UNCHANGED exec
  BY <1>1, <1>3, <1>6, Goes, InsideOrdinary, Zenon
<1>7. CASE UNCHANGED <<pc, task, loc, exec>>
  <2>1. Ordinary(th)
    BY <1>1, <1>3, <1>7, Zenon DEF Ordinary, Moves, Same, SchedulerInv, LocalType
  <2> QED BY <1>1, <1>7, <2>1, InsideOrdinary, Zenon
<1>8. CASE \E r : VmEnds(th, Next1(r), Output(block, t, Next1(r).vals))
  BY <1>1, <1>2, <1>3, <1>4, <1>5, <1>8, VmEndsKeepsMemory, Zenon DEF VmOutputs
<1>9. CASE \E r : Goto(th, "read", Idle) /\ Set(th, Next1(r))
  BY <1>1, <1>3, <1>5, <1>9, Goes, InsideOrdinary, Zenon
<1>10. PICK r : CASE r.kind = "Dependency" ->
                       Goto(th, "dependency", [Idle EXCEPT !.idx = r.idx]) /\ UNCHANGED exec
                  [] r = Unresolved -> UNCHANGED <<pc, task, loc, exec>>
                  [] r.kind # "Dependency" /\ r # Unresolved
                       /\ Len(Next1(r).reads) = Len(Reads(block, t)) ->
                       VmEnds(th, Next1(r), Output(block, t, Next1(r).vals))
                  [] OTHER -> Goto(th, "read", Idle) /\ Set(th, Next1(r))
  BY Zenon DEF Read, Next1
<1> QED BY <1>6, <1>7, <1>8, <1>9, <1>10, Zenon

LEMMA ExecutionsKeepMemory ==
  ASSUME SchedulerInv, MemoryInv, SchedulerInv', NEW th \in Threads,
         StartExecution(th) \/ VmHalted(th)
  PROVE  MemoryInv'
<1>1. Inside
  BY Zenon DEF StartExecution, VmHalted, Inside, memory, lastio
<1>2. /\ Free("run") /\ Free("read") /\ "read" # "hook" /\ Free("vm_halted")
      /\ "vm_halted" \in Running
  BY FreePcs DEF Running
<1>3. CASE StartExecution(th)
  <2>1. pc[th] = "run" /\ Kind(th) = "Execute"
    BY <1>3, Zenon DEF StartExecution, Kind
  <2>2. IsOutput(Output(block, task[th].txn, <<>>))
    BY Zenon DEF MemoryInv, VmOutputs
  <2>3. CASE VmEnds(th, NoExec, Output(block, task[th].txn, <<>>))
    BY <1>1, <1>2, <2>1, <2>2, <2>3, NoExecIs, VmEndsKeepsMemory, Zenon
  <2>4. CASE Goto(th, "read", Idle) /\ UNCHANGED exec
    BY <1>1, <1>2, <2>1, <2>4, Goes, InsideOrdinary, Zenon
  <2> QED BY <1>3, <2>3, <2>4, Zenon DEF StartExecution
<1>4. CASE VmHalted(th)
  <2>1. pc[th] = "vm_halted" /\ VmEnds(th, exec[th], VmAborted)
    BY <1>4, Zenon DEF VmHalted
  <2>2. Kind(th) = "Execute" /\ IsExec(exec[th])
    BY <1>2, <2>1, TaskAt, Zenon DEF MemoryInv, MemoryType
  <2> QED BY <1>1, <1>2, <2>1, <2>2, NoExecIs, VmEndsKeepsMemory, Zenon
<1> QED BY <1>3, <1>4, Zenon

\* The modules are recorded once the output is applied.
LEMMA AppliedWorks ==
  ASSUME NEW p \in {"apply", "show", "look"}, NEW q \in {"show", "look"}, NEW tk, NEW e, NEW f,
         tk.kind = "Execute", Works(p, tk, e), e.todo = {}, e.stale = {},
         f.out = e.out, f.todo = e.todo, f.stale = e.stale
  PROVE  Works(q, tk, f)
<1>1. /\ \A r \in {"apply", "show", "look"} : /\ r \in Applying /\ r \notin Marking
                                              /\ r \notin Finishing /\ r # "executed"
      /\ q \in {"apply", "show", "look"}
  BY DEF Applying, Marking, Finishing
<1>2. Older(tk.txn, tk.inc + 1) /\ Applies(tk.txn, tk.inc, e)
  BY <1>1, Zenon DEF Works
<1>3. Applies(tk.txn, tk.inc, f)
  BY <1>2, Zenon DEF Applies
<1> QED BY <1>1, <1>2, <1>3, Zenon DEF Works

LEMMA RecordingKeepsMemory ==
  ASSUME SchedulerInv, MemoryInv, SchedulerInv', Inside, NEW th \in Threads,
         pc[th] \in {"apply", "show", "look"}, NEW q \in {"show", "look"}, Goto(th, q, loc[th]),
         exec[th].todo = {}, exec[th].stale = {},
         \/ UNCHANGED exec
         \/ \E f : /\ IsExec(f) /\ Set(th, f)
                  /\ f.out = exec[th].out /\ f.todo = exec[th].todo /\ f.stale = exec[th].stale
  PROVE  MemoryInv'
<1>1. Moves(th) /\ pc'[th] = q /\ task'[th] = task[th]
  BY DEF SchedulerInv, LocalType, Goto, Moves, Same
<1>2. pc[th] \in Applying
  BY DEF Applying
<1>3. task[th].kind = "Execute" /\ Works(pc[th], task[th], exec[th]) /\ IsExec(exec[th]) /\ MemoryType
  BY <1>2, TaskAt, Zenon DEF MemoryInv, MemoryType, WorkInv, Kind
<1>4. HookInv(th)'
  BY <1>1 DEF HookInv
<1>5. CASE UNCHANGED exec
  <2>1. Works(pc'[th], task'[th], exec'[th])
    BY <1>1, <1>3, <1>5, AppliedWorks, Zenon
  <2> QED BY <1>1, <1>5, <1>4, <2>1, InsideKeeps, Zenon
<1>6. CASE \E f : /\ IsExec(f) /\ Set(th, f)
                   /\ f.out = exec[th].out /\ f.todo = exec[th].todo /\ f.stale = exec[th].stale
  <2>1. PICK f : /\ IsExec(f) /\ Set(th, f)
                 /\ f.out = exec[th].out /\ f.todo = exec[th].todo /\ f.stale = exec[th].stale
    BY <1>6
  <2>2. exec'[th] = f
    BY <1>3, <2>1, SetIs, Zenon
  <2>3. Works(pc'[th], task'[th], exec'[th])
    BY <1>1, <1>3, <2>1, <2>2, AppliedWorks, Zenon
  <2> QED BY <1>1, <1>4, <2>1, <2>3, InsideKeeps, Zenon
<1> QED BY <1>5, <1>6, Zenon

LEMMA RecordsKeepMemory ==
  ASSUME SchedulerInv, MemoryInv, SchedulerInv', NEW th \in Threads,
         StartRecord(th) \/ Show(th) \/ Look(th)
  PROVE  MemoryInv'
<1> DEFINE e == exec[th]
<1>1. Inside
  BY Zenon DEF StartRecord, Show, Look, Inside, memory, lastio
<1>2. IsExec(e) /\ Works(pc[th], task[th], e)
  BY Zenon DEF MemoryInv, MemoryType, WorkInv
<1>3. pc[th] \in {"apply", "show", "look"} /\ e.todo = {} /\ e.stale = {}
  BY <1>2 DEF StartRecord, Show, Look, Applied, Works
<1>4. ASSUME NEW a, NEW b, Set(th, [e EXCEPT !.loads = a, !.publishes = b])
      PROVE  \E f : /\ IsExec(f) /\ Set(th, f)
                    /\ f.out = exec[th].out /\ f.todo = exec[th].todo /\ f.stale = exec[th].stale
  <2>1. PICK f : f = [e EXCEPT !.loads = a, !.publishes = b]
    OBVIOUS
  <2>2. Set(th, f)
    BY <1>4, <2>1, Zenon
  <2>3. IsExec(f) /\ f.out = exec[th].out /\ f.todo = exec[th].todo /\ f.stale = exec[th].stale
    BY <1>2, <2>1 DEF IsExec
  <2> QED BY <2>2, <2>3, Zenon
<1>5. "show" \in {"show", "look"} /\ "look" \in {"show", "look"}
  OBVIOUS
<1>6. CASE StartRecord(th)
  BY <1>1, <1>3, <1>4, <1>5, <1>6, RecordingKeepsMemory, Zenon DEF StartRecord
<1>7. CASE Show(th)
  BY <1>1, <1>3, <1>5, <1>7, RecordingKeepsMemory, Zenon DEF Show
<1>8. CASE Look(th)
  <2> DEFINE Halts == /\ pc' = [pc EXCEPT ![th] = "halt"]
                      /\ task' = [task EXCEPT ![th] = NoTask]
                      /\ loc' = [loc EXCEPT ![th] = [Idle EXCEPT !.next = Top(th)]]
                      /\ Set(th, NoExec)
  <2>1. CASE Halts
    <3>1. Moves(th) /\ pc'[th] = "halt" /\ task'[th] = NoTask
      BY <2>1 DEF SchedulerInv, LocalType, Moves, Same
    <3>2. Free("halt") /\ "halt" # "hook"
      BY FreePcs
    <3>3. Ordinary(th)
      BY <3>1, <3>2, TaskKinds, Zenon DEF Ordinary
    <3> QED BY <1>1, <2>1, <3>3, NoExecIs, InsideOrdinary, Zenon
  <2>2. CASE Goto(th, "show", loc[th]) /\ \E a, b : Set(th, [e EXCEPT !.loads = a, !.publishes = b])
    BY <1>1, <1>3, <1>4, <1>5, <2>2, RecordingKeepsMemory, Zenon
  <2> QED BY <1>8, <2>1, <2>2, Zenon DEF Look
<1> QED BY <1>6, <1>7, <1>8, Zenon

LEMMA ValidationsKeepMemory ==
  ASSUME SchedulerInv, MemoryInv, SchedulerInv', NEW th \in Threads,
         StartValidation(th) \/ Validate(th) \/ Finish(th)
  PROVE  MemoryInv'
<1>1. Inside
  BY Zenon DEF StartValidation, Validate, Finish, Inside, memory, lastio
<1>2. \A p \in {"validated", "validate", "invalid", "finished", "run"} : Free(p) /\ p # "hook"
  BY FreePcs DEF Checking
<1>3. PICK p \in {"validated", "validate", "invalid", "finished"} : Goto(th, p, Idle)
  BY DEF StartValidation, Validate, Finish
<1>4. Free(pc[th])
  BY <1>2, Zenon DEF StartValidation, Validate, Finish
<1>5. UNCHANGED exec \/ \E e : IsExec(e) /\ Set(th, e)
  BY NoExecIs, Zenon DEF StartValidation, Validate, Finish
<1>6. Free(p) /\ p # "hook"
  BY <1>2, Zenon
<1> QED BY <1>1, <1>3, <1>4, <1>5, <1>6, Goes, InsideOrdinary, Zenon

-----------------------------------------------------------------------------
(* The steps of the coordinator and of the commit hooks *)

LEMMA SendKeepsHead ==
  ASSUME HooksInv, NEW t, Send(t), NEW d \in Threads, channel[d] # <<>>
  PROVE  channel'[d] # <<>> /\ Head(channel'[d]) = Head(channel[d])
<1>1. channel[d] \in Seq(Nat) /\ DOMAIN channel = Threads
  BY DEF HooksInv
<1>2. channel'[d] = channel[d] \/ channel'[d] = Append(channel[d], t)
  BY <1>1 DEF Send
<1> QED BY <1>1, <1>2

LEMMA SendLastKeepsMemory ==
  ASSUME SchedulerInv, MemoryInv, SchedulerInv', NEW th \in Threads, SendLast(th)
  PROVE  MemoryInv'
<1>1. /\ pc[th] = "send" /\ Send(commit_state.idx - 1) /\ Goto(th, "run", Idle)
      /\ UNCHANGED <<block, num_txns, txn_status, commit_state, versioned, outputs, exec>>
  BY Zenon DEF SendLast, indices, statuses, memory, lastio
<1>2. Free("send") /\ Free("run") /\ "run" # "hook"
  BY FreePcs
<1>3. Ordinary(th)
  BY <1>1, <1>2, Goes, Zenon
<1>4. Works(pc'[th], task'[th], exec'[th]) /\ HookInv(th)'
  BY <1>1, <1>3, OrdinaryWorks, Zenon
<1>5. commit_state.idx > 0 /\ commit_state.idx \in Nat
  BY <1>1, Zenon DEF SchedulerInv, ThreadInv, CallInv, SharedType, IsIndex
<1>6. HooksInv'
  <2>1. commit_state.idx - 1 \in Nat /\ commit_state.idx - 1 < commit_state'.idx
        /\ commit_state.idx <= commit_state'.idx /\ commit_state'.idx \in Nat
    BY <1>1, <1>5
  <2> QED BY <1>1, <1>5, <2>1, SendIs, Zenon DEF MemoryInv
<1>7. MemoryType'
  BY <1>1, TypeKept, Zenon DEF MemoryInv, MemoryType
<1>8. \A d \in Threads \ {th} :
        pc[d] = "hook" => channel'[d] # <<>> /\ Head(channel'[d]) = Head(channel[d])
  BY <1>1, SendKeepsHead, Zenon DEF MemoryInv, WorkInv, HookInv
<1> QED BY <1>1, <1>3, <1>4, <1>6, <1>7, <1>8, AllKept, MemoryStep, Zenon DEF Ordinary

LEMMA EndHookKeepsMemory ==
  ASSUME SchedulerInv, MemoryInv, SchedulerInv', NEW th \in Threads, EndHook(th)
  PROVE  MemoryInv'
<1>1. /\ pc[th] = "hook" /\ channel' = [channel EXCEPT ![th] = Tail(@)] /\ Goto(th, "run", Idle)
      /\ UNCHANGED <<num_txns, txn_status, commit_state, versioned, outputs, exec, worker_idx, block>>
  BY Zenon DEF EndHook, indices, statuses, memory, lastio
<1>2. Free("hook") /\ Free("run") /\ "run" # "hook"
  BY FreePcs
<1>3. Ordinary(th)
  BY <1>1, <1>2, Goes, Zenon
<1>4. Works(pc'[th], task'[th], exec'[th]) /\ HookInv(th)'
  BY <1>1, <1>3, OrdinaryWorks, Zenon
<1>5. channel[th] # <<>> /\ th # Coordinator /\ HooksInv
  BY <1>1, Zenon DEF SchedulerInv, ThreadInv, CallInv, MemoryInv, WorkInv, HookInv
<1>6. HooksInv'
  BY <1>1, <1>5, EndHookIs, Zenon
<1>7. MemoryType'
  BY <1>1, TypeKept, Zenon DEF MemoryInv, MemoryType
<1>8. \A d \in Threads \ {th} : channel'[d] = channel[d]
  BY <1>1, <1>5 DEF HooksInv
<1>9. \A d \in Threads \ {th} :
        pc[d] = "hook" => channel'[d] # <<>> /\ Head(channel'[d]) = Head(channel[d])
  BY <1>8, Zenon DEF MemoryInv, WorkInv, HookInv
<1> QED BY <1>1, <1>3, <1>4, <1>6, <1>7, <1>9, AllKept, MemoryStep, Zenon DEF Ordinary

LEMMA CommitGoesOn ==
  ASSUME SchedulerInv, NEW th \in Threads, Commit(th)
  PROVE  Ordinary(th)
<1>1. pc[th] = "commit"
  BY Zenon DEF Commit
<1>2. \A p \in {"commit", "run", "halt", "panic"} : Free(p) /\ p # "hook"
  BY FreePcs
<1>3. CASE \E l : Goto(th, "panic", l) \/ Goto(th, "halt", l)
  BY <1>1, <1>2, <1>3, Goes, Zenon
<1>4. CASE \E b : /\ pc' = [pc EXCEPT ![th] = IF b THEN "run" ELSE "commit"]
                  /\ task' = [task EXCEPT ![th] = IF b THEN Done ELSE @]
                  /\ UNCHANGED loc
  <2>1. /\ Moves(th) /\ pc'[th] \in {"run", "commit"}
        /\ task'[th] = Done \/ task'[th] = task[th]
    BY <1>4 DEF SchedulerInv, LocalType, Moves, Same
  <2> QED BY <1>1, <1>2, <2>1, TaskKinds, Zenon DEF Ordinary
<1> QED BY <1>3, <1>4, Zenon DEF Commit

LEMMA CommittedOutput ==
  ASSUME MemoryType, NEW t \in Txns, num_txns' = num_txns,
         outputs' = outputs \/ outputs' = [outputs EXCEPT ![t].status = "SkipRest"]
  PROVE  /\ DOMAIN outputs' = Txns /\ \A u \in Txns : IsOutput(outputs'[u])
         /\ \A u \in Txns : modified_keys(u)' = modified_keys(u) /\ outputs'[u].deltas = outputs[u].deltas
<1>1. DOMAIN outputs = Txns /\ \A u \in Txns : IsOutput(outputs[u])
  BY Zenon DEF MemoryType
<1>2. CASE outputs' = outputs
  BY <1>1, <1>2, Zenon DEF modified_keys
<1>3. CASE outputs' = [outputs EXCEPT ![t].status = "SkipRest"]
  <2>1. PICK o : o = [outputs[t] EXCEPT !.status = "SkipRest"]
    OBVIOUS
  <2>2. outputs' = [outputs EXCEPT ![t] = o]
    BY <1>3, <2>1, Zenon
  <2>3. DOMAIN outputs' = Txns /\ \A u \in Txns : outputs'[u] = IF u = t THEN o ELSE outputs[u]
    BY <1>1, <2>2
  <2>4. o.writes = outputs[t].writes /\ o.deltas = outputs[t].deltas
        /\ DOMAIN o = {"status", "writes", "deltas"}
    BY <1>1, <2>1 DEF IsOutput
  <2>5. IsOutput(o) /\ OutputKeys(o) = OutputKeys(outputs[t])
    BY <1>1, <2>4, Zenon DEF IsOutput, OutputKeys
  <2> QED BY <1>1, <2>3, <2>4, <2>5, Zenon DEF modified_keys
<1> QED BY <1>2, <1>3

LEMMA CommitKeepsMemory ==
  ASSUME SchedulerInv, MemoryInv, SchedulerInv', NEW th \in Threads, Commit(th)
  PROVE  MemoryInv'
<1> DEFINE t == commit_state.idx
           s == [txn_status[t] EXCEPT !.st = "Committed"]
<1>1. /\ TryCommit(t) /\ Commitable(t) /\ num_txns' = num_txns
      /\ txn_status' = [txn_status EXCEPT ![t] = s]
      /\ commit_state' = [idx |-> t + 1, wave |-> CommitWave(t)]
      /\ UNCHANGED <<block, versioned, exec>>
      /\ Send(t) \/ UNCHANGED <<channel, worker_idx, block>>
      /\ outputs' = outputs \/ outputs' = [outputs EXCEPT ![t].status = "SkipRest"]
  BY Zenon DEF Commit, TryCommit, CanCommit, memory
<1>2. commit_state'.idx = t + 1
  BY <1>1
<1>3. t \in Txns /\ t \in Nat /\ t + 1 \in Nat /\ t < t + 1 /\ t <= t + 1
  BY <1>1, <1>2 DEF SchedulerInv, SharedType, IsIndex, Txns
<1>4. Ordinary(th)
  BY CommitGoesOn, Zenon
<1>5. Works(pc'[th], task'[th], exec'[th]) /\ HookInv(th)'
  BY <1>1, <1>4, OrdinaryWorks, Zenon
<1>6. MemoryType /\ HooksInv /\ StatusFits(t, txn_status[t]) /\ txn_status[t].st = "Executed"
  BY <1>1, <1>3, Zenon DEF MemoryInv, ColumnInv, Commitable
<1>7. Matches(t) /\ Clean(t)
  BY <1>6 DEF StatusFits
<1>8. s.st = "Committed"
  BY <1>3 DEF SchedulerInv, SharedType, Statuses
<1> HIDE DEF s
<1>9. StatusFits(t, s)
  BY <1>7, <1>8 DEF StatusFits
<1>10. \A u \in Txns : txn_status'[u] = txn_status[u] \/ StatusFits(u, txn_status'[u])
  BY <1>1, <1>9, OneStatus, Zenon
<1>11. \A u \in Txns : u < commit_state'.idx => u < commit_state.idx \/ (Matches(u) /\ Clean(u))
  <2>1. \A u \in Txns : u < commit_state'.idx => u < commit_state.idx \/ u = t
    BY <1>2, <1>3 DEF Txns
  <2> QED BY <1>7, <2>1, Zenon
<1>12. HooksInv'
  <2>1. CASE Send(t)
    <3>1. t < commit_state'.idx /\ t <= commit_state'.idx /\ commit_state'.idx \in Nat
      BY <1>2, <1>3
    <3> QED BY <1>1, <1>3, <1>6, <2>1, <3>1, SendIs, Zenon
  <2>2. CASE UNCHANGED <<channel, worker_idx, block>>
    <3>1. ASSUME NEW d \in Threads, NEW i \in 1..Len(channel[d]) PROVE channel[d][i] < t + 1
      <4>1. channel[d][i] < t /\ channel[d][i] \in Nat
        BY <1>6, <3>1 DEF HooksInv
      <4> QED BY <1>3, <4>1
    <3> QED BY <1>2, <1>6, <2>2, <3>1, Zenon DEF HooksInv
  <2> QED BY <1>1, <2>1, <2>2, Zenon
<1>13. \A d \in Threads \ {th} :
         pc[d] = "hook" => channel'[d] # <<>> /\ Head(channel'[d]) = Head(channel[d])
  BY <1>1, <1>6, SendKeepsHead, Zenon DEF MemoryInv, WorkInv, HookInv
<1>14. /\ DOMAIN outputs' = Txns /\ \A u \in Txns : IsOutput(outputs'[u])
       /\ \A u \in Txns : modified_keys(u)' = modified_keys(u) /\ outputs'[u].deltas = outputs[u].deltas
  BY <1>1, <1>3, <1>6, CommittedOutput, Zenon
<1>15. MemoryType'
  BY <1>1, <1>6, <1>14, TypeNext, Zenon DEF MemoryType
<1>16. \A u \in Txns : Kept(u)
  BY <1>1, <1>14, Zenon DEF Kept
<1> QED BY <1>1, <1>4, <1>5, <1>10, <1>11, <1>12, <1>13, <1>15, <1>16, MemoryStep, Zenon DEF Ordinary

-----------------------------------------------------------------------------
(* The steps that change an entry *)

\* One entry is replaced.
Puts(k, t, en) == versioned' = [versioned EXCEPT ![k][t] = en]

Replaced(k, t, en) ==
  /\ DOMAIN versioned' = Keys
  /\ \A c \in Keys : DOMAIN versioned'[c] = Txns
  /\ \A c \in Keys : \A u \in Txns : IsEntry(versioned'[c][u])
  /\ versioned'[k][t] = en
  /\ \A c \in Keys \ {k} : versioned'[c] = versioned[c]
  /\ \A u \in Txns \ {t} : versioned'[k][u] = versioned[k][u]

LEMMA PutIs ==
  ASSUME MemoryType, NEW k \in Keys, NEW t \in Txns, NEW en, IsEntry(en), Puts(k, t, en)
  PROVE  Replaced(k, t, en)
<1>1. /\ DOMAIN versioned = Keys /\ \A c \in Keys : DOMAIN versioned[c] = Txns
      /\ \A c \in Keys : \A u \in Txns : IsEntry(versioned[c][u])
  BY Zenon DEF MemoryType
<1>2. PICK col : col = [versioned[k] EXCEPT ![t] = en]
  BY Zenon
<1>3. versioned' = [versioned EXCEPT ![k] = col]
  BY <1>2, Zenon DEF Puts
<1>4. DOMAIN versioned' = Keys /\ versioned'[k] = col /\ \A c \in Keys \ {k} : versioned'[c] = versioned[c]
  BY <1>1, <1>3
<1>5. DOMAIN col = Txns /\ col[t] = en /\ \A u \in Txns \ {t} : col[u] = versioned[k][u]
  BY <1>1, <1>2
<1> QED BY <1>1, <1>4, <1>5, Zenon DEF Replaced

\* A delta is materialized.
LEMMA MaterializeKeepsMemory ==
  ASSUME SchedulerInv, MemoryInv, SchedulerInv', NEW th \in Threads, Materialize(th)
  PROVE  MemoryInv'
<1> DEFINE e == exec[th]
<1>0. PICK t : t = Head(channel[th])
  BY Zenon
<1>1. PICK k \in e.todo :
        /\ pc[th] = "hook"
        /\ \/ UNCHANGED versioned
           \/ \E v : versioned' = [versioned EXCEPT ![k][t].shortcut = v]
        /\ Set(th, [NoExec EXCEPT !.todo = e.todo \ {k}])
        /\ UNCHANGED <<block, scheduler, outputs, hooks>>
  BY <1>0, Zenon DEF Materialize
<1>2. /\ UNCHANGED <<num_txns, txn_status, pc, task, loc, commit_state>>
      /\ UNCHANGED <<outputs, channel, worker_idx, block>>
  BY <1>1, Zenon DEF scheduler, indices, statuses, threads, hooks
<1>3. channel[th] # <<>> /\ e.todo \subseteq DOMAIN outputs[t].deltas /\ MemoryType /\ HooksInv
  BY <1>0, <1>1, Zenon DEF MemoryInv, WorkInv, HookInv
<1>4. t \in Txns
  BY <1>0, <1>3, HookIsCommitted, Zenon
<1>5. k \in Keys
  BY <1>3, <1>4, Zenon DEF MemoryType, IsOutput, OutputKeys
<1>6. PICK f : f = [NoExec EXCEPT !.todo = e.todo \ {k}]
  BY Zenon
<1>7. IsExec(f) /\ f.todo = e.todo \ {k}
  BY <1>6, NoExecIs, Zenon
<1>8. DOMAIN exec' = Threads /\ exec'[th] = f /\ \A d \in Threads \ {th} : exec'[d] = exec[d]
  BY <1>1, <1>3, <1>6, SetIs, Zenon
<1> HIDE DEF e
<1>9. /\ DOMAIN versioned' = Keys /\ \A c \in Keys : DOMAIN versioned'[c] = Txns
      /\ \A c \in Keys : \A u \in Txns : IsEntry(versioned'[c][u])
      /\ \A u \in Txns : Kept(u)
  <2>1. CASE UNCHANGED versioned
    BY <1>2, <1>3, <2>1, Zenon DEF MemoryType, Kept, modified_keys
  <2>2. CASE \E v : versioned' = [versioned EXCEPT ![k][t].shortcut = v]
    <3>1. PICK v : versioned' = [versioned EXCEPT ![k][t].shortcut = v]
      BY <2>2
    <3>2. PICK en : en = [versioned[k][t] EXCEPT !.shortcut = v]
      BY Zenon
    <3>3. Puts(k, t, en)
      BY <3>1, <3>2, Zenon DEF Puts
    <3>4. IsEntry(versioned[k][t])
      BY <1>3, <1>4, <1>5, Zenon DEF MemoryType
    <3>5. /\ IsEntry(en) /\ en.cell = versioned[k][t].cell /\ en.inc = versioned[k][t].inc
          /\ en.estimate = versioned[k][t].estimate
      BY <3>2, <3>4 DEF IsEntry
    <3>6. Replaced(k, t, en)
      BY <1>3, <1>4, <1>5, <3>3, <3>5, PutIs, Zenon
    <3>7. \A u \in Txns : Kept(u)
      BY <1>2, <3>5, <3>6, Zenon DEF Kept, modified_keys, Replaced
    <3> QED BY <3>6, <3>7, Zenon DEF Replaced
  <2> QED BY <1>1, <2>1, <2>2, Zenon
<1>10. MemoryType'
  <2>1. \A d \in Threads : IsExec(exec'[d])
    BY <1>3, <1>7, <1>8, Zenon DEF MemoryType
  <2>2. DOMAIN outputs' = Txns /\ \A u \in Txns : IsOutput(outputs'[u])
    BY <1>2, <1>3, Zenon DEF MemoryType
  <2> QED BY <1>2, <1>8, <1>9, <2>1, <2>2, TypeNext, Zenon
<1>11. HooksInv' /\ Moves(th)
  BY <1>2, <1>3, Zenon DEF HooksInv, Moves, Same, SchedulerInv, LocalType
<1>12. \A d \in Threads \ {th} :
         pc[d] = "hook" => channel'[d] # <<>> /\ Head(channel'[d]) = Head(channel[d])
  BY <1>2, Zenon DEF MemoryInv, WorkInv, HookInv
<1>13. HookInv(th)'
  BY <1>0, <1>2, <1>3, <1>7, <1>8, Zenon DEF HookInv, e
<1>14. Works(pc'[th], task'[th], exec'[th])
  <2>1. Free("hook") /\ Works(pc[th], task[th], exec[th])
    BY FreePcs, Zenon DEF MemoryInv, WorkInv
  <2>2. task[th].inc \in Nat /\ task[th].txn \in Txns
    BY TaskAt, Zenon DEF Inc, Txn
  <2> QED BY <1>1, <1>2, <1>3, <2>1, <2>2, FreeIs, Zenon
<1> QED BY <1>2, <1>8, <1>9, <1>10, <1>11, <1>12, <1>13, <1>14, MemoryStep, Zenon

\* A step that changes the entries of the transaction that the thread owns.
LEMMA ColumnStep ==
  ASSUME SchedulerInv, MemoryInv, NEW th \in Threads, Moves(th), NEW t \in Txns, Owns(th, t),
         UNCHANGED <<num_txns, txn_status, channel, worker_idx, block>>,
         commit_state'.idx = commit_state.idx, MemoryType', \A u \in Txns \ {t} : Kept(u),
         \A d \in Threads \ {th} : exec'[d] = exec[d],
         StatusFits(t, txn_status[t])', Works(pc[th], task[th], exec[th])', pc'[th] # "hook"
  PROVE  MemoryInv'
<1>1. \A d \in Threads \ {th} :
        pc[d] = "hook" => channel'[d] # <<>> /\ Head(channel'[d]) = Head(channel[d])
  BY Zenon DEF MemoryInv, WorkInv, HookInv
<1>2. \A u \in Txns : Kept(u) \/ Owns(th, u)
  BY Zenon
<1>3. \A d \in Threads \ {th} : WorkInv(d)'
  BY <1>1, <1>2, OthersKeep, Zenon
<1>4. WorkInv(th)'
  BY Zenon DEF WorkInv, HookInv
<1>5. ASSUME NEW u \in Txns \ {t} PROVE ColumnInv(u)'
  <2>1. ColumnInv(u)
    BY Zenon DEF MemoryInv
  <2>2. PICK v : v = txn_status[u]
    BY Zenon
  <2>3. StatusFits(u, v) /\ v = txn_status'[u]
    BY <2>1, <2>2, Zenon DEF ColumnInv
  <2>4. u < commit_state'.idx => Matches(u) /\ Clean(u)
    BY <2>1, Zenon DEF ColumnInv
  <2> QED BY <2>3, <2>4, ColumnKept, Zenon
<1>6. ColumnInv(t)'
  <2>1. ~(t < commit_state.idx)
    BY Zenon DEF SchedulerInv, CommitInv, Owns, Exe
  <2> QED BY <2>1, Zenon DEF ColumnInv
<1>7. \A u \in Txns' : ColumnInv(u)'
  BY <1>5, <1>6, Zenon DEF Txns
<1>8. HooksInv' /\ VmOutputs'
  BY Zenon DEF MemoryInv, HooksInv, VmOutputs
<1> QED BY <1>3, <1>4, <1>7, <1>8, Zenon DEF MemoryInv

\* While an output is applied and recorded, the status says nothing of the entries.
LEMMA ApplyingOwns ==
  ASSUME SchedulerInv, MemoryInv, NEW th \in Threads, pc[th] \in Applying
  PROVE  /\ task[th].kind = "Execute" /\ task[th].txn \in Txns /\ task[th].inc \in Nat
         /\ Owns(th, task[th].txn)
         /\ txn_status[task[th].txn].st \in {"Executing", "ExecutionHalted"}
         /\ Older(task[th].txn, task[th].inc + 1)
         /\ Applies(task[th].txn, task[th].inc, exec[th])
         /\ IsExec(exec[th])
<1>1. pc[th] \notin Finishing /\ pc[th] # "wait"
  BY DEF Applying, Finishing
<1>2. Kind(th) = "Execute" /\ Txn(th) \in Txns /\ Inc(th) \in Nat /\ Exe(th)
  BY <1>1, TaskAt, Zenon DEF Exe
<1>3. OwnInv(th) /\ Works(pc[th], task[th], exec[th]) /\ IsExec(exec[th])
  BY Zenon DEF SchedulerInv, ThreadInv, MemoryInv, MemoryType, WorkInv
<1>4. txn_status[Txn(th)] \in {Status("Executing", Inc(th)), Halted}
  BY <1>1, <1>2, <1>3, Zenon DEF OwnInv
<1>5. txn_status[Txn(th)].st \in {"Executing", "ExecutionHalted"}
  BY <1>4 DEF Status, Halted
<1>6. Older(task[th].txn, task[th].inc + 1) /\ Applies(task[th].txn, task[th].inc, exec[th])
  BY <1>1, <1>2, <1>3, Zenon DEF Works, Kind
<1> QED BY <1>2, <1>3, <1>5, <1>6, Zenon DEF Owns, Kind, Txn, Inc

LEMMA OpenFits ==
  ASSUME NEW t, txn_status' = txn_status, txn_status[t].st \in {"Executing", "ExecutionHalted"}
  PROVE  StatusFits(t, txn_status[t])'
BY DEF StatusFits

\* The entry of a key of the output is put, or that of a stale key removed.
LEMMA AppliesOne ==
  ASSUME NEW t, NEW i, NEW e, IsExec(e), Applies(t, i, e), NEW k, NEW f, NEW en,
         f.out = e.out, outputs' = outputs, \A c \in Keys \ {k} : versioned'[c] = versioned[c],
         versioned'[k][t] = en,
         \/ /\ k \in e.todo /\ en.cell # "None" /\ ~en.estimate
            /\ k \in DOMAIN e.out.deltas => en.cell = "Delta"
            /\ f.todo = e.todo \ {k} /\ f.stale = e.stale
         \/ k \in e.stale /\ en.cell = "None" /\ f.todo = e.todo /\ f.stale = e.stale \ {k}
  PROVE  Applies(t, i, f)'
<1> DEFINE new == OutputKeys(e.out)
           old == modified_keys(t)
           In(c, todo, stale) == c \in (new \ todo) \cup (todo \cap old) \cup stale
<1>1. OutputKeys(f.out)' = new /\ modified_keys(t)' = old /\ new \subseteq Keys
  BY Zenon DEF IsExec, IsOutput, OutputKeys, modified_keys
<1>2. /\ e.todo \subseteq new /\ e.stale \subseteq old \ new
      /\ \A c \in Keys : versioned[c][t].cell # "None" <=> In(c, e.todo, e.stale)
      /\ \A c \in new \ e.todo : /\ ~versioned[c][t].estimate
                                 /\ c \in DOMAIN e.out.deltas => versioned[c][t].cell = "Delta"
      /\ \A c \in e.todo : versioned[c][t].inc < i
  BY Zenon DEF Applies
<1> HIDE DEF new, old
<1>3. f.todo \subseteq new /\ f.stale \subseteq old \ new
  BY <1>2, Zenon
<1>4. \A c \in Keys \ {k} : In(c, f.todo, f.stale) <=> In(c, e.todo, e.stale)
  BY Zenon
<1>5. k \in Keys => (en.cell # "None" <=> In(k, f.todo, f.stale))
  BY <1>2, Zenon
<1> HIDE DEF In
<1>6. \A c \in Keys : versioned'[c][t].cell # "None" <=> In(c, f.todo, f.stale)
  <2> SUFFICES ASSUME NEW c \in Keys
               PROVE  versioned'[c][t].cell # "None" <=> In(c, f.todo, f.stale)
    BY Zenon
  <2>1. CASE c = k
    BY <1>5, <2>1, Zenon
  <2>2. CASE c # k
    BY <1>2, <1>4, <2>2, Zenon
  <2> QED BY <2>1, <2>2
<1>7. \A c \in new \ f.todo : /\ ~versioned'[c][t].estimate
                              /\ c \in DOMAIN e.out.deltas => versioned'[c][t].cell = "Delta"
  BY <1>1, <1>2, Zenon
<1>8. \A c \in f.todo : versioned'[c][t].inc < i
  BY <1>1, <1>2, Zenon
<1> QED BY <1>1, <1>3, <1>6, <1>7, <1>8, Zenon DEF Applies, In

LEMMA ApplyKeepsMemory ==
  ASSUME SchedulerInv, MemoryInv, SchedulerInv', NEW th \in Threads, Apply(th)
  PROVE  MemoryInv'
<1>1. PICK p, tk, e, t : p = pc[th] /\ tk = task[th] /\ e = exec[th] /\ t = task[th].txn
  BY Zenon
<1>2. /\ p = "apply" /\ UNCHANGED <<num_txns, txn_status, commit_state, pc, task, loc>>
      /\ UNCHANGED <<outputs, channel, worker_idx, block>>
  BY <1>1, Zenon DEF Apply, scheduler, indices, statuses, threads, lastio, hooks
<1>3. p \in Applying /\ p \notin Marking /\ p \notin {"show", "look", "hook"} /\ p # "executed"
  BY <1>2 DEF Applying, Marking
<1>4. /\ tk.kind = "Execute" /\ t = tk.txn /\ t \in Txns /\ tk.inc \in Nat
      /\ Owns(th, t) /\ txn_status[t].st \in {"Executing", "ExecutionHalted"}
      /\ Older(t, tk.inc + 1) /\ Applies(t, tk.inc, e) /\ IsExec(e) /\ MemoryType
  BY <1>1, <1>3, ApplyingOwns, Zenon DEF MemoryInv
<1>5. /\ e.todo \subseteq OutputKeys(e.out) /\ e.stale \subseteq modified_keys(t)
      /\ OutputKeys(e.out) \subseteq Keys /\ modified_keys(t) \subseteq Keys
      /\ DOMAIN e.out.writes \cap DOMAIN e.out.deltas = {}
  BY <1>4, Zenon DEF Applies, IsExec, IsOutput, MemoryType, modified_keys
<1> DEFINE Does(k, en, f) ==
             \/ /\ k \in e.todo /\ en.cell # "None" /\ ~en.estimate
                /\ k \in DOMAIN e.out.deltas => en.cell = "Delta"
                /\ f.todo = e.todo \ {k} /\ f.stale = e.stale
             \/ k \in e.stale /\ en.cell = "None" /\ f.todo = e.todo /\ f.stale = e.stale \ {k}
           Todo(k) == [e EXCEPT !.todo = e.todo \ {k}]
           Stale(k) == [e EXCEPT !.stale = e.stale \ {k}]
<1>6. ASSUME NEW k
      PROVE  /\ IsExec(Todo(k)) /\ Todo(k).out = e.out /\ Todo(k).stale = e.stale
             /\ Todo(k).todo = e.todo \ {k}
             /\ IsExec(Stale(k)) /\ Stale(k).out = e.out /\ Stale(k).todo = e.todo
             /\ Stale(k).stale = e.stale \ {k}
  BY <1>4 DEF IsExec
<1>7. /\ IsEntry(NoEntry) /\ NoEntry.cell = "None" /\ NoEntry.inc < tk.inc + 1
      /\ \A v : LET w == Write(tk.inc, v)
                IN  IsEntry(w) /\ w.cell # "None" /\ ~w.estimate /\ w.inc < tk.inc + 1
      /\ \A v : LET d == Delta(v)
                IN  IsEntry(d) /\ d.cell = "Delta" /\ d.cell # "None" /\ ~d.estimate /\ d.inc < tk.inc + 1
  BY <1>4 DEF IsEntry, NoEntry, Write, Delta
<1>8. \E k \in Keys : \E en, f :
        /\ IsEntry(en) /\ en.inc < tk.inc + 1 /\ IsExec(f) /\ f.out = e.out /\ Does(k, en, f)
        /\ Puts(k, t, en) /\ Set(th, f)
  <2> DEFINE writes == e.todo \cap DOMAIN e.out.writes
  <2>1. CASE \E k \in writes : Puts(k, t, Write(tk.inc, e.out.writes[k])) /\ Set(th, Todo(k))
    <3>1. PICK k \in writes : Puts(k, t, Write(tk.inc, e.out.writes[k])) /\ Set(th, Todo(k))
      BY <2>1, Zenon
    <3> HIDE DEF Todo, Stale
    <3>2. k \in Keys /\ k \in e.todo /\ k \notin DOMAIN e.out.deltas
      BY <1>5, Zenon
    <3> QED BY <1>6, <1>7, <3>1, <3>2, Zenon
  <2>2. CASE \E k \in e.todo \ writes : Puts(k, t, Delta(e.out.deltas[k])) /\ Set(th, Todo(k))
    <3>1. PICK k \in e.todo \ writes : Puts(k, t, Delta(e.out.deltas[k])) /\ Set(th, Todo(k))
      BY <2>2, Zenon
    <3> HIDE DEF Todo, Stale
    <3>2. k \in Keys /\ k \in e.todo
      BY <1>5, Zenon
    <3> QED BY <1>6, <1>7, <3>1, <3>2, Zenon
  <2>3. CASE \E k \in e.stale : Puts(k, t, NoEntry) /\ Set(th, Stale(k))
    <3>1. PICK k \in e.stale : Puts(k, t, NoEntry) /\ Set(th, Stale(k))
      BY <2>3, Zenon
    <3> HIDE DEF Todo, Stale
    <3>2. k \in Keys
      BY <1>5, Zenon
    <3> QED BY <1>6, <1>7, <3>1, <3>2, Zenon
  <2> QED BY <1>1, <2>1, <2>2, <2>3, Zenon DEF Apply, Puts
<1>9. PICK k \in Keys : \E en, f :
        /\ IsEntry(en) /\ en.inc < tk.inc + 1 /\ IsExec(f) /\ f.out = e.out /\ Does(k, en, f)
        /\ Puts(k, t, en) /\ Set(th, f)
  BY <1>8, Zenon
<1>10. PICK en, f :
        /\ IsEntry(en) /\ en.inc < tk.inc + 1 /\ IsExec(f) /\ f.out = e.out /\ Does(k, en, f)
        /\ Puts(k, t, en) /\ Set(th, f)
  BY <1>9, Zenon
<1>11. Replaced(k, t, en)
  BY <1>4, <1>10, PutIs, Zenon
<1>12. DOMAIN exec' = Threads /\ exec'[th] = f /\ \A d \in Threads \ {th} : exec'[d] = exec[d]
  BY <1>4, <1>10, SetIs, Zenon
<1>13. Applies(t, tk.inc, f)'
  <2>1. /\ \A c \in Keys \ {k} : versioned'[c] = versioned[c]
        /\ versioned'[k][t] = en
    BY <1>11, Zenon DEF Replaced
  <2> QED BY <1>2, <1>4, <1>10, <2>1, AppliesOne, ZenonT(60)
<1> HIDE DEF Does
<1>14. Older(t, tk.inc + 1)'
  BY <1>4, <1>10, <1>11, Zenon DEF Older, Replaced
<1>15. Works(p, tk, f)'
  BY <1>3, <1>4, <1>13, <1>14, Zenon DEF Works
<1>16. MemoryType'
  <2>1. \A d \in Threads : IsExec(exec'[d])
    BY <1>4, <1>10, <1>12, Zenon DEF MemoryType
  <2>2. DOMAIN outputs' = Txns /\ \A u \in Txns : IsOutput(outputs'[u])
    BY <1>2, <1>4, Zenon DEF MemoryType
  <2> QED BY <1>2, <1>11, <1>12, <2>1, <2>2, TypeNext, Zenon DEF Replaced
<1>17. \A u \in Txns \ {t} : Kept(u)
  BY <1>2, <1>11, Zenon DEF Kept, modified_keys, Replaced
<1>18. StatusFits(t, txn_status[t])'
  BY <1>2, <1>4, OpenFits, Zenon
<1>19. Works(pc[th], task[th], exec[th])'
  BY <1>1, <1>2, <1>12, <1>15, Zenon DEF Works, Applies
<1>20. /\ Moves(th) /\ commit_state'.idx = commit_state.idx
       /\ pc'[th] # "hook" /\ UNCHANGED <<num_txns, txn_status, channel, worker_idx, block>>
  BY <1>1, <1>2, <1>3, Zenon DEF Moves, Same, SchedulerInv, LocalType
<1> QED BY <1>4, <1>12, <1>16, <1>17, <1>18, <1>19, <1>20, ColumnStep, Zenon

\* The output is recorded.
LEMMA RecordKeepsMemory ==
  ASSUME SchedulerInv, MemoryInv, SchedulerInv', NEW th \in Threads, Record(th)
  PROVE  MemoryInv'
<1>1. PICK tk, e, t : tk = task[th] /\ e = exec[th] /\ t = task[th].txn
  BY Zenon
<1>2. /\ UNCHANGED <<num_txns, txn_status, commit_state, versioned, channel, worker_idx, block>>
      /\ outputs' = [outputs EXCEPT ![t] = e.out] /\ Set(th, NoExec)
      /\ Goto(th, "executed", loc[th])
  BY <1>1, Zenon DEF Record, indices, statuses, memory, hooks
<1>3. /\ "apply" \in Applying /\ "show" \in Applying /\ "show" \in {"show", "look"}
      /\ "executed" \notin Applying /\ "executed" \notin Marking /\ "executed" \notin Finishing
      /\ "executed" \notin {"show", "look", "hook"}
  BY DEF Applying, Marking, Finishing
<1>4. pc[th] \in Applying /\ e.todo = {} /\ e.stale = {}
  <2>1. CASE Applied(th)
    BY <1>1, <1>3, <2>1, Zenon DEF Applied
  <2>2. CASE pc[th] = "show"
    BY <1>1, <1>3, <2>2, Zenon DEF MemoryInv, WorkInv, Works
  <2> QED BY <2>1, <2>2, Zenon DEF Record
<1>5. /\ tk.kind = "Execute" /\ t = tk.txn /\ t \in Txns /\ tk.inc \in Nat
      /\ Owns(th, t) /\ txn_status[t].st \in {"Executing", "ExecutionHalted"}
      /\ Older(t, tk.inc + 1) /\ Applies(t, tk.inc, e) /\ IsExec(e) /\ MemoryType
  BY <1>1, <1>4, ApplyingOwns, Zenon DEF MemoryInv
<1>6. DOMAIN outputs = Txns /\ IsOutput(e.out)
  BY <1>5, Zenon DEF MemoryType, IsExec
<1>7. /\ DOMAIN outputs' = Txns /\ outputs'[t] = e.out
      /\ \A u \in Txns \ {t} : outputs'[u] = outputs[u]
  BY <1>2, <1>5, <1>6
<1>8. DOMAIN exec' = Threads /\ exec'[th] = NoExec /\ \A d \in Threads \ {th} : exec'[d] = exec[d]
  BY <1>2, <1>5, SetIs, Zenon
<1>9. Moves(th) /\ pc'[th] = "executed" /\ task'[th] = task[th]
  BY <1>2 DEF SchedulerInv, LocalType, Goto, Moves, Same
<1> DEFINE new == OutputKeys(e.out)
<1>10. modified_keys(t)' = new
  BY <1>7, Zenon DEF modified_keys, OutputKeys
<1>11. /\ \A k \in Keys : versioned[k][t].cell # "None" <=> k \in new
       /\ \A k \in new : /\ ~versioned[k][t].estimate
                         /\ k \in DOMAIN e.out.deltas => versioned[k][t].cell = "Delta"
  <2>1. \A k : k \in (new \ e.todo) \cup (e.todo \cap modified_keys(t)) \cup e.stale <=> k \in new
    BY <1>4, Zenon
  <2> QED BY <1>4, <1>5, <2>1, Zenon DEF Applies
<1>12. /\ \A k \in Keys : versioned[k][t].cell = "None" => ~versioned[k][t].estimate
       /\ DOMAIN e.out.deltas \subseteq new
  BY <1>5, Zenon DEF MemoryType, IsEntry, OutputKeys
<1> HIDE DEF new
<1>13. Matches(t)' /\ Older(t, tk.inc + 1)'
  BY <1>2, <1>5, <1>10, <1>11, Zenon DEF Matches, Older
<1>14. Clean(t)'
  BY <1>2, <1>7, <1>11, <1>12, Zenon DEF Clean
<1>15. Works(pc[th], task[th], exec[th])'
  BY <1>1, <1>3, <1>5, <1>9, <1>13, <1>14, Zenon DEF Works
<1>16. MemoryType'
  <2>1. \A d \in Threads : IsExec(exec'[d])
    BY <1>5, <1>8, NoExecIs, Zenon DEF MemoryType
  <2>2. \A u \in Txns : IsOutput(outputs'[u])
    BY <1>5, <1>6, <1>7, Zenon DEF MemoryType
  <2>3. /\ DOMAIN versioned' = Keys /\ \A k \in Keys : DOMAIN versioned'[k] = Txns
        /\ \A k \in Keys : \A u \in Txns : IsEntry(versioned'[k][u])
    BY <1>2, <1>5, Zenon DEF MemoryType
  <2> QED BY <1>2, <1>7, <1>8, <2>1, <2>2, <2>3, TypeNext, Zenon
<1>17. \A u \in Txns \ {t} : Kept(u)
  BY <1>2, <1>7, Zenon DEF Kept, modified_keys, OutputKeys
<1>18. StatusFits(t, txn_status[t])'
  BY <1>2, <1>5, OpenFits, Zenon
<1>19. /\ commit_state'.idx = commit_state.idx /\ pc'[th] # "hook"
       /\ UNCHANGED <<num_txns, txn_status, channel, worker_idx, block>>
  BY <1>2, <1>3, <1>9, Zenon
<1> QED BY <1>5, <1>8, <1>9, <1>15, <1>16, <1>17, <1>18, <1>19, ColumnStep, Zenon

\* An entry of an aborted incarnation becomes an estimate.
LEMMA MarkEstimateKeepsMemory ==
  ASSUME SchedulerInv, MemoryInv, SchedulerInv', NEW th \in Threads, MarkEstimate(th)
  PROVE  MemoryInv'
<1>1. PICK tk, e, t : tk = task[th] /\ e = exec[th] /\ t = task[th].txn
  BY Zenon
<1>2. /\ pc[th] = "aborted" /\ UNCHANGED <<block, indices, statuses, condvar, outputs, exec, hooks>>
      /\ \/ Goto(th, "marked", Idle) /\ UNCHANGED versioned
         \/ \E k \in modified_keys(t) :
              /\ versioned' = [versioned EXCEPT ![k][t].estimate = TRUE]
              /\ Goto(th, "marked", Idle) \/ Goto(th, "aborted", Idle)
  BY <1>1, Zenon DEF MarkEstimate, lastio
<1>3. /\ \A p \in {"aborted", "marked"} :
           p \in Marking /\ p \notin Applying /\ p \notin {"show", "look"} /\ p # "hook"
      /\ pc[th] \in Marking
  BY <1>2 DEF Applying, Marking
<1>4. PICK p \in {"aborted", "marked"} : Goto(th, p, Idle)
  BY <1>2, Zenon
<1>5. Moves(th) /\ pc'[th] = p /\ task'[th] = task[th]
  BY <1>4 DEF SchedulerInv, LocalType, Goto, Moves, Same
<1>6. Kind(th) = "Validate" /\ t \in Txns /\ tk.inc \in Nat /\ t = tk.txn
  BY <1>1, <1>3, TaskAt, Zenon DEF Txn, Inc
<1>7. tk.kind # "Execute"
  BY <1>1, <1>6 DEF Kind
<1>8. /\ Matches(t) /\ MemoryType /\ Owns(th, t) /\ OwnInv(th) /\ Abt(th)
      /\ StatusFits(t, txn_status[t])
  <2>1. Works(pc[th], task[th], exec[th]) /\ MemoryType /\ ColumnInv(t) /\ OwnInv(th)
    BY <1>6, Zenon DEF MemoryInv, WorkInv, SchedulerInv, ThreadInv
  <2>2. Matches(t) /\ StatusFits(t, txn_status[t])
    BY <1>1, <1>3, <2>1, Zenon DEF Works, ColumnInv
  <2>3. Abt(th) /\ Owns(th, t)
    BY <1>1, <1>3, Zenon DEF Owns, Abt, Txn
  <2> QED BY <2>1, <2>2, <2>3, Zenon
<1>9. ASSUME Matches(t)' PROVE Works(pc[th], task[th], exec[th])'
  BY <1>1, <1>3, <1>5, <1>6, <1>7, <1>9, Zenon DEF Works
<1>10. CASE UNCHANGED versioned
  <2>1. Inside
    BY <1>2, <1>10, Zenon DEF Inside
  <2>2. Works(p, tk, e)
    BY <1>3, <1>6, <1>7, <1>8, Zenon DEF Works
  <2>3. Works(pc'[th], task'[th], exec'[th])
    BY <1>1, <1>2, <1>5, <2>2, Zenon
  <2>4. HookInv(th)'
    BY <1>3, <1>5, Zenon DEF HookInv
  <2> QED BY <1>2, <1>5, <2>1, <2>3, <2>4, InsideKeeps, Zenon
<1>11. CASE \E k \in modified_keys(t) : versioned' = [versioned EXCEPT ![k][t].estimate = TRUE]
  <2>1. PICK k \in modified_keys(t) : versioned' = [versioned EXCEPT ![k][t].estimate = TRUE]
    BY <1>11, Zenon
  <2>2. PICK en : en = [versioned[k][t] EXCEPT !.estimate = TRUE]
    BY Zenon
  <2>3. Puts(k, t, en)
    BY <2>1, <2>2, Zenon DEF Puts
  <2>4. k \in Keys
    BY <1>6, <1>8, Zenon DEF MemoryType, IsOutput, modified_keys
  <2>5. IsEntry(versioned[k][t]) /\ versioned[k][t].cell # "None"
    BY <1>6, <1>8, <2>4, Zenon DEF MemoryType, Matches
  <2>6. IsEntry(en) /\ en.cell = versioned[k][t].cell /\ en.inc = versioned[k][t].inc
    BY <2>2, <2>5 DEF IsEntry
  <2>7. Replaced(k, t, en)
    BY <1>6, <1>8, <2>3, <2>4, <2>6, PutIs, Zenon
  <2>8. UNCHANGED <<num_txns, txn_status, commit_state, outputs, exec, channel, worker_idx, block>>
    BY <1>2, Zenon DEF indices, statuses, hooks
  <2>9. \A c \in Keys : /\ versioned'[c][t].cell = versioned[c][t].cell
                        /\ versioned'[c][t].inc = versioned[c][t].inc
    BY <2>6, <2>7, Zenon DEF Replaced
  <2>10. Matches(t)' /\ \A i : Older(t, i) => Older(t, i)'
    BY <1>8, <2>8, <2>9, Zenon DEF Matches, Older, modified_keys
  <2>11. StatusFits(t, txn_status[t])'
    <3>1. txn_status[t] \in {Status("Aborting", tk.inc), Halted}
      BY <1>1, <1>8, Zenon DEF OwnInv, Txn, Inc
    <3>2. txn_status[t].st \in {"Aborting", "ExecutionHalted"}
      BY <3>1, SMTT(30) DEF Status, Halted
    <3>3. PICK s : s = txn_status[t]
      BY Zenon
    <3>4. s.st = "Aborting" => Older(t, s.inc + 1)'
      BY <1>8, <2>10, <3>3 DEF StatusFits
    <3>5. StatusFits(t, s)'
      BY <2>10, <3>2, <3>3, <3>4 DEF StatusFits
    <3> QED BY <2>8, <3>3, <3>5, Zenon DEF StatusFits
  <2>12. MemoryType'
    <3>1. DOMAIN exec' = Threads /\ \A d \in Threads : IsExec(exec'[d])
      BY <1>8, <2>8, Zenon DEF MemoryType
    <3>2. DOMAIN outputs' = Txns /\ \A u \in Txns : IsOutput(outputs'[u])
      BY <1>8, <2>8, Zenon DEF MemoryType
    <3> QED BY <2>7, <2>8, <3>1, <3>2, TypeNext, Zenon DEF Replaced
  <2>13. \A u \in Txns \ {t} : Kept(u)
    BY <2>7, <2>8, Zenon DEF Kept, modified_keys, Replaced
  <2>14. /\ commit_state'.idx = commit_state.idx /\ pc'[th] # "hook"
         /\ UNCHANGED <<num_txns, txn_status, channel, worker_idx, block>>
         /\ \A d \in Threads \ {th} : exec'[d] = exec[d]
    BY <1>3, <1>5, <2>8, Zenon
  <2>15. Works(pc[th], task[th], exec[th])'
    BY <1>9, <2>10
  <2> QED BY <1>5, <1>6, <1>8, <2>11, <2>12, <2>13, <2>14, <2>15, ColumnStep, Zenon
<1> QED BY <1>2, <1>10, <1>11, Zenon

-----------------------------------------------------------------------------
(* Every step *)

LEMMA HooksInitIs ==
  ASSUME Init
  PROVE  HooksInv
<1>1. channel = [th \in Threads |-> <<>>] /\ worker_idx = 1 /\ block \in Blocks
  BY Zenon DEF Init
<1>2. 1 \in 1..Len(Workers(block))
  BY <1>1, StmAssumption
<1> QED BY <1>1, <1>2, SchedulerAssumption DEF HooksInv

LEMMA MemoryInitIs ==
  ASSUME VmOutputs, Init, SchedulerInv
  PROVE  MemoryInv
<1>1. /\ versioned = [k \in Keys |-> [t \in Txns |-> NoEntry]]
      /\ outputs = [t \in Txns |-> NoOutput] /\ exec = [th \in Threads |-> NoExec]
      /\ txn_status = [t \in Txns |-> Status("Ready", 0)] /\ commit_state = NoIndex
      /\ \A th \in Threads : pc[th] \in {Top(th), "finished"} /\ task[th] \in {NoTask, Done}
  BY Zenon DEF Init, SchedulerInit, Txns
<1>2. \A k \in Keys : DOMAIN versioned[k] = Txns /\ \A t \in Txns : versioned[k][t] = NoEntry
  BY <1>1, Zenon
<1>3. IsEntry(NoEntry) /\ NoEntry.cell = "None" /\ NoEntry.inc < 0 /\ ~NoEntry.estimate
  BY DEF IsEntry, NoEntry
<1>4. MemoryType
  <2>1. DOMAIN exec = Threads /\ \A th \in Threads : IsExec(exec[th])
    BY <1>1, NoExecIs, Zenon
  <2>2. DOMAIN outputs = Txns /\ \A t \in Txns : IsOutput(outputs[t])
    BY <1>1, NoExecIs, Zenon
  <2>3. DOMAIN versioned = Keys
    BY <1>1, Zenon
  <2> QED BY <1>2, <1>3, <2>1, <2>2, <2>3, Zenon DEF MemoryType
<1>5. ASSUME NEW t \in Txns PROVE ColumnInv(t)
  <2>1. Status("Ready", 0).st = "Ready" /\ Status("Ready", 0).inc = 0 /\ ~(t < commit_state.idx)
    BY <1>1 DEF Status, NoIndex, Txns
  <2>2. OutputKeys(NoOutput) = {}
    BY DEF NoOutput, OutputKeys
  <2>3. modified_keys(t) = {}
    BY <1>1, <2>2, Zenon DEF modified_keys
  <2>4. Matches(t) /\ Older(t, 0)
    BY <1>2, <1>3, <2>3, Zenon DEF Matches, Older
  <2>5. txn_status[t] = Status("Ready", 0)
    BY <1>1, Zenon
  <2>6. StatusFits(t, txn_status[t])
    BY <2>1, <2>4, <2>5 DEF StatusFits
  <2> QED BY <2>1, <2>6, Zenon DEF ColumnInv
<1>6. ASSUME NEW th \in Threads PROVE WorkInv(th)
  <2>1. Top(th) \in {"commit", "run"} /\ Top(th) # "hook"
    BY DEF Top
  <2>2. Free(pc[th]) /\ pc[th] # "hook" /\ task[th] \in {NoTask, Done}
    BY <1>1, <2>1, FreePcs, Zenon
  <2>3. task[th].kind # "Execute" /\ task[th].inc \in Nat /\ task[th].txn \in Txns
    BY <2>2, TaskAt, TaskKinds, Zenon DEF Inc, Txn
  <2>4. Works(pc[th], task[th], exec[th])
    BY <1>4, <2>2, <2>3, FreeIs, Zenon
  <2> QED BY <2>2, <2>4, Zenon DEF WorkInv, HookInv
<1> QED BY <1>4, <1>5, <1>6, HooksInitIs, Zenon DEF MemoryInv

LEMMA MemoryKept ==
  ASSUME MemoryInv, UNCHANGED vars
  PROVE  MemoryInv'
<1>1. UNCHANGED <<num_txns, txn_status, commit_state, pc, task, versioned, outputs, exec, channel, worker_idx, block>>
  BY Zenon DEF vars, scheduler, indices, statuses, threads, memory, lastio, hooks
<1>2. MemoryType' /\ HooksInv' /\ VmOutputs'
  <2>1. /\ DOMAIN exec' = Threads /\ \A th \in Threads : IsExec(exec'[th])
        /\ DOMAIN versioned' = Keys /\ \A k \in Keys : DOMAIN versioned'[k] = Txns
        /\ \A k \in Keys : \A t \in Txns : IsEntry(versioned'[k][t])
        /\ DOMAIN outputs' = Txns /\ \A t \in Txns : IsOutput(outputs'[t])
    BY <1>1, Zenon DEF MemoryInv, MemoryType
  <2>2. MemoryType'
    BY <1>1, <2>1, TypeNext, Zenon
  <2>3. HooksInv' /\ VmOutputs'
    BY <1>1, Zenon DEF MemoryInv, HooksInv, VmOutputs
  <2> QED BY <2>2, <2>3
<1>3. \A t : Kept(t)
  BY <1>1, AllKept, Zenon
<1>4. ASSUME NEW t \in Txns PROVE ColumnInv(t)'
  <2>1. PICK s : s = txn_status[t]
    BY Zenon
  <2>2. ColumnInv(t) /\ s = txn_status'[t] /\ StatusFits(t, s)
    BY <1>1, <2>1, Zenon DEF MemoryInv, ColumnInv
  <2> QED BY <1>1, <1>3, <2>2, ColumnKept, Zenon DEF ColumnInv
<1>5. ASSUME NEW th \in Threads PROVE WorkInv(th)'
  <2>1. WorkInv(th)
    BY Zenon DEF MemoryInv
  <2>2. HookInv(th)'
    BY <1>1, <2>1, Zenon DEF WorkInv, HookInv
  <2>3. Works(pc[th], task[th], exec[th])'
    BY <1>1, <2>1, Zenon DEF WorkInv, Works, Older, Matches, Clean, Applies, modified_keys, OutputKeys
  <2> QED BY <2>2, <2>3, Zenon DEF WorkInv
<1>6. \A t \in Txns' : ColumnInv(t)'
  BY <1>1, <1>4, Zenon DEF Txns
<1> QED BY <1>2, <1>5, <1>6, Zenon DEF MemoryInv

LEMMA MemoryNext ==
  ASSUME SchedulerInv, MemoryInv, SchedulerInv', [Next]_vars
  PROVE  MemoryInv'
<1>1. CASE UNCHANGED vars
  BY <1>1, MemoryKept, Zenon
<1>2. ASSUME NEW th \in Threads, ExecutorStep(th) PROVE MemoryInv'
  BY <1>2, CommitKeepsMemory, SendLastKeepsMemory, StartHookKeepsMemory, MaterializeKeepsMemory,
     EndHookKeepsMemory, ExecutionsKeepMemory, ReadKeepsMemory, ApplyKeepsMemory,
     RecordsKeepMemory, RecordKeepsMemory, ValidationsKeepMemory, MarkEstimateKeepsMemory, Zenon
  DEF ExecutorStep
<1> QED BY <1>1, <1>2, CallsKeepMemory, Zenon DEF Next, Step

-----------------------------------------------------------------------------
(* What the invariant is for *)

\* A delta is read at or above it where nothing is an estimate.
LEMMA DeltaResolves ==
  ASSUME Extrema, NEW entries, NEW base, NEW t \in Nat, entries[t].cell = "Delta",
         \A j \in 0..t : ~entries[j].estimate
  PROVE  ReadEntries(entries, base, t + 1).kind \in {"Resolved", "Unresolved"}
<1> DEFINE below == {j \in 0..(t + 1) - 1 : entries[j] # NoEntry}
           stops == {j \in below : \/ entries[j].estimate
                                   \/ entries[j].cell = "Write"
                                   \/ entries[j].shortcut # -1}
           deltas(j) == {i \in below : i > j}
           r == ReadEntries(entries, base, t + 1)
<1>1. \A v : Resolved(v).kind = "Resolved" /\ Unresolved.kind = "Unresolved"
  BY DEF Resolved, Unresolved, Found
<1>2. entries[t] # NoEntry
  BY DEF NoEntry
<1>3. t \in below /\ stops \in SUBSET (0..t)
  BY <1>2
<1>4. CASE stops = {}
  <2>1. t \in deltas(-1)
    BY <1>3
  <2>2. deltas(-1) # {}
    BY <2>1, Zenon
  <2>3. r = IF base = -1 THEN Unresolved
            ELSE Resolved(base + MapThenSumSet(LAMBDA i : entries[i].val, deltas(-1)))
    BY <1>4, <2>2, Zenon DEF ReadEntries
  <2> HIDE DEF r
  <2>4. r.kind = "Resolved" \/ r.kind = "Unresolved"
    BY <1>1, <2>3, Zenon
  <2> QED BY <2>4 DEF r
<1>5. CASE stops # {}
  <2>1. PICK m : m = Max(stops)
    BY Zenon
  <2> HIDE DEF stops
  <2>2. m \in stops
    BY <1>3, <1>5, <2>1, Zenon DEF Extrema
  <2>3. m \in 0..t
    BY <1>3, <2>2
  <2>4. ~entries[m].estimate
    BY <2>3, Zenon
  <2>5. entries[m].cell # "Delta" => deltas(m) # {}
    <3>1. entries[m].cell # "Delta" => t > m
      BY <2>3
    <3> QED BY <1>3, <3>1, Zenon
  <2> HIDE DEF deltas
  <2>6. \/ r = Resolved(entries[m].shortcut + MapThenSumSet(LAMBDA i : entries[i].val, deltas(m)))
        \/ r = Resolved(entries[m].val + MapThenSumSet(LAMBDA i : entries[i].val, deltas(m)))
    BY <1>5, <2>1, <2>4, <2>5, Zenon DEF ReadEntries, deltas, stops
  <2> HIDE DEF r
  <2>7. r.kind = "Resolved"
    BY <1>1, <2>6, Zenon
  <2> QED BY <2>7 DEF r
<1> QED BY <1>4, <1>5

\* The coordinator has no execution task when it commits the last transaction.
LEMMA LastIsFree ==
  ASSUME SchedulerInv, pc[Coordinator] = "commit", commit_state.idx = num_txns - 1,
         CanCommit(num_txns - 1)
  PROVE  task[Coordinator].kind \notin {"Execute", "Wakeup"}
<1> DEFINE last == num_txns - 1
<1>1. last \in Txns /\ \A t \in Txns : t = last \/ t < commit_state.idx
  BY DEF SchedulerInv, SharedType, Txns
<1>2. txn_status[last].st = "Executed"
  BY Zenon DEF CanCommit, Commitable
<1> HIDE DEF last
<1>3. \A th \in Threads : ~Exe(th)
  <2> SUFFICES ASSUME NEW th \in Threads, Exe(th) PROVE FALSE
    BY Zenon
  <2>1. Txn(th) \in Txns /\ OwnInv(th)
    BY TaskAt, Zenon DEF SchedulerInv, ThreadInv
  <2>2. Txn(th) = last
    BY <1>1, <2>1, Zenon DEF SchedulerInv, CommitInv, Exe
  <2>3. \/ txn_status[last] \in {Status("Executing", Inc(th)), Halted}
        \/ txn_status[last].st \in {"Suspended", "Ready"}
    BY <2>1, <2>2, Zenon DEF OwnInv
  <2> QED BY <1>2, <2>3 DEF Status, Halted
<1>4. Coordinator \in Threads
  BY SchedulerAssumption
<1>5. Kind(Coordinator) # "Execute"
  <2>1. pc[Coordinator] \notin Finishing
    BY DEF Finishing
  <2> QED BY <1>3, <1>4, <2>1, Zenon DEF Exe
<1>6. Kind(Coordinator) # "Wakeup"
  <2> SUFFICES ASSUME Kind(Coordinator) = "Wakeup" PROVE FALSE
    BY Zenon
  <2>1. WakeInv(Coordinator)
    BY <1>4, Zenon DEF SchedulerInv, ThreadInv
  <2>2. PICK c \in Threads : pc[c] = "wait"
    BY <2>1, Zenon DEF WakeInv
  <2>3. pc[c] \in Running /\ pc[c] \notin Finishing
    BY <2>2 DEF Running, Finishing
  <2>4. Exe(c)
    BY <2>3, TaskAt, Zenon DEF Exe
  <2> QED BY <1>3, <2>4, Zenon
<1> QED BY <1>5, <1>6, Zenon DEF Kind

LEMMA StatusesAreExpected ==
  ASSUME SchedulerInv, NEW th \in Threads
  PROVE  LET t == task[th].txn
             Is(s) == txn_status[t] \in {Status(s, task[th].inc), Halted}
         IN  /\ pc[th] \in {"dependency", "executed"} => Is("Executing")
             /\ pc[th] \in {"aborted", "marked"} => Is("Aborting")
             /\ pc[th] = "resume" => \A d \in loc[th].todo :
                  txn_status[d] = Halted \/ txn_status[d].st = "Suspended"
<1>1. OwnInv(th) /\ IsLocal(loc[th])
  BY TaskAt, Zenon DEF SchedulerInv, ThreadInv
<1>2. CASE pc[th] \in {"dependency", "executed"}
  <2>1. /\ pc[th] \in Running \cup {"executed"} /\ pc[th] \notin Finishing /\ pc[th] # "wait"
        /\ pc[th] \notin {"aborted", "marked"} /\ pc[th] # "resume"
    BY <1>2 DEF Running, Finishing
  <2>2. Exe(th)
    BY <2>1, TaskAt, Zenon DEF Exe
  <2> QED BY <1>1, <2>1, <2>2, Zenon DEF OwnInv, Txn, Inc
<1>3. CASE pc[th] \in {"aborted", "marked"}
  <2>1. Abt(th) /\ pc[th] \notin {"dependency", "executed"} /\ pc[th] # "resume"
    BY <1>3 DEF Abt, Marking
  <2> QED BY <1>1, <2>1, Zenon DEF OwnInv, Txn, Inc
<1>4. \A d \in loc[th].todo : txn_status[d] = Halted \/ txn_status[d].st = "Suspended"
  <2> SUFFICES ASSUME NEW d \in loc[th].todo
               PROVE  txn_status[d] = Halted \/ txn_status[d].st = "Suspended"
    BY Zenon
  <2>1. Dependent(d) /\ CvInv(d)
    BY <1>1, Zenon DEF SchedulerInv, WaitInv, IsLocal
  <2> QED BY <2>1 DEF Dependent, CvInv
<1> QED BY <1>2, <1>3, <1>4, Zenon

LEMMA EntriesAreExpected ==
  ASSUME Extrema, SchedulerInv, MemoryInv, NEW th \in Threads
  PROVE  LET t == task[th].txn
         IN  /\ pc[th] = "apply" => /\ \A k \in exec[th].todo : versioned[k][t].inc < task[th].inc
                                    /\ \A k \in exec[th].stale : versioned[k][t] # NoEntry
             /\ pc[th] = "aborted" => \A k \in modified_keys(t) : versioned[k][t] # NoEntry
             /\ pc[th] = "hook" => \A k \in exec[th].todo :
                  fetch_data(k, Head(channel[th]) + 1).kind \in {"Resolved", "Unresolved"}
<1> DEFINE t == task[th].txn
<1>1. NoEntry.cell = "None" /\ "apply" \in Applying /\ "aborted" \in Marking
  BY DEF NoEntry, Applying, Marking
<1>2. /\ Works(pc[th], task[th], exec[th]) /\ HookInv(th) /\ t \in Txns /\ MemoryType
      /\ HooksInv
  BY TaskAt, Zenon DEF MemoryInv, WorkInv, Txn
<1>3. modified_keys(t) \subseteq Keys
  BY <1>2, Zenon DEF MemoryType, IsOutput, modified_keys
<1>4. ASSUME pc[th] = "apply"
      PROVE  /\ \A k \in exec[th].todo : versioned[k][t].inc < task[th].inc
             /\ \A k \in exec[th].stale : versioned[k][t] # NoEntry
  <2>1. Applies(t, task[th].inc, exec[th])
    BY <1>1, <1>2, <1>4, Zenon DEF Works
  <2>2. \A k \in exec[th].stale : k \in Keys /\ versioned[k][t].cell # "None"
    BY <1>3, <2>1, Zenon DEF Applies
  <2>3. \A k \in exec[th].todo : versioned[k][t].inc < task[th].inc
    BY <2>1, Zenon DEF Applies
  <2> QED BY <1>1, <2>2, <2>3, Zenon
<1>5. ASSUME pc[th] = "aborted"
      PROVE  \A k \in modified_keys(t) : versioned[k][t] # NoEntry
  <2>1. Matches(t)
    BY <1>1, <1>2, <1>5, Zenon DEF Works
  <2> QED BY <1>1, <1>3, <2>1, Zenon DEF Matches
<1>6. ASSUME pc[th] = "hook", NEW k \in exec[th].todo
      PROVE  fetch_data(k, Head(channel[th]) + 1).kind \in {"Resolved", "Unresolved"}
  <2>1. PICK u : u = Head(channel[th])
    BY Zenon
  <2>2. channel[th] # <<>> /\ k \in DOMAIN outputs[u].deltas
    BY <1>2, <1>6, <2>1, Zenon DEF HookInv
  <2>3. u \in Txns /\ u < commit_state.idx
    BY <1>2, <2>1, <2>2, HookIsCommitted, Zenon
  <2>4. k \in Keys
    BY <1>2, <2>2, <2>3, Zenon DEF MemoryType, IsOutput, OutputKeys
  <2>5. u \in Nat /\ \A j \in 0..u : j \in Txns /\ j < commit_state.idx
    BY <2>3 DEF SchedulerInv, SharedType, IsIndex, Txns
  <2>6. \A j \in 0..u : Clean(j)
    BY <2>5, Zenon DEF MemoryInv, ColumnInv
  <2>7. Clean(u)
    BY <2>3, Zenon DEF MemoryInv, ColumnInv
  <2>8. versioned[k][u].cell = "Delta" /\ \A j \in 0..u : ~versioned[k][j].estimate
    BY <2>2, <2>4, <2>6, <2>7, Zenon DEF Clean
  <2>9. PICK entries, base : entries = versioned[k] /\ base = base_value[k]
    BY Zenon
  <2>10. ReadEntries(entries, base, u + 1).kind \in {"Resolved", "Unresolved"}
    BY <2>5, <2>8, <2>9, DeltaResolves, Zenon
  <2> QED BY <2>1, <2>9, <2>10, Zenon DEF fetch_data
<1> QED BY <1>4, <1>5, <1>6, Zenon

LEMMA AssertionsFollow ==
  ASSUME Extrema, SchedulerInv, MemoryInv
  PROVE  AssertionsHold
<1>1. \A th \in Threads : task[th].kind = "Execute" =>
        \A d \in Threads \ {th} : ~(task[d].kind = "Execute" /\ task[d].txn = task[th].txn)
  BY Zenon DEF SchedulerInv, Alone, Kind, Txn
<1> QED BY <1>1, LastIsFree, StatusesAreExpected, EntriesAreExpected, Zenon DEF AssertionsHold

=============================================================================
