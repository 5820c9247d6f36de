------------------------------- MODULE Wakeup -------------------------------
(***************************************************************************)
(* How a submitted transaction gets a block built: the build_status and    *)
(* has_pending_tx flags of subnet/src/vm/mod.rs, written by the JSON-RPC    *)
(* handlers, by the two-second timer task and by inner_build_block, and the *)
(* PendingTxs messages that make the engine call build_block.  Handlers,    *)
(* timer, gossip and engine interleave at every await.                      *)
(*                                                                          *)
(* A PendingTxs message is always sent: the engine is there for as long as  *)
(* the plugin is, and the branch of a failed send is left out.              *)
(*                                                                          *)
(* The pool is the set of transactions get_batch may return; how the core   *)
(* mempool orders and evicts them is not modelled here.                     *)
(***************************************************************************)
EXTENDS Integers, FiniteSets, Sequences

CONSTANTS
  Txs,            \* the transactions users submit
  Handlers,       \* JSON-RPC handler tasks
  HttpLocked,     \* the node honours the handlers' LockOptions::WriteLock
  ClockSkew,      \* the preferred block may be stamped ahead of the local clock
  MaxBatch,       \* how many transactions build_block_data takes (500)
  Timeout,        \* how long the timer waits for a build, in clock ticks (120 s)
  MaxWakes,       \* bound on the PendingTxs messages the engine remembers
  MaxProcessing   \* bound on the blocks in consensus at a time

ASSUME WakeupAssumption ==
  /\ HttpLocked \in BOOLEAN /\ ClockSkew \in BOOLEAN
  /\ MaxBatch \in Nat \ {0}
  /\ Timeout \in Nat
  /\ MaxWakes \in Nat \ {0}
  /\ MaxProcessing \in Nat \ {0}

VARIABLES
  building,     \* Vm.build_status is 1
  hasPending,   \* Vm.has_pending_tx
  pool,         \* the transactions in Vm.core_mempool
  task,         \* each JSON-RPC handler: its step and what it still has to do
  timer,        \* the step of the check_pending_tx task
  since,        \* seconds since last_check_build_time, up to Timeout + 1
  wakes,        \* engine: PendingTxs messages not yet answered by a build
  processing,   \* engine: the transactions of each block in consensus, in order
  accepting,    \* engine: an accept is about to set the status
  announced,    \* pooled transactions whose submission asks for a block
  missed        \* those a build passed over, or whose block was lost

flags == <<building, hasPending>>
engine == <<wakes, processing, accepting>>
ghosts == <<announced, missed>>
wakeupVars == <<flags, pool, task, timer, since, engine, ghosts>>

At(step) == [pc |-> step, txs |-> {}, then |-> "free"]
Steps == {"free", "add", "notify", "flag", "send", "mark", "build", "commit", "done"}

WakeupTypeOK ==
  /\ building \in BOOLEAN /\ hasPending \in BOOLEAN
  /\ pool \subseteq Txs
  /\ task \in [Handlers -> [pc : Steps, txs : SUBSET Txs, then : {"free", "notify", "build"}]]
  /\ timer \in {"sleep", "look", "clear", "send", "mark", "reset"}
  /\ since \in 0..(Timeout + 1)
  /\ wakes \in 0..MaxWakes
  /\ processing \in Seq(SUBSET Txs) /\ Len(processing) <= MaxProcessing
  /\ accepting \in BOOLEAN
  /\ announced \subseteq pool /\ missed \subseteq announced

WakeupInit ==
  /\ building = FALSE /\ hasPending = FALSE
  /\ pool = {}
  /\ task = [h \in Handlers |-> At("free")]
  /\ timer = "sleep"
  /\ since = 0
  /\ wakes = 0 /\ processing = <<>> /\ accepting = FALSE
  /\ announced = {} /\ missed = {}

\* create_handlers asks for the chain's write lock around a request: a node that
\* honours it runs no two requests, and no request and engine call, at once.
AllFree == \A h \in Handlers : task[h].pc = "free"
RequestMayStart == HttpLocked => AllFree /\ ~accepting
CallMayStart == ~accepting /\ (HttpLocked => AllFree)

Goto(h, step) == task' = [task EXCEPT ![h] = At(step)]

Send == wakes' = IF wakes < MaxWakes THEN wakes + 1 ELSE wakes

\* get_batch(500): as many pooled transactions as fit, whichever come first.
Batches ==
  {T \in SUBSET pool : Cardinality(T) <= MaxBatch /\ (T = pool \/ Cardinality(T) = MaxBatch)}

-----------------------------------------------------------------------------
(* submit_transaction and submit_transaction_batch. *)

\* A submission of 50 KiB or more builds its block itself, a smaller one asks
\* for one.
SubmitTransaction(h, x, large) ==
  /\ task[h].pc = "free" /\ RequestMayStart
  /\ task' = [task EXCEPT ![h] =
       [pc |-> "add", txs |-> {x}, then |-> IF large THEN "build" ELSE "notify"]]
  /\ UNCHANGED <<flags, pool, timer, since, engine, ghosts>>

\* A batch asks for a block only when some of its transactions failed.
SubmitTransactionBatch(h, accepted, someFailed) ==
  /\ task[h].pc = "free" /\ RequestMayStart
  /\ accepted # {} \/ someFailed
  /\ task' = [task EXCEPT ![h] =
       [pc |-> "add", txs |-> accepted, then |-> IF someFailed THEN "notify" ELSE "free"]]
  /\ UNCHANGED <<flags, pool, timer, since, engine, ghosts>>

\* add_pool for one transaction of the request; after the last one, go on.
AddPool(h) ==
  /\ task[h].pc = "add"
  /\ IF task[h].txs = {}
     THEN Goto(h, task[h].then) /\ UNCHANGED <<pool, ghosts>>
     ELSE \E x \in task[h].txs :
            /\ pool' = pool \cup {x}
            /\ task' = [task EXCEPT ![h].txs = @ \ {x}]
            /\ IF task[h].then = "free" THEN UNCHANGED ghosts
               ELSE announced' = announced \cup {x} /\ missed' = missed \ {x}
  /\ UNCHANGED <<flags, timer, since, engine>>

\* app_gossip: a peer's transaction is pooled and nothing else happens.
AppGossip(x) ==
  /\ pool' = pool \cup {x}
  /\ UNCHANGED <<flags, task, timer, since, engine, ghosts>>

-----------------------------------------------------------------------------
(* notify_block_ready and notify_block_ready2, run by a handler. *)

\* Both flags are read under their locks: the two values belong together.
ReadFlags(h) ==
  /\ task[h].pc = "notify"
  /\ Goto(h, IF ~building THEN "send" ELSE IF ~hasPending THEN "flag" ELSE "free")
  /\ UNCHANGED <<flags, pool, timer, since, engine, ghosts>>

SetPending(h) ==
  /\ task[h].pc = "flag"
  /\ hasPending' = TRUE
  /\ Goto(h, "free")
  /\ UNCHANGED <<building, pool, timer, since, engine, ghosts>>

SendPendingTxs(h) ==
  /\ task[h].pc = "send"
  /\ Send
  /\ Goto(h, "mark")
  /\ UNCHANGED <<flags, pool, timer, since, processing, accepting, ghosts>>

MarkBuilding(h) ==
  /\ task[h].pc = "mark"
  /\ building' = TRUE
  /\ Goto(h, "free")
  /\ UNCHANGED <<hasPending, pool, timer, since, engine, ghosts>>

-----------------------------------------------------------------------------
(* The large submission: build_block_data and inner_build_block in the       *)
(* handler, without the engine.                                              *)

BuildData(h) ==
  /\ task[h].pc = "build"
  /\ \E T \in Batches :
       /\ task' = [task EXCEPT ![h] = [At("commit") EXCEPT !.txs = T]]
       /\ missed' = missed \cup (announced \ T)
  /\ UNCHANGED <<flags, pool, timer, since, engine, announced>>

CommitLarge(h) ==
  /\ task[h].pc = "commit"
  /\ pool' = pool \ task[h].txs
  /\ announced' = announced \ task[h].txs
  /\ missed' = missed \ task[h].txs
  /\ Goto(h, "done")
  /\ UNCHANGED <<flags, timer, since, engine>>

FinishLarge(h) ==
  /\ task[h].pc = "done"
  /\ building' = FALSE
  /\ Goto(h, "free")
  /\ UNCHANGED <<hasPending, pool, timer, since, engine, ghosts>>

-----------------------------------------------------------------------------
(* check_pending_tx: the timer task. *)

\* Two seconds have passed; build_status is read.
TimerWakes ==
  /\ timer = "sleep"
  /\ \/ /\ ~building
        /\ since' = 0 /\ timer' = "look"
     \/ /\ building /\ since > Timeout
        /\ timer' = "reset" /\ UNCHANGED since
  /\ UNCHANGED <<flags, pool, task, engine, ghosts>>

TimerLooks ==
  /\ timer = "look"
  /\ timer' = IF hasPending THEN "clear" ELSE "sleep"
  /\ UNCHANGED <<flags, pool, task, since, engine, ghosts>>

TimerClears ==
  /\ timer = "clear"
  /\ hasPending' = FALSE
  /\ timer' = "send"
  /\ UNCHANGED <<building, pool, task, since, engine, ghosts>>

TimerSends ==
  /\ timer = "send"
  /\ Send
  /\ timer' = "mark"
  /\ UNCHANGED <<flags, pool, task, since, processing, accepting, ghosts>>

\* Mutant of TimerMarks: the flag is lowered after the message, not before it.
TimerMarksAndClears ==
  /\ timer = "mark"
  /\ building' = TRUE
  /\ hasPending' = FALSE
  /\ timer' = "sleep"
  /\ UNCHANGED <<pool, task, since, engine, ghosts>>

TimerMarks ==
  /\ timer = "mark"
  /\ building' = TRUE
  /\ timer' = "sleep"
  /\ UNCHANGED <<hasPending, pool, task, since, engine, ghosts>>

\* Mutant of TimerResets: the timeout leaves the status at building.
TimerResetsNothing ==
  /\ timer = "reset"
  /\ since' = 0
  /\ timer' = "sleep"
  /\ UNCHANGED <<flags, pool, task, engine, ghosts>>

\* The build took too long: the status is set back, whatever the engine does.
TimerResets ==
  /\ timer = "reset"
  /\ building' = FALSE
  /\ since' = 0
  /\ timer' = "sleep"
  /\ UNCHANGED <<hasPending, pool, task, engine, ghosts>>

Tick ==
  /\ since <= Timeout
  /\ since' = since + 1
  /\ UNCHANGED <<flags, pool, task, timer, engine, ghosts>>

-----------------------------------------------------------------------------
(* The engine (external) and the calls it makes. *)

\* build_block: the pooled transactions, those of blocks still in consensus
\* among them, become the next block.
BuildBlock ==
  /\ CallMayStart
  /\ wakes > 0 /\ Len(processing) < MaxProcessing
  /\ wakes' = wakes - 1
  /\ \E T \in Batches :
       /\ processing' = Append(processing, T)
       /\ missed' = missed \cup (announced \ T)
  /\ UNCHANGED <<flags, pool, task, timer, since, accepting, announced>>

\* build_block aborts on the verify of its own block: the message is spent.
BuildBlockFails ==
  /\ CallMayStart /\ ClockSkew
  /\ wakes > 0
  /\ wakes' = wakes - 1
  /\ missed' = missed \cup announced
  /\ UNCHANGED <<flags, pool, task, timer, since, processing, accepting, announced>>

\* A block of another validator enters consensus behind the others.
VerifyForeign(T) ==
  /\ CallMayStart
  /\ Len(processing) < MaxProcessing
  /\ processing' = Append(processing, T)
  /\ UNCHANGED <<flags, pool, task, timer, since, wakes, accepting, ghosts>>

\* Block::accept of the oldest block: inner_build_block executes it and takes its
\* transactions out of the pool.
Accept ==
  /\ CallMayStart
  /\ processing # <<>>
  /\ accepting' = TRUE
  /\ pool' = pool \ Head(processing)
  /\ announced' = announced \ Head(processing)
  /\ missed' = missed \ Head(processing)
  /\ processing' = Tail(processing)
  /\ UNCHANGED <<flags, task, timer, since, wakes>>

\* A sibling of the oldest block is accepted in its place, and every block in
\* consensus is rejected; Block::reject touches neither the pool nor a flag.
AcceptSibling(T) ==
  /\ CallMayStart
  /\ processing # <<>>
  /\ accepting' = TRUE
  /\ pool' = pool \ T
  /\ announced' = announced \ T
  /\ missed' = (missed \cup (announced \cap UNION {processing[i] : i \in 1..Len(processing)})) \ T
  /\ processing' = <<>>
  /\ UNCHANGED <<flags, task, timer, since, wakes>>

\* The end of inner_build_block: update_build_block_status(0).
FinishAccept ==
  /\ accepting
  /\ building' = FALSE
  /\ accepting' = FALSE
  /\ UNCHANGED <<hasPending, pool, task, timer, since, wakes, processing, ghosts>>

-----------------------------------------------------------------------------

HandlerStep(h) ==
  \/ AddPool(h) \/ ReadFlags(h) \/ SetPending(h) \/ SendPendingTxs(h) \/ MarkBuilding(h)
  \/ BuildData(h) \/ CommitLarge(h) \/ FinishLarge(h)

TimerStep ==
  TimerWakes \/ TimerLooks \/ TimerClears \/ TimerSends \/ TimerMarks \/ TimerResets

WakeupNext ==
  \/ \E h \in Handlers :
       \/ HandlerStep(h)
       \/ \E x \in Txs, large \in BOOLEAN : SubmitTransaction(h, x, large)
       \/ \E T \in SUBSET Txs, someFailed \in BOOLEAN : SubmitTransactionBatch(h, T, someFailed)
  \/ TimerStep \/ Tick
  \/ \E x \in Txs : AppGossip(x)
  \/ BuildBlock \/ BuildBlockFails
  \/ \E T \in SUBSET Txs : VerifyForeign(T) \/ AcceptSibling(T)
  \/ Accept \/ FinishAccept

WakeupSpec == WakeupInit /\ [][WakeupNext]_wakeupVars

\* Handlers and the timer are tasks the runtime keeps scheduling; the engine
\* answers every PendingTxs message and decides every block, between which other
\* calls may keep it busy.
Fairness ==
  /\ \A h \in Handlers : WF_wakeupVars(HandlerStep(h))
  /\ WF_wakeupVars(TimerStep) /\ WF_wakeupVars(Tick)
  /\ SF_wakeupVars(BuildBlock) /\ SF_wakeupVars(Accept) /\ WF_wakeupVars(FinishAccept)

FairSpec == WakeupSpec /\ Fairness

-----------------------------------------------------------------------------

\* Something under way will make the engine build, or already has built, a
\* block with x: a handler short of its notification, a raised has_pending_tx,
\* the timer between lowering it and sending, a message, or a block.
OnItsWay(x) ==
  \/ \E h \in Handlers :
       \/ task[h].pc = "add" /\ task[h].then # "free"
       \/ task[h].pc \in {"notify", "flag", "send", "build"}
       \/ task[h].pc = "commit" /\ x \in task[h].txs
  \/ hasPending
  \/ timer = "send"
  \/ wakes > 0
  \/ \E i \in 1..Len(processing) : x \in processing[i]

\* No wake-up is lost: a pooled transaction whose submission went through
\* notify_block_ready is always on its way, however handlers, timer, the 120 s
\* timeout and inner_build_block interleave their reads and writes of the two
\* flags, unless a build passed it over or its block was lost.
NoLostWakeup ==
  \A x \in announced \ missed : OnItsWay(x)

\* A submitted transaction leaves the pool in a block sooner or later, unless a
\* build passed it over or its block was lost: a status left at building by a
\* timer that was overtaken is undone by the timeout.
EventuallyBuilt ==
  \A x \in Txs : x \in announced ~> x \notin announced \/ x \in missed
=============================================================================
