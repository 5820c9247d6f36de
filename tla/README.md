# A verification project for the Movement subnet node

The repository is a fork of Aptos core that runs as a virtual machine of an
Avalanche subnet. The `subnet` crate is the program: an rpcchainvm plugin that
answers the calls of a Snowman engine, with the Aptos executor, the Aptos core
mempool and the Aptos database inside it. AptosBFT, state sync, the shared
mempool, parallel execution and the Aptos network are in the repository; the plugin
does not run them. AptosBFT and the parallel executor are modelled nevertheless, as
they are the concurrent and distributed algorithms the code is about.

## Inventory

| Part | State | Operations | Interacts with |
| --- | --- | --- | --- |
| Block life cycle (`subnet/src/block`, `state`, `vm`) | block store, last accepted pointer, verified map, preference | build, parse, verify, accept, reject, set_preference, set_state, initialize | engine, executor |
| Wake-up (`vm/mod.rs`) | `build_status`, `has_pending_tx` | submissions, two-second timer, 120 s timeout, reset at the end of `inner_build_block` | engine, mempool |
| Core mempool (`mempool/src/core_mempool`) | main map, seven indexes, `sequence_numbers`, `size_bytes` | `add_txn`, `commit_transaction`, `reject_transaction`, `gc`, `get_batch` | all of `vm/mod.rs` |
| Parking lot (`index.rs`) | vector of accounts, positions, count | insert, remove with `swap_remove`, `get_poppable` | core mempool |
| Block executor (`execution/executor`) | tree of reference counted blocks, weak lookup table, database version | execute, ledger_update, commit, prune, asynchronous drop | accepts, large submissions |
| Safety rules (`consensus/safety-rules`) | `SafetyData`, its cache | sign votes and timeouts, with writes that fail and restarts | round manager, certificates |
| Round manager (`consensus/src/round_manager.rs`, `liveness`, `pending_votes.rs`) | round, certificates, pending votes, vote sent | proposals, votes, timeouts, synchronisation, restart | safety rules, other validators |
| Block-STM (`aptos-move/block-executor`, `mvhashmap`) | statuses, waves, indexes, multi-version map, last inputs and outputs | execute, validate, suspend, resume, commit, halt, commit hooks | its own threads |
| Nodes and network | gossip, proposed and decided blocks | submit, gossip, build, decide, accept, restart | all of the above |

What makes the system hard: handlers, the timer and the engine interleave at every
`await`; accepting a block is three durable writes in two databases with a possible
stop between them; gossip may be late; `inner_build_block` takes the executor's lock
for reading only; old trees are dropped by other threads. `PROJECT.json` lists each
hazard at its line, with the properties that would catch it, and the parts that are
not modelled with the reason.

## Modules and the code

* **ChainVm** is one node under one engine. Its persistent variables are the block
  store, the pointer and the ledger. `Accept`, `WriteBlock`, `SetLastAccepted` and
  `RemoveVerified` are the steps of `Block::accept`, and `Crash` may fall between
  any two. What a block contains is a constant function of its id. A block either
  extends the ledger or fails to execute, because its metadata time does not advance
  the ledger clock. **ChainPromise** is the abstract specification it implements.
  A commit that panics because the block is of an epoch that has ended (BlockTree) is
  not an outcome: for what is accepted it is a stop before the write, and repeating the
  accept would panic again.
* **Wakeup** has one step per `await` of the two submissions, of
  `notify_block_ready` and of the timer. `announced` and `missed` are history
  variables: the pooled transactions whose submission asks for a block, and those a
  build passed over or whose block was lost. The branch of `notify_block_ready2` in
  which the message cannot be sent is left out: the engine outlives the plugin.
* **CoreMempool** has one action per call, as callers hold the mempool's lock. The
  helpers of `TransactionStore` are operators from a store to a store. Indexes are
  sets of (account, sequence number); where their order decides, any choice may be
  made. **MempoolBatch** adds `get_batch` as an operator, tried with every order.
* **ParkingLot** is the index with its vector and positions; **ParkedSet** is the
  set of transactions it stands for. Its insert has no branch for a position without an
  entry in the vector: `DataInvariants` rules that out.
* **BlockTree** is the tree and the callers of `inner_build_block`. `multi_get` is
  split where another thread may drop a reference while the lock is held. A block
  carries an epoch the ledger has been in, as it may have been built, here or elsewhere,
  before the epoch ended; the commit checks it against the ledger's, after the
  transactions are written, and its `unwrap` panics on a gap.
* **ValidatorVerifier** has the voting power arithmetic and **TwoChainRules** the
  predicates of the two-chain rules. **SafetyRules** has the signatures: a certificate
  exists as soon as the signatures for it do, so lost, repeated and reordered messages
  need no network. Faulty validators sign anything.
* **PendingVotes** is the vote aggregation. **RoundManager** has one operator per
  handler, from a validator to its possible outcomes, since a handler runs to its end
  before the next event; the network keeps every message of a current round. Faulty
  validators only stop. Block retrieval succeeds or the message counts as lost. The
  leader's broadcast of its certificates while it waits for a payload is always sent.
  An outcome that changes nothing is no step. `SignTimeout` leaves `last_voted_round`,
  which is the round of the timeout already by then. Ordering and commit certificates,
  `sync_only`, back pressure and payload limits are left out.
* **VersionedData** is the multi-version map, **Scheduler** the scheduler's state and
  calls, **BlockStm** the threads. A step is an access to a shared object, except that
  `next_task` reads its indexes, a status and `done_marker` in two steps, that
  `finish_execution` takes the dependents as it sets the status, and that it reads
  `validation_idx` as it lowers `execution_idx`; the header of Scheduler says what each
  leaves out. A `try_read` that fails is only a retry. A VM is a function of the values
  it reads; one that is halted gives an abort or an output nobody uses. A block has its
  own number of workers, between which the commit hooks are dealt out. Deletions (which
  a read under deltas resolves to), aggregator limits (at which applying a delta fails)
  and the commit listener are left out.
* **Subnet** composes nodes, each with a CoreMempool store and MempoolBatch's
  `get_batch`, over a network that gossips and decides. A decided block is accepted
  in one step; ChainVm has the steps inside it. Epochs are left out: after a block
  prologue that ends one, the user transactions of the block are not executed but get
  `Retry`, and leave the mempool as the discarded ones do.

External, and modelled from how the code is called: the Snowman engine (one call at
a time on a chain, every processing block attached to the last accepted one, only
decided blocks accepted), gossip delivery, and the databases (a write is one step).
The engine accepts a block through `Getter::get_block`, which is where a block
gets the `Vm` that executes it.

## Runs

Passing runs:

* `chain`: eight blocks, three heights with siblings, one block stamped before its
  parent and one that skips a height, one that verifies and does not execute; two
  crashes, so that a second one can hit the recovery from the first.
* `wakeup`: two handlers without the node's HTTP lock, one transaction, one message
  and one block at a time, a timeout of one tick. Two handlers are needed for one to
  overtake the other. `NoLostWakeup` is proved without these bounds; `EventuallyBuilt`
  is checked within them only.
* `mempool`: two accounts with three sequence numbers and two gas prices in a mempool
  of three transactions and four units of size (sequence number 2 counts twice), so
  both limits, evictions and gaps are met. Beside it, a parking lot of three accounts,
  so that the account that `swap_remove` moves is neither the removed one nor the only
  other; either the mempool or the parking lot takes steps in a behaviour, as neither
  reads the other's variables.
* `subnet`: two nodes, one account, sequence numbers up to 2, one decided block, one
  proposed block and one message of gossip at a time. `NextIsOffered` also holds with
  two decided blocks, in eighteen minutes and a million states, which is too long for a
  run. A proposed block that is not decided leaves nothing behind.
* `block_tree`: two concurrent callers, three blocks, two of them of one size, one
  of them ending an epoch.
* `consensus`: three honest validators and a faulty one, over six blocks in two
  branches, the second of which skips a round by a timeout. One honest validator has a
  store that fails and a process that restarts. `SafetyInv` is the inductive invariant
  of the proofs.
* `round_manager`: a validator of two votes and two of one. The third stops after
  round 1 and is heard by the first only; the leader of round 2 may restart, fail to
  save its vote or have a late clock, once. Three rounds are what a stopped leader, a
  timeout certificate and a commit after it take.
* `block_stm`: a coordinator and a worker on six blocks of two to four transactions,
  each made for a mechanism: dependencies and aborts, an early end, the gas limit,
  deltas, modules, a long tail; and a coordinator and two workers on a block of two
  transactions that add to one aggregator, so that its commit hooks run in either order
  (one worker runs them in the order they were sent). The sequential execution is the
  reference.

Runs in which TLC refutes what a comment or an assertion of the repository says:

* `built_block_verifies`: the `unwrap` of the verify in `build_block` fails when the
  preferred parent is stamped ahead of the local clock.
* `subnet_large`: a submission of 50 KB commits a block nobody decided.
* `block_tree_epoch`: the `unwrap` of `commit_blocks` in `inner_build_block` fails, with
  no other call running, for a block built before the end of an epoch and accepted after
  it. The `block_tree` run and the proofs leave this case out by name (`LoneCallSucceeds`).
* `block_stm_skip`: a transaction that ends the block early and reaches the block gas
  limit makes the coordinator reach an `unreachable!()`.

Fairness: in `wakeup`, handlers and the timer are tasks the runtime keeps scheduling
(weak fairness); the engine answers every message and decides blocks, between which
other calls may keep it busy (strong fairness). In `block_tree`, calls and dropping
threads run to their end (weak fairness). In `round_manager`, the timer of a round
fires again and again and sends the vote of the round each time, so that some message
that is news to its receiver gets through (weak fairness of both); any other message
may be lost. In `block_stm`, every thread runs on. Nothing is assumed about users,
gossip, crashes or rejections. `CHECK_DEADLOCK FALSE` stands where a bound on the
clock, the crashes, the blocks or the rounds lets the model stop, and in `block_stm`,
whose threads return; `Termination` says that they do not stop before.

## Proofs

Proved by TLAPS for every value of the constants, from the assumptions on them that
the modules name:

* **ChainVmProofs**: every property of the `chain` run, `NoReorg` as an action property
  and the refinement of ChainPromise included. The inductive invariant `IInv` is needed
  because the ledger runs ahead of the pointer during an accept and after a crash in
  it: it bounds both by one height, relates the step of the call in progress to what is
  written, and says that no accepted block is ahead of the ledger clock, so that
  executing a block a second time fails rather than commits it twice.
* **MempoolProofs**, of Wakeup: `WakeupTypeOK` and `NoLostWakeup`, which is inductive
  together with it, for any number of handlers and transactions.
* **MempoolProofs**, of CoreMempool: every property of the store, for any accounts,
  limits and gas prices. The invariant `Good` is of one store, so it is proved of the
  helpers of `TransactionStore` one by one; a call composes them. `WithinCapacity` needs
  to know that an insertion evicts before it adds and that an upgrade adds what it
  removed.
* **MempoolProofs**, of ParkingLot: `DataInvariants` and the refinement of ParkedSet.
  The vector and the positions have to agree before a removal can be said to take one
  transaction only, and the count has to be exact before it can be said to stay so;
  `LotInv` is the three together. `swap_remove` is the case that needs work: the account
  that is moved may be the one that is removed.
* **BlockTreeProofs**: the four safety properties of the tree, for any number of
  overlapping calls. A root is the genesis block or belongs to a committed block, and
  versions grow along the database, so a version names one root: the check of the
  transaction count and that of the database's version together leave only a block
  executed on the last root. A block stays in the table, below its parent, while the
  parent is in it, and the parent of a call that is alone is the root. A block's epoch
  is never ahead of the ledger's, so a call that is alone fails, its execution aside,
  only at the epoch check and only if the epoch has ended since the block was built.
  `TreeInv` says this of each call, by the step it is at.
* **SafetyRulesProofs**: `SafetyInv` is inductive, and gives agreement, that certified
  blocks extend committed ones, one certified block per round and that no timeout hides
  a vote. Two quorums share an honest validator, for any voting power of which less
  than a third is faulty. A block is choosable while the votes and timeouts its
  validators have recorded still allow a certificate on its child of the next round;
  every certificate of its round or a later one is of a block that extends it, by
  induction on rounds within the invariant. `VerifierAssumption` is that voting power is
  additive, which a fold over a finite set gives and the prover cannot derive.
* **RoundManagerProofs**: `CanTimeOut` and `CertificatesVerify`, for any validators,
  voting powers, leaders, blocks and faults. The invariant `Good` is of one validator:
  its round is the one after its certificates; the vote of the round is the one its
  `SafetyData` records; a timeout carries the round of a certificate no higher than the
  one sent with it; and an author is among the signers of the pending timeouts only if
  its timeout is the vote kept for it. Each handler has a lemma: it takes a good
  validator and a good message to good ones. `RoundAssumption` is that a block on a
  lower parent exists with the round and the parent it was made of.
* **BlockStmProofs**, over **SchedulerProofs** and **MemoryProofs**: `AssertionsHold`,
  for any blocks, keys, threads and interleaving. The invariant has two halves.
  `SchedulerInv` (module **SchedulerInvariant**) says who owns a transaction. Of the
  threads that execute it, finish its execution with the validation status locked, or
  have aborted it, there is one, save that an abort may wait for the lock of a thread
  that finishes; the status is the one the step of the owner expects. A suspended
  transaction has the condition variable of the thread that waits in its execution, and
  is in one list of dependents only, so it is resumed once. Nobody owns a committed
  transaction. `MemoryInv` says what the multi-version map holds. Between executions the
  entries of a transaction are exactly those of its recorded output; while an output is
  applied, those of the keys done and the old ones of the others; their incarnations are
  older than the one about to write; and a transaction that is executed or committed has
  no estimate and its deltas are there, which is what a commit hook needs. The second
  half needs the first: two threads that execute one transaction would write over each
  other's entries. The scheduler's own calls keep `SchedulerInv` (SchedulerProofs), and
  so do the executor's steps around them (BlockStmProofs); every step keeps `MemoryInv`
  if `SchedulerInv` holds before and after it, and together they give the assertions
  (MemoryProofs). `AssertionsHold` is of the assertions it names; the `unreachable!()` of
  `update_to_skip_rest`, which `block_stm_skip` refutes, is not one of them, and what
  deletions or aggregator limits would do is outside the model. `SchedulerAssumption` is
  that the coordinator is a thread, `StmAssumption` that every block has a transaction
  and a worker. The theorem's hypothesis
  `VmOutputs` is on the VM, which is a parameter of the model: an output has keys of the
  map only and never both writes a key and adds a delta to it. In the code a
  `VMChangeSet` is so: `squash_additional_aggregator_changes`
  (`aptos-vm-types/src/change_set.rs:237-316`) merges a delta into a write of its key
  and drops a delta that a write replaces, and each aggregator change of a session goes
  to one of the two sets (`aptos-vm/src/move_vm_ext/session.rs:365-380`). The VM of the
  `block_stm` run has it too.

Only model-checked:

* liveness (`EventuallyBuilt`, `EventuallyCollected`, `Progress`, `Termination`), which
  is out of the prover's reach;
* `BatchIsExecutable`, `BatchIsComplete` and `NextIsOffered`: they say what folds over the
  order of an index or over the transactions of a block compute, which takes an
  induction over the data;
* Block-STM's `CommittedIsSequential` and `FinishedIsComplete`, which compare with a
  recursive definition of the sequential execution.

## What no property says

* Transactions that arrive by gossip, in a batch without failures, beyond the 500 of
  a batch, or whose block was rejected get no wake-up of their own. `NoLostWakeup`
  and `EventuallyBuilt` are about the others.
* Two overlapping calls of `inner_build_block` with blocks of one size: the second
  is taken for a retry and returns without saving its block.
* After `reject_transaction`, successors of the removed transaction stay in the
  priority index until the account's next insertion or commit. `get_batch` skips them.
* `sequence_numbers` keeps entries of accounts without transactions after a commit.
* A gas upgrade in a mempool that stays full loses the old version.
* A block that an accept stored before it was interrupted, with the pointer not yet
  moved, never verifies again after the restart, against the comment at
  `block/mod.rs:169`: it comes back without a `Vm`, and its `verify` fails. The node
  accepts neither this block nor any above it. The properties of ChainVm say what is
  accepted, not that something is.
* `build_status` may stay at building ("0 done 1 building", `vm/mod.rs:153`) with
  nothing being built, until the timeout. `EventuallyBuilt` holds with it.
* Pooling sequence number n+1 drops a pending n of the account, as `add_pool` passes the
  transaction's own number for the account's.
* A transaction the ledger is past, submitted or gossiped late, is pooled all the same and
  moves the account's number in the mempool back, perhaps to before a gap; the next
  transaction of the ledger is then kept back although it is pooled. `NextIsOffered`
  leaves the account out from then on until the node restarts.
* A transaction the ledger discarded is committed in the mempool with its block.
* A leader that restarts in its round may propose a second block in it.

## Plan

The shared mempool's broadcast bookkeeping and the block retrieval of the round
manager, which the models above take as given.
