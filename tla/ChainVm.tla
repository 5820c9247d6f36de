------------------------------ MODULE ChainVm ------------------------------
(***************************************************************************)
(* The consensus-facing half of the subnet: the block life cycle of        *)
(* subnet/src/block/mod.rs, the block store of subnet/src/state/mod.rs and *)
(* the ChainVm, Getter, Parser and CommonVm handlers of                    *)
(* subnet/src/vm/mod.rs, driven by one Snowman engine.  The process may    *)
(* stop between any two steps and be started again on what it persisted.   *)
(*                                                                         *)
(* A block id is the hash of the block's bytes, so what a block contains   *)
(* is a constant function of its id.  The user transactions of a block are *)
(* left to other modules; here a block either extends the Aptos ledger or  *)
(* its execution fails.                                                    *)
(***************************************************************************)
EXTENDS Integers, Sequences

CONSTANTS
  Ids,         \* the ids of all blocks that are ever built or received
  EmptyId,     \* ids::Id::empty()
  Genesis,     \* the id of the block that initialize builds
  Parent,      \* Block.parent_id
  Height,      \* Block.height
  Timestamp,   \* Block.timestamp, in clock ticks
  MetaTime,    \* the block metadata time inside Block.data, in finer ticks
  Micros,      \* fine ticks per clock tick
  Hour,        \* how far ahead of the local clock a block may be
  MaxNow,      \* bound on the local clock
  MaxCrashes   \* bound on the number of crashes

ASSUME ConstantsAssumption ==
  /\ EmptyId \notin Ids
  /\ Genesis \in Ids
  /\ Parent \in [Ids -> Ids \cup {EmptyId}]
  /\ Height \in [Ids -> Nat]
  /\ Timestamp \in [Ids -> Nat]
  /\ MetaTime \in [Ids -> Nat]
  /\ Micros \in Nat \ {0}
  /\ Hour \in Nat
  /\ MaxNow \in Nat
  /\ MaxCrashes \in Nat

\* What initialize puts into the genesis block.
ASSUME GenesisAssumption ==
  /\ Parent[Genesis] = EmptyId
  /\ Height[Genesis] = 0
  /\ Timestamp[Genesis] = 0
  /\ MetaTime[Genesis] = 0

VARIABLES
  stored,        \* persistent: the decision written with each block
  lastAccepted,  \* persistent: the value under LAST_ACCEPTED_BLOCK_KEY
  ledger,        \* persistent: the blocks the Aptos ledger has committed
  up,            \* the plugin process is running and initialized
  verified,      \* State.verified_blocks
  preferred,     \* VmState.preferred
  bootstrapped,  \* VmState.bootstrapped
  call,          \* the multi-step engine call that is in progress
  reply,         \* the outcome of the last verify or build_block
  engineLast,    \* engine: the last block it saw accepted
  processing,    \* engine: the blocks issued into consensus
  decided,       \* network: the blocks that consensus has accepted
  now,           \* the local clock
  crashes        \* how often the process has stopped

persistent == <<stored, lastAccepted, ledger>>
vmVars == <<up, verified, preferred, bootstrapped>>
engineVars == <<engineLast, processing>>
envVars == <<decided, now, crashes>>
vars == <<persistent, vmVars, call, reply, engineVars, envVars>>

Idle == [op |-> "idle", blk |-> EmptyId, step |-> "none"]
Calls == [op : {"idle", "init", "accept", "reject"}, blk : Ids \cup {EmptyId},
          step : {"none", "write", "tip", "forget"}]
Replies == [of : {"none", "verify", "build"}, blk : Ids \cup {EmptyId},
            ok : BOOLEAN]

TypeOK ==
  /\ stored \in [Ids -> {"None", "Accepted", "Rejected"}]
  /\ lastAccepted \in Ids \cup {EmptyId}
  /\ ledger \in Seq(Ids)
  /\ up \in BOOLEAN
  /\ verified \subseteq Ids
  /\ preferred \in Ids \cup {EmptyId}
  /\ bootstrapped \in BOOLEAN
  /\ call \in Calls
  /\ reply \in Replies
  /\ engineLast \in Ids \cup {EmptyId}
  /\ processing \subseteq Ids
  /\ decided \subseteq Ids
  /\ now \in Nat
  /\ crashes \in Nat

Init ==
  /\ stored = [b \in Ids |-> "None"]
  /\ lastAccepted = EmptyId
  /\ ledger = <<>>
  /\ up = FALSE
  /\ verified = {}
  /\ preferred = EmptyId
  /\ bootstrapped = FALSE
  /\ call = Idle
  /\ reply = [of |-> "none", blk |-> EmptyId, ok |-> TRUE]
  /\ engineLast = EmptyId
  /\ processing = {}
  /\ decided = {Genesis}
  /\ now = 0
  /\ crashes = 0

-----------------------------------------------------------------------------
(* State: what the store finds, and what verify asks of a block. *)

\* State::get_block: the verified map first, then the database, whatever the
\* decision stored there.
Known(b) == b \in verified \/ (b \in Ids /\ stored[b] # "None")

\* The block's own numbers follow its parent's.
FollowsParent(b) ==
  /\ Height[Parent[b]] = Height[b] - 1
  /\ Timestamp[Parent[b]] <= Timestamp[b]

\* Mutant of VerifyOk: the height is not compared with the parent's.
VerifyOkNoHeight(b) ==
  \/ Height[b] = 0 /\ Parent[b] = EmptyId
  \/ Known(b)
  \/ /\ Known(Parent[b])
     /\ Timestamp[Parent[b]] <= Timestamp[b]
     /\ Timestamp[b] < now + Hour

\* Block::verify on a block that carries the node's state.
VerifyOk(b) ==
  \/ Height[b] = 0 /\ Parent[b] = EmptyId
  \/ Known(b)
  \/ /\ Known(Parent[b])
     /\ FollowsParent(b)
     /\ Timestamp[b] < now + Hour

\* A block that parse_block took from the database carries a fresh, empty
\* state: nothing is known to it, and only a genesis block verifies.
VerifyDetached(b) == Height[b] = 0 /\ Parent[b] = EmptyId

\* parse_block followed by verify: a block in memory keeps its state, a block
\* in the database comes back with an empty one, an unknown one is new.
ParseAndVerify(b) ==
  IF b \notin verified /\ stored[b] # "None" THEN VerifyDetached(b) ELSE VerifyOk(b)

-----------------------------------------------------------------------------
(* The Snowman engine (external): which calls it makes.  It makes one call *)
(* at a time, keeps every processing block attached to its last accepted   *)
(* block, and accepts only what the network has decided.                   *)

Detached(b) == Parent[b] \notin processing \cup {engineLast}

EngineReady ==
  /\ up
  /\ call = Idle
  /\ \A b \in processing : ~Detached(b)

\* Consensus decides one block after the other, each a valid child of the last.
Decide(b) ==
  /\ Parent[b] \in decided
  /\ FollowsParent(b)
  /\ \A c \in decided : Height[c] < Height[b]
  /\ decided' = decided \cup {b}
  /\ UNCHANGED <<persistent, vmVars, call, reply, engineVars, now, crashes>>

Tick ==
  /\ now < MaxNow
  /\ now' = now + 1
  /\ UNCHANGED <<persistent, vmVars, call, reply, engineVars, decided, crashes>>

-----------------------------------------------------------------------------
(* CommonVm::initialize and set_state. *)

\* A node with a last accepted block prefers it; the engine reads it back.
Restart ==
  /\ ~up /\ call = Idle
  /\ lastAccepted # EmptyId
  /\ up' = TRUE
  /\ preferred' = lastAccepted
  /\ engineLast' = lastAccepted
  /\ UNCHANGED <<persistent, verified, bootstrapped, call, reply, processing, envVars>>

\* A node without one accepts the genesis block, which has no Vm to build with.
FirstStart ==
  /\ ~up /\ call = Idle
  /\ lastAccepted = EmptyId
  /\ call' = [op |-> "init", blk |-> Genesis, step |-> "write"]
  /\ UNCHANGED <<persistent, vmVars, reply, engineVars, envVars>>

\* set_state(NormalOp) and back; state syncing is refused without a change.
SetState(normal) ==
  /\ up /\ call = Idle
  /\ bootstrapped # normal
  /\ bootstrapped' = normal
  /\ UNCHANGED <<persistent, up, verified, preferred, call, reply, engineVars, envVars>>

-----------------------------------------------------------------------------
(* Block::verify, Vm::build_block, Vm::set_preference. *)

\* The engine verifies a block whose parent it has accepted or is processing.
Verify(b) ==
  /\ EngineReady
  /\ b \notin processing \cup {engineLast}
  /\ ~Detached(b)
  /\ reply' = [of |-> "verify", blk |-> b, ok |-> ParseAndVerify(b)]
  /\ IF ParseAndVerify(b)
     THEN verified' = verified \cup {b} /\ processing' = processing \cup {b}
     ELSE UNCHANGED <<verified, processing>>
  /\ UNCHANGED <<persistent, up, preferred, bootstrapped, call, engineLast, envVars>>

\* build_block stamps a child of the preferred block with the local time and
\* unwraps the result of verifying it: a failed verify aborts the call.
Build(b) ==
  /\ EngineReady /\ bootstrapped
  /\ ~Known(b)
  /\ Parent[b] = preferred
  /\ Height[b] = Height[preferred] + 1
  /\ Timestamp[b] = now
  /\ MetaTime[b] \div Micros = now
  /\ reply' = [of |-> "build", blk |-> b, ok |-> VerifyOk(b)]
  /\ IF VerifyOk(b)
     THEN verified' = verified \cup {b} /\ processing' = processing \cup {b}
     ELSE UNCHANGED <<verified, processing>>
  /\ UNCHANGED <<persistent, up, preferred, bootstrapped, call, engineLast, envVars>>

\* The engine prefers a leaf it is processing, or its last accepted block.
SetPreference(b) ==
  /\ EngineReady
  /\ b \in processing \cup {engineLast}
  /\ b # preferred
  /\ preferred' = b
  /\ UNCHANGED <<persistent, up, verified, bootstrapped, call, reply, engineVars, envVars>>

-----------------------------------------------------------------------------
(* Block::accept and Block::reject, one step per write. *)

LedgerTime == IF ledger = <<>> THEN 0 ELSE MetaTime[ledger[Len(ledger)]]

\* Mutant of InnerBuild: a block is committed whatever its metadata time.
InnerBuildAlways(b) == Append(ledger, b)

\* inner_build_block: execution fails unless the block metadata advances the
\* ledger clock; a failure is logged and the call goes on as if it had not.  The commit
\* that panics, when the block's epoch has ended since it was built (BlockTree), is not
\* an outcome: it writes no pointer, as a stop before it, and would panic again.
InnerBuild(b) ==
  IF LedgerTime < MetaTime[b] THEN Append(ledger, b) ELSE ledger

\* Mutant of Accept: the block is not written before the pointer.
AcceptNoWrite(b) ==
  /\ up /\ call = Idle
  /\ b \in processing \cap decided
  /\ Parent[b] = engineLast
  /\ ledger' = InnerBuild(b)
  /\ call' = [op |-> "accept", blk |-> b, step |-> "tip"]
  /\ UNCHANGED <<stored, lastAccepted, vmVars, reply, engineVars, envVars>>

\* Block::accept up to the return of inner_build.
Accept(b) ==
  /\ up /\ call = Idle
  /\ b \in processing \cap decided
  /\ Parent[b] = engineLast
  /\ ledger' = InnerBuild(b)
  /\ call' = [op |-> "accept", blk |-> b, step |-> "write"]
  /\ UNCHANGED <<stored, lastAccepted, vmVars, reply, engineVars, envVars>>

\* The engine rejects what no longer descends from its last accepted block.
Reject(b) ==
  /\ up /\ call = Idle
  /\ b \in processing
  /\ Detached(b)
  /\ call' = [op |-> "reject", blk |-> b, step |-> "write"]
  /\ UNCHANGED <<persistent, vmVars, reply, engineVars, envVars>>

\* Mutant of WriteBlock: the status is not set before the block is written.
WriteBlockNoStatus ==
  /\ call.step = "write"
  /\ stored' = [stored EXCEPT ![call.blk] = "Processing"]
  /\ call' = [call EXCEPT !.step = IF call.op = "reject" THEN "forget" ELSE "tip"]
  /\ UNCHANGED <<lastAccepted, ledger, vmVars, reply, engineVars, envVars>>

\* Mutant of WriteBlock: a rejected block moves the pointer as well.
WriteBlockAlwaysTip ==
  /\ call.step = "write"
  /\ stored' = [stored EXCEPT ![call.blk] = IF call.op = "reject" THEN "Rejected" ELSE "Accepted"]
  /\ call' = [call EXCEPT !.step = "tip"]
  /\ UNCHANGED <<lastAccepted, ledger, vmVars, reply, engineVars, envVars>>

\* State::write_block with the status the block was given.
WriteBlock ==
  /\ call.step = "write"
  /\ stored' = [stored EXCEPT ![call.blk] = IF call.op = "reject" THEN "Rejected" ELSE "Accepted"]
  /\ call' = [call EXCEPT !.step = IF call.op = "reject" THEN "forget" ELSE "tip"]
  /\ UNCHANGED <<lastAccepted, ledger, vmVars, reply, engineVars, envVars>>

\* Mutant of SetLastAccepted: the pointer is not written.
SetLastAcceptedLost ==
  /\ call.step = "tip"
  /\ call' = [call EXCEPT !.step = "forget"]
  /\ UNCHANGED <<stored, lastAccepted, ledger, vmVars, reply, engineVars, envVars>>

\* State::set_last_accepted_block.
SetLastAccepted ==
  /\ call.step = "tip"
  /\ lastAccepted' = call.blk
  /\ call' = [call EXCEPT !.step = "forget"]
  /\ UNCHANGED <<stored, ledger, vmVars, reply, engineVars, envVars>>

\* Mutant of RemoveVerified: the decided block stays in the verified map.
RemoveVerifiedKeeps ==
  /\ call.step = "forget"
  /\ processing' = processing \ {call.blk}
  /\ up' = TRUE
  /\ preferred' = IF call.op = "init" THEN call.blk ELSE preferred
  /\ engineLast' = IF call.op = "reject" THEN engineLast ELSE call.blk
  /\ call' = Idle
  /\ UNCHANGED <<persistent, verified, bootstrapped, reply, envVars>>

\* State::remove_verified, and the return of the call: initialize then prefers
\* the genesis block, and the engine takes note of its decision.
RemoveVerified ==
  /\ call.step = "forget"
  /\ verified' = verified \ {call.blk}
  /\ processing' = processing \ {call.blk}
  /\ up' = TRUE
  /\ preferred' = IF call.op = "init" THEN call.blk ELSE preferred
  /\ engineLast' = IF call.op = "reject" THEN engineLast ELSE call.blk
  /\ call' = Idle
  /\ UNCHANGED <<persistent, bootstrapped, reply, envVars>>

\* The process stops: what is not in one of the two databases is gone.
Crash ==
  /\ up \/ call # Idle
  /\ crashes < MaxCrashes
  /\ crashes' = crashes + 1
  /\ up' = FALSE
  /\ verified' = {}
  /\ preferred' = EmptyId
  /\ bootstrapped' = FALSE
  /\ call' = Idle
  /\ reply' = [of |-> "none", blk |-> EmptyId, ok |-> TRUE]
  /\ engineLast' = EmptyId
  /\ processing' = {}
  /\ UNCHANGED <<persistent, decided, now>>

Next ==
  \/ Restart
  \/ FirstStart
  \/ WriteBlock
  \/ SetLastAccepted
  \/ RemoveVerified
  \/ Crash
  \/ Tick
  \/ \E normal \in BOOLEAN : SetState(normal)
  \/ \E b \in Ids :
       \/ Decide(b)
       \/ Verify(b)
       \/ Build(b)
       \/ SetPreference(b)
       \/ Accept(b)
       \/ Reject(b)

Spec == Init /\ [][Next]_vars

-----------------------------------------------------------------------------
(* Safety. *)

InLedger(b) == \E i \in 1..Len(ledger) : ledger[i] = b

\* b's metadata time is ahead of every decided block below it: the condition,
\* free of any node's history, under which executing b on top of its decided
\* ancestors succeeds.
Advances(b) ==
  /\ 0 < MetaTime[b]
  /\ \A c \in decided : Height[c] < Height[b] => MetaTime[c] < MetaTime[b]

\* The Aptos ledger is a function of the decided chain alone: an accepted block
\* is committed exactly when it advances the metadata clock of the chain below
\* it, nothing else is committed, never twice and never out of height order,
\* whatever crashes fall between the commit inside inner_build_block and the
\* two writes of Block::accept that follow it.
LedgerFollowsChain ==
  /\ \A b \in Ids : InLedger(b) => b \in decided /\ Advances(b)
  /\ \A b \in Ids \ {Genesis} : stored[b] = "Accepted" /\ Advances(b) => InLedger(b)
  /\ \A i, j \in 1..Len(ledger) : i < j => Height[ledger[i]] < Height[ledger[j]]

\* The last accepted pointer never runs ahead of the blocks: what it names, and
\* every decided block below that, is stored as accepted, so the chain can be
\* walked back from it after any restart (write_block comes before
\* set_last_accepted_block).
LastAcceptedIsStored ==
  lastAccepted # EmptyId =>
    /\ lastAccepted \in decided
    /\ \A b \in decided : Height[b] <= Height[lastAccepted] => stored[b] = "Accepted"

\* At most one block is stored as accepted above the pointer, and it is the
\* pointer's child: a stop inside Block::accept tears at most one acceptance.
OneTornAccept ==
  \A b \in Ids : stored[b] = "Accepted" =>
    /\ b \in decided
    /\ \/ b = Genesis
       \/ /\ lastAccepted # EmptyId
          /\ \/ Height[b] <= Height[lastAccepted]
             \/ Parent[b] = lastAccepted

\* "Each element is verified but not yet accepted/rejected": between calls the
\* verified map holds exactly the engine's processing blocks, and none of them
\* has a stored decision.
VerifiedIsProcessing ==
  /\ call = Idle => verified = processing
  /\ call = Idle => \A b \in verified : stored[b] = "None"

\* build_block unwraps the lookup of the preferred block: whenever the engine
\* may call it, the preferred block is found.
PreferredIsKnown == up => Known(preferred)

\* A block the engine processes rests on blocks the store finds, down to the
\* last accepted one, at the next height and at a time not before its parent's.
ProcessingIsLinked ==
  up /\ call = Idle => \A b \in processing :
    Known(Parent[b]) /\ FollowsParent(b)

\* What get_block is asked for in build_block and verify is found, after any
\* accepts, rejects, crashes and restarts.
BlocksAreFound == PreferredIsKnown /\ ProcessingIsLinked

-----------------------------------------------------------------------------
(* What a step may never do. *)

\* A step that extends what the node has persisted and changes none of it.
OnlyExtends ==
  /\ \A b \in Ids : stored[b] # "None" => stored'[b] = stored[b]
  /\ Len(ledger) <= Len(ledger')
  /\ \A i \in 1..Len(ledger) : ledger'[i] = ledger[i]
  /\ lastAccepted' # lastAccepted => Parent[lastAccepted'] = lastAccepted

\* "only decided blocks are persistent -- no reorg": a stored decision is never
\* withdrawn, the ledger only grows, and the last accepted pointer moves only
\* from a block to its child.
NoReorg == [][OnlyExtends]_vars

\* The node keeps ChainPromise: with the last accepted pointer as its tip and
\* the ledger's blocks as what it has committed, every step of every handler,
\* crash and restart is a step of the promise or invisible to it.
Promise == INSTANCE ChainPromise
             WITH tip <- lastAccepted, committed <- {b \in Ids : InLedger(b)}
KeepsPromise == Promise!Spec

\* build_block unwraps the verification of the block it has just built.
BuiltBlockVerifies == reply.of = "build" => reply.ok

-----------------------------------------------------------------------------
(* The inductive invariant behind the safety properties. *)

\* The decided blocks are one chain that starts at the genesis block.
ChainInv ==
  /\ Genesis \in decided
  /\ \A b \in decided : b = Genesis \/ (Parent[b] \in decided /\ FollowsParent(b))
  /\ \A b, c \in decided : Height[b] = Height[c] => b = c

\* What each kind of call in progress knows about the state it left behind.
CallInv ==
  /\ call.op = "idle" <=> call = Idle
  /\ call.op = "init" =>
       /\ ~up /\ call.blk = Genesis
       /\ call.step \in {"write", "tip", "forget"}
       /\ call.step # "write" => stored[Genesis] = "Accepted"
       /\ lastAccepted = IF call.step = "forget" THEN Genesis ELSE EmptyId
  /\ call.op = "accept" =>
       /\ up /\ call.blk \in processing \cap decided
       /\ call.step \in {"write", "tip", "forget"}
       /\ call.step # "write" => stored[call.blk] = "Accepted"
       /\ engineLast \in Ids /\ Parent[call.blk] = engineLast
       /\ lastAccepted = IF call.step = "forget" THEN call.blk ELSE engineLast
       /\ Advances(call.blk) => InLedger(call.blk)
       /\ MetaTime[call.blk] <= LedgerTime
  /\ call.op = "reject" =>
       /\ up /\ call.blk \in processing
       /\ call.step \in {"write", "forget"}
       /\ call.step = "forget" => stored[call.blk] = "Rejected"
  /\ up /\ call.op # "accept" => engineLast = lastAccepted /\ lastAccepted # EmptyId

\* The memory of the node against its block store.
StoreInv ==
  /\ verified = processing
  /\ ~up => processing = {}
  /\ \A b \in processing :
       /\ stored[b] = "None" \/ (b = call.blk /\ call.step \in {"tip", "forget"})
       /\ Known(Parent[b]) /\ FollowsParent(b)
  /\ stored[Genesis] # "Rejected"
  /\ \A b \in Ids : stored[b] = "Accepted" =>
       /\ b \in decided
       /\ b = Genesis \/ (lastAccepted # EmptyId /\ Height[b] <= Height[lastAccepted] + 1)

\* The ledger against the block store.
LedgerInv ==
  /\ \A b \in Ids : InLedger(b) =>
       /\ b \in decided \ {Genesis} /\ Advances(b)
       /\ lastAccepted # EmptyId /\ Height[b] <= Height[lastAccepted] + 1
  /\ \A b \in Ids : stored[b] = "Accepted" =>
       /\ MetaTime[b] <= LedgerTime
       /\ b # Genesis /\ Advances(b) => InLedger(b)
  /\ \A i, j \in 1..Len(ledger) : i < j => Height[ledger[i]] < Height[ledger[j]]

IInv ==
  /\ TypeOK
  /\ ChainInv
  /\ CallInv
  /\ StoreInv
  /\ LastAcceptedIsStored
  /\ PreferredIsKnown
  /\ LedgerInv
=============================================================================
