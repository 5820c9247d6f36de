------------------------------ MODULE BlockTree ------------------------------
(***************************************************************************)
(* The executor's tree of executed blocks and the callers of               *)
(* inner_build_block on it: execution/executor/src/components/block_tree    *)
(* and block_executor.rs.  The tree is made of reference counted blocks     *)
(* under a root, with a table of weak references by block id; committing a  *)
(* block makes it the root and leaves the old root to another thread to     *)
(* drop.  inner_build_block takes the executor's lock for reading only, so  *)
(* several calls may be under way at once: an accept, and large submissions *)
(* where the node does not honour the handlers' write lock.                 *)
(*                                                                          *)
(* A node of the tree is named <<b, "block">>, or <<b, "epoch">> for the    *)
(* virtual block that takes the place of a reconfiguration block b.  A      *)
(* block is given to inner_build_block once, and always on the root: the    *)
(* branches for a block that is already there and for a descendant of a     *)
(* reconfiguration are out of these callers' reach.                         *)
(***************************************************************************)
EXTENDS Integers, FiniteSets, Sequences

CONSTANTS
  Blocks,    \* block ids
  Genesis,   \* the block the database starts with
  Size,      \* how many transactions a block commits
  Reconfig,  \* blocks that end an epoch
  Callers    \* concurrent calls of inner_build_block

ASSUME BlockTreeAssumption ==
  /\ Genesis \notin Blocks
  /\ Size \in [Blocks -> Nat \ {0}]
  /\ Reconfig \subseteq Blocks

VARIABLES
  root,      \* BlockTree.root
  children,  \* Block.children
  lookup,    \* the ids in BlockLookup
  version,   \* the leaves of a block's transaction accumulator
  garbage,   \* old roots that wait for the thread that drops them
  held,      \* the references each caller holds
  call,      \* each caller: its step, block, parent, and the root it commits on
  db,        \* the blocks saved to the database, in order
  epoch,     \* the next_block_epoch of the database's latest ledger info
  built,     \* the epoch in the data of each block that has been given to a call
  outcome,   \* history: what became of each block's call
  onto,      \* history: the parent each block was executed on
  together   \* history: the blocks whose calls were under way at the same time as others

tree == <<root, children, lookup, version, garbage>>
history == <<outcome, onto, together>>
ledger == <<db, epoch, built>>
vars == <<tree, held, call, ledger, history>>

Id(b) == <<b, "block">>
RootOf(b) == <<b, IF b \in Reconfig THEN "epoch" ELSE "block">>
Ids == UNION {{Id(b), RootOf(b)} : b \in Blocks \cup {Genesis}}
Idle == [pc |-> "idle", blk |-> Genesis, parent |-> Id(Genesis), seen |-> Id(Genesis)]
Steps == {"idle", "find", "findParent", "execute", "link", "refind", "refindParent",
          "update", "commit", "fetch", "save", "saving", "prune", "fail"}

TypeOK ==
  /\ root \in Ids
  /\ children \in [Ids -> SUBSET Ids]
  /\ lookup \subseteq Ids
  /\ version \in [Ids -> Nat]
  /\ garbage \subseteq Ids
  /\ held \in [Callers -> SUBSET Ids]
  /\ call \in [Callers -> [pc : Steps, blk : Blocks \cup {Genesis}, parent : Ids, seen : Ids]]
  /\ db \in Seq(Blocks)
  /\ epoch \in Nat
  /\ built \in [Blocks -> Nat]
  /\ outcome \in [Blocks -> {"new", "running", "committed", "aborted", "retry", "error",
                            "panic", "gap"}]
  /\ onto \in [Blocks -> Ids]
  /\ together \subseteq Blocks

Init ==
  /\ root = Id(Genesis)
  /\ children = [o \in Ids |-> {}]
  /\ lookup = {root}
  /\ version = [o \in Ids |-> 0]
  /\ garbage = {}
  /\ held = [c \in Callers |-> {}]
  /\ call = [c \in Callers |-> Idle]
  /\ db = <<>>
  /\ epoch = 0
  /\ built = [b \in Blocks |-> 0]
  /\ outcome = [b \in Blocks |-> "new"]
  /\ onto = [b \in Blocks |-> Id(Genesis)]
  /\ together = {}

\* Some strong reference to the block is left.
Strong(o) ==
  \/ o = root \/ o \in garbage
  \/ \E c \in Callers : o \in held[c]
  \/ \E p \in Ids : o \in children[p]

\* multi_get runs with BlockLookup's lock; it is split where another thread may
\* drop a reference between two upgrades.
HoldsLock(c) == call[c].pc \in {"findParent", "refindParent"}
LockFree == \A c \in Callers : ~HoldsLock(c)

At(c, step) == call[c].pc = step
Goto(c, step) == call' = [call EXCEPT ![c].pc = step]
Keep(c, refs) == held' = [held EXCEPT ![c] = refs]

\* The call returns, or unwinds, and its references go.
Ends(c, result) ==
  /\ call' = [call EXCEPT ![c] = Idle]
  /\ Keep(c, {})
  /\ outcome' = [outcome EXCEPT ![call[c].blk] = result]
  /\ UNCHANGED <<tree, ledger, onto, together>>

-----------------------------------------------------------------------------
(* execute_and_state_checkpoint *)

\* build_block_data put the epoch that follows the latest ledger info into the block,
\* at some earlier moment, here or on another node that had accepted no more than this
\* one has now: it is one the ledger has been in.
BuiltEpochs == 0..epoch

\* inner_build_block reads committed_block_id for its parent.
Begin(c, b) ==
  /\ At(c, "idle") /\ outcome[b] = "new"
  /\ call' = [call EXCEPT ![c] = [Idle EXCEPT !.pc = "find", !.blk = b, !.parent = root]]
  /\ outcome' = [outcome EXCEPT ![b] = "running"]
  /\ onto' = [onto EXCEPT ![b] = root]
  /\ \E e \in BuiltEpochs : built' = [built EXCEPT ![b] = e]
  /\ LET others == {call[d].blk : d \in Callers} \cap Blocks IN
       together' = IF others = {} THEN together ELSE together \cup others \cup {b}
  /\ UNCHANGED <<tree, held, db, epoch>>

\* get_blocks_opt(&[block_id, parent_block_id]), first id: a block without strong
\* references that is still in the table is an error.
MultiGetBlock(c, from, to) ==
  /\ At(c, from) /\ LockFree
  /\ LET o == Id(call[c].blk) IN
       IF o \in lookup /\ ~Strong(o) THEN Ends(c, "error")
       ELSE /\ Keep(c, {o} \cap lookup)
            /\ Goto(c, to)
            /\ UNCHANGED <<tree, ledger, history>>

\* Second id: an error drops the first block with the lock still held; a parent
\* that is not in the table is found out after it is released.
MultiGetParent(c, from, to) ==
  /\ At(c, from)
  /\ LET p == call[c].parent IN
       IF p \in lookup /\ ~Strong(p) THEN Ends(c, "error")
       ELSE /\ Keep(c, held[c] \cup ({p} \cap lookup))
            /\ Goto(c, IF p \in lookup THEN to ELSE "fail")
            /\ UNCHANGED <<tree, ledger, history>>

\* An Err on its way out of execute_block.
Fail(c) == At(c, "fail") /\ Ends(c, "error")

\* The VM or the checkpoint calculation fails.
ExecuteFails(c) == At(c, "execute") /\ Ends(c, "aborted")

\* The VM is done and fetch_or_add_block, under the lock, puts the block into the
\* table.
FetchOrAddBlock(c) ==
  /\ At(c, "execute") /\ LockFree
  /\ LET o == Id(call[c].blk) IN
       /\ lookup' = lookup \cup {o}
       /\ version' = [version EXCEPT ![o] = version[call[c].parent] + Size[call[c].blk]]
       /\ Keep(c, held[c] \cup {o})
  /\ Goto(c, "link")
  /\ UNCHANGED <<root, children, garbage, ledger, history>>

\* Mutant of AddChild: the block is not linked to its parent.
AddNoChild(c) ==
  /\ At(c, "link")
  /\ Keep(c, {}) /\ Goto(c, "refind")
  /\ UNCHANGED <<tree, ledger, history>>

\* add_child, without the lock; then the references of the call go.
AddChild(c) ==
  /\ At(c, "link")
  /\ children' = [children EXCEPT ![call[c].parent] = @ \cup {Id(call[c].blk)}]
  /\ Keep(c, {}) /\ Goto(c, "refind")
  /\ UNCHANGED <<root, lookup, version, garbage, ledger, history>>

-----------------------------------------------------------------------------
(* ledger_update and commit_blocks *)

\* ledger_update, with both blocks found: unwrap and ensure_has_child.
LedgerUpdate(c) ==
  /\ At(c, "update")
  /\ LET o == Id(call[c].blk) IN
       IF o \notin held[c] THEN Ends(c, "panic")
       ELSE IF o \notin children[call[c].parent] THEN Ends(c, "error")
       ELSE /\ Keep(c, {}) /\ Goto(c, "commit")
            /\ UNCHANGED <<tree, ledger, history>>

\* commit_blocks_ext takes the root as the committed block; a root that has as many
\* transactions as the block would have makes the call a retry.
CheckRetry(c) ==
  /\ At(c, "commit")
  /\ IF version[root] = version[Id(call[c].blk)] THEN Ends(c, "retry")
     ELSE /\ Keep(c, {root})
          /\ call' = [call EXCEPT ![c].pc = "fetch", ![c].seen = root]
          /\ UNCHANGED <<tree, ledger, history>>

\* get_blocks and the count of the transactions; inner_build_block unwraps an error.
FetchToCommit(c) ==
  /\ At(c, "fetch") /\ LockFree
  /\ LET o == Id(call[c].blk) IN
       IF o \notin lookup \/ ~Strong(o) THEN Ends(c, "panic")
       ELSE IF version[call[c].seen] + Size[call[c].blk] # version[o] THEN Ends(c, "panic")
       ELSE /\ Keep(c, held[c] \cup {o}) /\ Goto(c, "save")
            /\ UNCHANGED <<tree, ledger, history>>

DbVersion == IF db = <<>> THEN 0 ELSE version[Id(db[Len(db)])]

\* Mutant of SaveBegins: the first version is not checked.
SaveBeginsUnchecked(c) ==
  /\ At(c, "save")
  /\ IF \E d \in Callers : At(d, "saving") THEN Ends(c, "panic")
     ELSE Goto(c, "saving") /\ UNCHANGED <<tree, held, ledger, history>>

\* save_transaction_block: one commit at a time, on the version the database has.
SaveBegins(c) ==
  /\ At(c, "save")
  /\ IF (\E d \in Callers : At(d, "saving")) \/ version[call[c].seen] # DbVersion
     THEN Ends(c, "panic")
     ELSE Goto(c, "saving") /\ UNCHANGED <<tree, held, ledger, history>>

\* commit_ledger_info, once the transactions are written, refuses a ledger info that
\* is not of the database's epoch, and inner_build_block unwraps the error.  The
\* version of the database is that of its ledger info, so the next commit writes its
\* transactions over the ones left behind.
SaveEnds(c) ==
  /\ At(c, "saving")
  /\ IF built[call[c].blk] # epoch THEN Ends(c, "gap")
     ELSE /\ db' = Append(db, call[c].blk)
          /\ epoch' = IF call[c].blk \in Reconfig THEN epoch + 1 ELSE epoch
          /\ Keep(c, {Id(call[c].blk)}) /\ Goto(c, "prune")
          /\ UNCHANGED <<tree, built, history>>

\* Mutant of Prune: the old root is not given to anyone, but kept.
PruneKeepsChildren(c) ==
  /\ At(c, "prune") /\ LockFree
  /\ LET new == RootOf(call[c].blk) IN
       /\ root' = new
       /\ lookup' = lookup \cup {new}
       /\ version' = [version EXCEPT ![new] = version[Id(call[c].blk)]]
       /\ children' = [children EXCEPT ![new] = @ \cup {root}]
  /\ call' = [call EXCEPT ![c] = Idle] /\ Keep(c, {})
  /\ outcome' = [outcome EXCEPT ![call[c].blk] = "committed"]
  /\ UNCHANGED <<garbage, ledger, onto, together>>

\* Mutant of Prune: the root of a reconfiguration block has no transactions.
PruneForgetsVersion(c) ==
  /\ At(c, "prune") /\ LockFree
  /\ LET new == RootOf(call[c].blk) IN root' = new /\ lookup' = lookup \cup {new}
  /\ garbage' = garbage \cup {root}
  /\ call' = [call EXCEPT ![c] = Idle] /\ Keep(c, {})
  /\ outcome' = [outcome EXCEPT ![call[c].blk] = "committed"]
  /\ UNCHANGED <<children, version, ledger, onto, together>>

\* prune: the block, or the virtual block of a new epoch, becomes the root, and the
\* old root is sent away.
Prune(c) ==
  /\ At(c, "prune") /\ LockFree
  /\ LET new == RootOf(call[c].blk) IN
       /\ root' = new
       /\ lookup' = lookup \cup {new}
       /\ version' = [version EXCEPT ![new] = version[Id(call[c].blk)]]
  /\ garbage' = garbage \cup {root}
  /\ call' = [call EXCEPT ![c] = Idle] /\ Keep(c, {})
  /\ outcome' = [outcome EXCEPT ![call[c].blk] = "committed"]
  /\ UNCHANGED <<children, ledger, onto, together>>

-----------------------------------------------------------------------------
(* Dropping, by whichever thread gives up the last reference. *)

DropOldRoot(o) ==
  /\ o \in garbage
  /\ garbage' = garbage \ {o}
  /\ UNCHANGED <<root, children, lookup, version, held, call, ledger, history>>

\* Mutant of Drop: the block takes its children with it before the table's lock.
DropChildFirst(o) ==
  /\ o \in lookup /\ ~Strong(o)
  /\ \/ LockFree /\ children[o] = {} /\ lookup' = lookup \ {o} /\ UNCHANGED children
     \/ \E k \in children[o] :
          children' = [children EXCEPT ![o] = @ \ {k}] /\ UNCHANGED lookup
  /\ UNCHANGED <<root, version, garbage, held, call, ledger, history>>

\* Drop for Block: the id leaves the table.
Drop(o) ==
  /\ o \in lookup /\ ~Strong(o) /\ LockFree
  /\ lookup' = lookup \ {o}
  /\ UNCHANGED <<root, children, version, garbage, held, call, ledger, history>>

\* Then the fields go, the children one by one.
DropChild(o, k) ==
  /\ o \notin lookup /\ k \in children[o]
  /\ children' = [children EXCEPT ![o] = @ \ {k}]
  /\ UNCHANGED <<root, lookup, version, garbage, held, call, ledger, history>>

CallStep(c) ==
  \/ MultiGetBlock(c, "find", "findParent")
  \/ MultiGetParent(c, "findParent", "execute")
  \/ Fail(c) \/ ExecuteFails(c) \/ FetchOrAddBlock(c) \/ AddChild(c)
  \/ MultiGetBlock(c, "refind", "refindParent")
  \/ MultiGetParent(c, "refindParent", "update")
  \/ LedgerUpdate(c) \/ CheckRetry(c) \/ FetchToCommit(c) \/ SaveBegins(c) \/ SaveEnds(c)
  \/ Prune(c)

DropStep(o) == DropOldRoot(o) \/ Drop(o) \/ \E k \in Ids : DropChild(o, k)

Next ==
  \/ \E c \in Callers : CallStep(c) \/ \E b \in Blocks : Begin(c, b)
  \/ \E o \in Ids : DropStep(o)

Spec == Init /\ [][Next]_vars

\* Calls run to their end, and so do the threads that drop.
Fairness == (\A c \in Callers : WF_vars(CallStep(c))) /\ \A o \in Ids : WF_vars(DropStep(o))

FairSpec == Spec /\ Fairness

-----------------------------------------------------------------------------

\* The database is one line of blocks, each executed on the state its predecessor
\* left, however many calls of inner_build_block run at once and whichever root each
\* of them has read: a block executed on a root that is no longer the last one is
\* never saved.
LedgerIsLinear ==
  \A i \in DOMAIN db : onto[db[i]] = IF i = 1 THEN Id(Genesis) ELSE RootOf(db[i - 1])

\* A thread in multi_get never gives up the last reference to a block: Drop for Block
\* would wait for the very lock that thread holds.
NoDropUnderLock ==
  [][\A c \in Callers : HoldsLock(c) => \A o \in held[c] \ held'[c] : Strong(o)']_vars

\* "The block tree must also have the current block id": when ledger_update finds the
\* parent, it finds the block, as a child of it, although the root may have moved and
\* the parent may be on its way out.
LedgerUpdateFindsBlock ==
  \A c \in Callers : At(c, "update") =>
    LET o == Id(call[c].blk) IN o \in held[c] /\ o \in children[call[c].parent]

\* The blocks of the current tree: callers execute on the root only.
FromRoot == {root} \cup children[root]

\* Every block that is no longer below the root leaves the table sooner or later, also
\* one whose call failed or was overtaken by the commit of a sibling.
EventuallyCollected ==
  \A o \in Ids : o \in lookup /\ o \notin FromRoot ~> o \notin lookup \/ o \in FromRoot

\* A call that no other call overlaps fails, apart from the VM, only if its block was
\* built in an earlier epoch than the ledger's: however late the old roots are dropped
\* and whatever became of earlier calls, those that failed at their ledger info
\* included, no lookup, unwrap, transaction count or version check goes wrong, and its
\* commit is not taken for a retry.
LoneCallSucceeds ==
  \A b \in Blocks \ together :
    /\ outcome[b] \notin {"retry", "error", "panic"}
    /\ outcome[b] = "gap" => built[b] < epoch

\* executor.commit_blocks(...).unwrap() in inner_build_block: the commit of a block
\* that was executed, with no other call under way, does not fail.
LoneCommitSucceeds == \A b \in Blocks \ together : outcome[b] # "gap"
=============================================================================
