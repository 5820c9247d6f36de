-------------------------- MODULE BlockTreeProofs --------------------------
(***************************************************************************)
(* The safety of the executor's block tree under concurrent calls of        *)
(* inner_build_block, for every set of blocks, of callers and of sizes.     *)
(*                                                                          *)
(* The argument.  A root is the genesis block or belongs to a committed     *)
(* block, and the versions of committed blocks grow along the database, so  *)
(* a version names one root: the checks of the transaction count and of the *)
(* database's version together leave only the block that was executed on    *)
(* the last one.  A block is in the table, below its parent, for as long as *)
(* its parent is in the table; the parent of a call that is alone is the    *)
(* root, which never leaves it.  A block's epoch is never ahead of the      *)
(* ledger's, so a call that is alone fails at the epoch check only if the   *)
(* epoch has ended since its block was built.                               *)
(***************************************************************************)
EXTENDS BlockTree, TLAPS

-----------------------------------------------------------------------------
(* The inductive invariant. *)

Running(c) == ~At(c, "idle")

Committed == {b \in Blocks : outcome[b] = "committed"}

\* What has been the root: no other block is ever a parent.
Roots == {Id(Genesis)} \cup {RootOf(b) : b \in Committed}

LastRoot == IF db = <<>> THEN Id(Genesis) ELSE RootOf(db[Len(db)])

\* A call from its block's entry into the table to the block's entry into the database.
Executed == {"link", "refind", "refindParent", "update", "commit", "fetch", "save", "saving",
             "prune"}

\* Whose block a call runs on what parent.
OwnsBlock(c) ==
  LET b == call[c].blk IN
  /\ b \in Blocks /\ outcome[b] = "running"
  /\ onto[b] = call[c].parent /\ call[c].parent \in Roots
  /\ \A d \in Callers : call[d].blk = b => d = c

\* Where a call finds its block and its parent.
FindsBlock(c) ==
  LET o == Id(call[c].blk)
      p == call[c].parent
  IN  /\ call[c].pc \in {"find", "findParent"} => o \notin lookup
      /\ At(c, "findParent") => held[c] = {}
      /\ call[c].pc \in {"execute", "link", "update"} => p \in held[c] /\ p \in lookup
      /\ call[c].pc \in {"link", "update"} => o \in held[c] /\ o \in lookup
      /\ At(c, "update") => o \in children[p]
      /\ At(c, "refindParent") => held[c] \subseteq {o} /\ (p \in lookup => o \in held[c])
      /\ call[c].pc \in {"refind", "refindParent", "commit", "fetch"} /\ p \in lookup
           => o \in children[p] /\ o \in lookup

\* What a call has computed and checked.
CountsVersions(c) ==
  LET b == call[c].blk IN
  /\ call[c].pc \in Executed => version[Id(b)] = version[call[c].parent] + Size[b]
  /\ call[c].pc \in {"fetch", "save", "saving"} => call[c].seen \in Roots
  /\ call[c].pc \in {"save", "saving"} => version[call[c].seen] + Size[b] = version[Id(b)]
  /\ At(c, "saving") => /\ version[call[c].seen] = DbVersion
                        /\ \A d \in Callers : At(d, "saving") => d = c
  /\ At(c, "prune") => db # <<>> /\ db[Len(db)] = b

\* A call that no other has overlapped so far.
Undisturbed(c) ==
  call[c].blk \notin together =>
    /\ \A d \in Callers : Running(d) => d = c
    /\ root = call[c].parent /\ ~At(c, "fail")
    /\ call[c].pc \in {"fetch", "save", "saving"} => call[c].seen = root

CallInv(c) ==
  Running(c) => OwnsBlock(c) /\ FindsBlock(c) /\ CountsVersions(c) /\ Undisturbed(c)

\* What is saved: the versions grow, and only the last block may still have to become
\* the root.
DbInv ==
  /\ \A k \in DOMAIN db :
       /\ version[Id(db[k])] > 0
       /\ \/ db[k] \in Committed
          \/ \E c \in Callers : At(c, "prune") /\ call[c].blk = db[k]
  /\ \A j \in DOMAIN db, k \in DOMAIN db : j < k => version[Id(db[j])] < version[Id(db[k])]
  /\ \A b \in Committed : /\ \E k \in DOMAIN db : db[k] = b
                          /\ version[RootOf(b)] = version[Id(b)]
  /\ version[Id(Genesis)] = 0
  /\ LedgerIsLinear

RootInv ==
  /\ root \in Roots /\ root \in lookup
  /\ (\A c \in Callers : ~At(c, "prune")) => root = LastRoot
  /\ \A b \in Blocks : outcome[b] = "new" => Id(b) \notin lookup

\* No block is of an epoch still to come.
Outcomes == LoneCallSucceeds /\ \A b \in Blocks : built[b] <= epoch

IdleInv == \A c \in Callers : ~Running(c) => call[c].blk = Genesis

TreeInv ==
  /\ TypeOK /\ DbInv /\ RootInv /\ IdleInv /\ Outcomes
  /\ \A c \in Callers : CallInv(c)

USE DEF At, Running

-----------------------------------------------------------------------------
(* Names, types, and the steps of one caller. *)

\* The names of two blocks' nodes are the same only if the blocks are.
LEMMA Names ==
  /\ \A b, e : Id(b) = Id(e) => b = e
  /\ \A b, e : RootOf(b) = RootOf(e) => b = e
  /\ \A b, e : RootOf(b) = Id(e) => b = e
  /\ \A b \in Blocks \cup {Genesis} : Id(b) \in Ids /\ RootOf(b) \in Ids
<1>1. /\ \A b, e : Id(b) = Id(e) => b = e
      /\ \A b, e : RootOf(b) = RootOf(e) => b = e
      /\ \A b, e : RootOf(b) = Id(e) => b = e
  BY Zenon DEF Id, RootOf
<1>2. \A b \in Blocks \cup {Genesis} : Id(b) \in Ids /\ RootOf(b) \in Ids
  BY SMTT(30) DEF Ids
<1> QED BY <1>1, <1>2, Zenon

Calls == [pc : Steps, blk : Blocks \cup {Genesis}, parent : Ids, seen : Ids]
Failures == {"aborted", "retry", "error", "panic", "gap"}

\* A call's record, field by field.
LEMMA CallTypes ==
  ASSUME TypeOK
  PROVE  /\ call \in [Callers -> Calls] /\ held \in [Callers -> SUBSET Ids]
         /\ \A c \in Callers : /\ call[c] \in Calls /\ call[c].pc \in Steps
                              /\ call[c].blk \in Blocks \cup {Genesis}
                              /\ call[c].parent \in Ids /\ call[c].seen \in Ids
                              /\ held[c] \subseteq Ids
<1>1. call \in [Callers -> Calls] /\ held \in [Callers -> SUBSET Ids]
  BY Zenon DEF TypeOK, Calls
<1>2. \A r \in Calls : /\ r.pc \in Steps /\ r.blk \in Blocks \cup {Genesis}
                       /\ r.parent \in Ids /\ r.seen \in Ids
  BY Zenon DEF Calls
<1> QED BY <1>1, <1>2, Zenon

\* Only c's record changes, from one of a call to another of the same call.
Moves(c, step) ==
  /\ call' \in [Callers -> Calls]
  /\ \A d \in Callers \ {c} : call'[d] = call[d]
  /\ call'[c].pc = step
  /\ call'[c].blk = call[c].blk /\ call'[c].parent = call[c].parent

LEMMA GotoMoves ==
  ASSUME TypeOK, NEW c \in Callers, NEW step \in Steps, Goto(c, step)
  PROVE  Moves(c, step) /\ call'[c].seen = call[c].seen
<1> DEFINE r == [pc |-> step, blk |-> call[c].blk, parent |-> call[c].parent,
                 seen |-> call[c].seen]
<1>1. call \in [Callers -> Calls] /\ call[c] \in Calls
  BY CallTypes, Zenon
<1>2. [call[c] EXCEPT !.pc = step] = r /\ r \in Calls
  BY <1>1 DEF Calls
<1>3. call' = [call EXCEPT ![c] = r]
  BY <1>1, <1>2, Zenon DEF Goto
<1>4. r.pc = step /\ r.blk = call[c].blk /\ r.parent = call[c].parent /\ r.seen = call[c].seen
  OBVIOUS
<1> HIDE DEF r
<1> QED BY <1>1, <1>2, <1>3, <1>4, Zenon DEF Moves

LEMMA KeepType ==
  ASSUME TypeOK, NEW c \in Callers, NEW refs \in SUBSET Ids, Keep(c, refs)
  PROVE  /\ held' \in [Callers -> SUBSET Ids] /\ held'[c] = refs
         /\ \A d \in Callers \ {c} : held'[d] = held[d]
BY CallTypes, Zenon DEF Keep

LEMMA IdleType == Idle \in Calls /\ Idle.pc = "idle" /\ Idle.blk = Genesis
BY Names, Zenon DEF Idle, Calls, Steps

LEMMA EndsFacts ==
  ASSUME TypeOK, NEW c \in Callers, NEW result \in Failures, Ends(c, result),
         call[c].blk \in Blocks
  PROVE  /\ TypeOK' /\ call'[c].pc = "idle" /\ call'[c].blk = Genesis
         /\ \A d \in Callers \ {c} : call'[d] = call[d] /\ held'[d] = held[d]
         /\ outcome'[call[c].blk] = result
         /\ \A b \in Blocks \ {call[c].blk} : outcome'[b] = outcome[b]
<1>1. /\ call' = [call EXCEPT ![c] = Idle] /\ UNCHANGED <<tree, ledger, onto, together>>
      /\ outcome' = [outcome EXCEPT ![call[c].blk] = result] /\ Keep(c, {})
  BY Zenon DEF Ends
<1>2. /\ call' \in [Callers -> Calls] /\ call'[c] = Idle
      /\ \A d \in Callers \ {c} : call'[d] = call[d]
  BY <1>1, CallTypes, IdleType, Zenon
<1>3. /\ held' \in [Callers -> SUBSET Ids]
      /\ \A d \in Callers \ {c} : held'[d] = held[d]
  BY <1>1, KeepType, Zenon
<1>4. /\ outcome' \in [Blocks -> {"new", "running", "committed", "aborted", "retry", "error",
                              "panic", "gap"}]
      /\ outcome'[call[c].blk] = result
      /\ \A b \in Blocks \ {call[c].blk} : outcome'[b] = outcome[b]
  BY <1>1, Zenon DEF TypeOK, Failures
<1>5. TypeOK'
  BY <1>1, <1>2, <1>3, <1>4, Zenon DEF TypeOK, Calls, tree, ledger
<1> QED BY <1>2, <1>3, <1>4, <1>5, IdleType, Zenon

\* The parts of the invariant that speak of the whole tree, and of one call.
LEMMA GlobalParts ==
  ASSUME TreeInv
  PROVE  TypeOK /\ DbInv /\ RootInv /\ IdleInv /\ Outcomes
BY Zenon DEF TreeInv

LEMMA CallParts ==
  ASSUME TreeInv, NEW c \in Callers, Running(c)
  PROVE  /\ TypeOK /\ OwnsBlock(c) /\ FindsBlock(c) /\ CountsVersions(c) /\ Undisturbed(c)
         /\ call[c].blk \in Blocks \cup {Genesis} /\ Id(call[c].blk) \in Ids
         /\ call[c].parent \in Ids /\ call[c].seen \in Ids /\ held[c] \subseteq Ids
<1>1. TypeOK /\ CallInv(c)
  BY Zenon DEF TreeInv
<1>2. /\ call[c].blk \in Blocks \cup {Genesis}
      /\ call[c].parent \in Ids /\ call[c].seen \in Ids /\ held[c] \subseteq Ids
  BY <1>1, CallTypes, Zenon
<1> QED BY <1>1, <1>2, Names, Zenon DEF CallInv

-----------------------------------------------------------------------------
(* Steps that leave the tree and the database alone. *)

\* A call moves on, neither to its end nor past the database: nothing is to be shown but
\* what the call itself has found and checked.
LEMMA PrivateStep ==
  ASSUME TreeInv, NEW c \in Callers, NEW step \in Steps \ {"idle", "prune"},
         Running(c), ~At(c, "prune"), UNCHANGED <<tree, ledger, history>>,
         Moves(c, step), held' \in [Callers -> SUBSET Ids],
         \A d \in Callers \ {c} : held'[d] = held[d],
         step = "saving" => \A d \in Callers \ {c} : ~At(d, "saving"),
         FindsBlock(c)', CountsVersions(c)',
         call[c].blk \notin together =>
           /\ step # "fail"
           /\ step \in {"fetch", "save", "saving"} => call'[c].seen = root
  PROVE  TreeInv'
<1>1. /\ call' \in [Callers -> Calls] /\ call'[c].pc = step
      /\ \A d \in Callers \ {c} : call'[d] = call[d]
      /\ \A d \in Callers : call'[d].blk = call[d].blk /\ call'[d].parent = call[d].parent
  BY Zenon DEF Moves
<1>2. /\ UNCHANGED <<root, children, lookup, version, garbage, db, epoch, built, outcome, onto, together>>
      /\ Roots' = Roots /\ Committed' = Committed /\ DbVersion' = DbVersion /\ LastRoot' = LastRoot
  <2>1. UNCHANGED <<root, children, lookup, version, garbage, db, epoch, built, outcome, onto, together>>
    BY Zenon DEF tree, ledger, history
  <2> QED BY <2>1, Zenon DEF Roots, Committed, DbVersion, LastRoot
<1>3. TypeOK' /\ Outcomes'
  BY <1>1, <1>2, GlobalParts, Zenon DEF TypeOK, Calls, Outcomes, LoneCallSucceeds
<1>4. \A d \in Callers : /\ Running(d)' <=> Running(d)
                         /\ At(d, "prune")' <=> At(d, "prune")
  BY <1>1, Zenon
<1>5. DbInv' /\ RootInv'
  BY <1>1, <1>2, <1>4, GlobalParts DEF DbInv, RootInv, LedgerIsLinear
<1>6. ASSUME NEW d \in Callers, Running(d)'
      PROVE  OwnsBlock(d)' /\ FindsBlock(d)' /\ CountsVersions(d)' /\ Undisturbed(d)'
  <2>0. Running(d)
    BY <1>4, <1>6, Zenon
  <2>1. OwnsBlock(d) /\ FindsBlock(d) /\ CountsVersions(d) /\ Undisturbed(d)
    BY <2>0, CallParts, Zenon
  <2>2. OwnsBlock(d)'
    BY <1>1, <1>2, <2>1, Zenon DEF OwnsBlock
  <2>3. Undisturbed(d)'
    <3> SUFFICES ASSUME call[d].blk \notin together
                 PROVE  /\ \A e \in Callers : Running(e)' => e = d
                        /\ root' = call'[d].parent /\ call'[d].pc # "fail"
                        /\ call'[d].pc \in {"fetch", "save", "saving"} => call'[d].seen = root'
      BY <1>1, <1>2, Zenon DEF Undisturbed
    <3>1. (\A e \in Callers : Running(e) => e = d) /\ root = call[d].parent
      BY <2>1, Zenon DEF Undisturbed
    <3>2. d = c
      BY <3>1, Zenon
    <3>3. call'[d].pc # "fail" /\ (call'[d].pc \in {"fetch", "save", "saving"} => call'[d].seen = root)
      BY <1>1, <3>2, Zenon
    <3>4. \A e \in Callers : Running(e)' => e = d
      BY <1>4, <3>1, Zenon
    <3>5. root' = call'[d].parent /\ root' = root
      BY <1>1, <1>2, <3>1, Zenon
    <3> QED BY <3>3, <3>4, <3>5, Zenon
  <2>4. CASE d = c
    BY <2>2, <2>3, <2>4, Zenon
  <2>5. CASE d # c
    <3>1. FindsBlock(d)'
      BY <1>1, <1>2, <2>1, <2>5, Zenon DEF FindsBlock
    <3>2. CountsVersions(d)'
      BY <1>1, <1>2, <2>1, <2>5, ZenonT(40) DEF CountsVersions
    <3> QED BY <2>2, <2>3, <3>1, <3>2, Zenon
  <2> QED BY <2>4, <2>5, Zenon
<1>7. IdleInv'
  BY <1>1, <1>4, GlobalParts, Zenon DEF IdleInv
<1> QED BY <1>3, <1>5, <1>6, <1>7, Zenon DEF TreeInv, CallInv

\* A call fails: one that is alone only because of the VM or of its block's epoch.
LEMMA EndStep ==
  ASSUME TreeInv, NEW c \in Callers, NEW result \in Failures, Ends(c, result),
         Running(c), ~At(c, "prune"),
         \/ result = "aborted"
         \/ call[c].blk \in together
         \/ result = "gap" /\ built[call[c].blk] < epoch
  PROVE  TreeInv'
<1> DEFINE b == call[c].blk
<1>1. OwnsBlock(c) /\ TypeOK
  BY CallParts, Zenon
<1>2. b \in Blocks /\ outcome[b] = "running" /\ \A d \in Callers \ {c} : call[d].blk # b
  BY <1>1, Zenon DEF OwnsBlock
<1>3. /\ TypeOK' /\ call'[c].pc = "idle" /\ call'[c].blk = Genesis
      /\ \A d \in Callers \ {c} : call'[d] = call[d] /\ held'[d] = held[d]
      /\ outcome'[b] = result /\ \A e \in Blocks \ {b} : outcome'[e] = outcome[e]
  BY <1>1, <1>2, EndsFacts, Zenon
<1>4. UNCHANGED <<root, children, lookup, version, garbage, db, epoch, built, onto, together>>
  BY Zenon DEF Ends, tree, ledger
<1>5. Committed' = Committed
  BY <1>2, <1>3, Zenon DEF Committed, Failures
<1>6. Roots' = Roots /\ DbVersion' = DbVersion /\ LastRoot' = LastRoot
  BY <1>4, <1>5, Zenon DEF Roots, DbVersion, LastRoot
<1>7. Outcomes'
  BY <1>3, <1>4, GlobalParts, Zenon DEF Outcomes, LoneCallSucceeds, Failures
<1>8. \A d \in Callers : /\ Running(d)' <=> Running(d) /\ d # c
                         /\ At(d, "prune")' <=> At(d, "prune")
  BY <1>3, Zenon
<1>9. DbInv'
  BY <1>3, <1>4, <1>5, <1>8, GlobalParts DEF DbInv, LedgerIsLinear
<1>10. RootInv'
  BY <1>2, <1>3, <1>4, <1>6, <1>8, GlobalParts, Zenon DEF RootInv, Failures
<1>11. ASSUME NEW d \in Callers, Running(d)'
       PROVE  OwnsBlock(d)' /\ FindsBlock(d)' /\ CountsVersions(d)' /\ Undisturbed(d)'
  <2>0. Running(d) /\ d # c
    BY <1>8, <1>11, Zenon
  <2>1. d # c /\ OwnsBlock(d) /\ FindsBlock(d) /\ CountsVersions(d) /\ Undisturbed(d)
    BY <2>0, CallParts, Zenon
  <2>2. OwnsBlock(d)'
    <3>1. call[d].blk \in Blocks /\ call[d].blk # b /\ call[d].blk # Genesis
      BY <1>2, <2>1, BlockTreeAssumption, Zenon DEF OwnsBlock
    <3> QED BY <1>3, <1>4, <1>6, <2>1, <3>1, ZenonT(40) DEF OwnsBlock
  <2>3. FindsBlock(d)'
    BY <1>3, <1>4, <2>1, Zenon DEF FindsBlock
  <2>4. CountsVersions(d)'
    BY <1>3, <1>4, <1>6, <2>1, Zenon DEF CountsVersions
  <2>5. Undisturbed(d)'
    BY <1>3, <1>4, <1>8, <2>1, Zenon DEF Undisturbed
  <2> QED BY <2>2, <2>3, <2>4, <2>5, Zenon
<1>12. IdleInv'
  BY <1>3, <1>8, GlobalParts, Zenon DEF IdleInv
<1> QED BY <1>3, <1>7, <1>9, <1>10, <1>11, <1>12, Zenon DEF TreeInv, CallInv

\* The block a call has linked is safe while its parent is in the table, and the parent
\* of an undisturbed call is.
LEMMA Linked ==
  ASSUME TreeInv, NEW c \in Callers, Running(c)
  PROVE  LET o == Id(call[c].blk)
             p == call[c].parent
         IN  /\ o \in children[p] => Strong(o)
             /\ call[c].blk \notin together => p = root /\ p \in lookup /\ Strong(p)
BY CallParts, Zenon DEF TreeInv, Strong, Undisturbed, RootInv

LEMMA MultiGetBlockStep ==
  ASSUME TreeInv, NEW c \in Callers,
         \/ MultiGetBlock(c, "find", "findParent")
         \/ MultiGetBlock(c, "refind", "refindParent")
  PROVE  TreeInv'
<1> DEFINE o == Id(call[c].blk)
           p == call[c].parent
<1>1. PICK from \in {"find", "refind"}, to \in {"findParent", "refindParent"} :
        /\ MultiGetBlock(c, from, to) /\ At(c, from)
        /\ from = "find" <=> to = "findParent"
  BY Zenon DEF MultiGetBlock
<1>2. /\ TypeOK /\ OwnsBlock(c) /\ FindsBlock(c) /\ CountsVersions(c) /\ Undisturbed(c)
      /\ Running(c) /\ ~At(c, "prune") /\ o \in Ids
  <2>1. Running(c) /\ ~At(c, "prune")
    BY <1>1, Zenon
  <2> QED BY <2>1, CallParts, Zenon
<1>3. CASE o \in lookup /\ ~Strong(o)
  <2>1. Ends(c, "error")
    BY <1>1, <1>3, Zenon DEF MultiGetBlock
  <2>2. call[c].blk \in together
    BY <1>1, <1>2, <1>3, Linked, Zenon DEF FindsBlock
  <2> QED BY <1>2, <2>1, <2>2, EndStep, Zenon DEF Failures
<1>4. CASE ~(o \in lookup /\ ~Strong(o))
  <2>1. /\ Keep(c, {o} \cap lookup) /\ Goto(c, to)
        /\ UNCHANGED <<tree, ledger, history>>
    BY <1>1, <1>4, Zenon DEF MultiGetBlock
  <2>2. to \in Steps \ {"idle", "prune"} /\ to \notin {"saving", "fail", "fetch", "save"}
    BY Zenon DEF Steps
  <2>3. /\ held' \in [Callers -> SUBSET Ids] /\ held'[c] = {o} \cap lookup
        /\ \A d \in Callers \ {c} : held'[d] = held[d]
    BY <1>2, <2>1, KeepType, Zenon
  <2>4. Moves(c, to)
    BY <1>2, <2>1, <2>2, GotoMoves, Zenon
  <2>5. lookup' = lookup /\ children' = children /\ version' = version
    BY <2>1, Zenon DEF tree
  <2>6. FindsBlock(c)'
    BY <1>1, <1>2, <2>3, <2>4, <2>5, Zenon DEF FindsBlock, Moves
  <2>7. CountsVersions(c)'
    BY <1>1, <1>2, <2>4, <2>5, Zenon DEF CountsVersions, Moves, Executed
  <2> QED BY <1>2, <2>1, <2>2, <2>3, <2>4, <2>6, <2>7, PrivateStep, Zenon
<1> QED BY <1>3, <1>4, Zenon

LEMMA MultiGetParentStep ==
  ASSUME TreeInv, NEW c \in Callers,
         \/ MultiGetParent(c, "findParent", "execute")
         \/ MultiGetParent(c, "refindParent", "update")
  PROVE  TreeInv'
<1> DEFINE o == Id(call[c].blk)
           p == call[c].parent
<1>1. PICK from \in {"findParent", "refindParent"}, to \in {"execute", "update"} :
        /\ MultiGetParent(c, from, to) /\ At(c, from)
        /\ from = "findParent" <=> to = "execute"
  BY Zenon DEF MultiGetParent
<1>2. /\ TypeOK /\ OwnsBlock(c) /\ FindsBlock(c) /\ CountsVersions(c) /\ Undisturbed(c)
      /\ Running(c) /\ ~At(c, "prune") /\ p \in Ids /\ held[c] \subseteq Ids
  <2>1. Running(c) /\ ~At(c, "prune")
    BY <1>1, Zenon
  <2> QED BY <2>1, CallParts, Zenon
<1>3. CASE p \in lookup /\ ~Strong(p)
  <2>1. Ends(c, "error")
    BY <1>1, <1>3, Zenon DEF MultiGetParent
  <2>2. call[c].blk \in together
    BY <1>2, <1>3, Linked, Zenon
  <2> QED BY <1>2, <2>1, <2>2, EndStep, Zenon DEF Failures
<1>4. CASE ~(p \in lookup /\ ~Strong(p))
  <2> DEFINE step == IF p \in lookup THEN to ELSE "fail"
             refs == held[c] \cup ({p} \cap lookup)
  <2>1. /\ Keep(c, refs) /\ Goto(c, step)
        /\ UNCHANGED <<tree, ledger, history>>
    BY <1>1, <1>4, Zenon DEF MultiGetParent
  <2>2. step \in Steps \ {"idle", "prune"} /\ step \notin {"saving", "fetch", "save"}
    BY Zenon DEF Steps
  <2>3. /\ held' \in [Callers -> SUBSET Ids] /\ held'[c] = refs
        /\ \A d \in Callers \ {c} : held'[d] = held[d]
    BY <1>2, <2>1, KeepType, Zenon
  <2>4. Moves(c, step)
    BY <1>2, <2>1, <2>2, GotoMoves, Zenon
  <2>5. lookup' = lookup /\ children' = children /\ version' = version
    BY <2>1, Zenon DEF tree
  <2>6. FindsBlock(c)'
    BY <1>1, <1>2, <2>3, <2>4, <2>5, Zenon DEF FindsBlock, Moves
  <2>7. CountsVersions(c)'
    BY <1>1, <1>2, <2>4, <2>5, Zenon DEF CountsVersions, Moves, Executed
  <2>8. call[c].blk \notin together => step # "fail"
    BY <1>2, Linked, Zenon
  <2> HIDE DEF step
  <2> QED BY <1>2, <2>1, <2>2, <2>3, <2>4, <2>6, <2>7, <2>8, PrivateStep, Zenon
<1> QED BY <1>3, <1>4, Zenon

LEMMA FailStep ==
  ASSUME TreeInv, NEW c \in Callers, Fail(c) \/ ExecuteFails(c)
  PROVE  TreeInv'
<1>1. Undisturbed(c) /\ Running(c) /\ ~At(c, "prune")
  BY CallParts, Zenon DEF Fail, ExecuteFails
<1>2. CASE Fail(c)
  <2>1. call[c].blk \in together /\ Ends(c, "error")
    BY <1>1, <1>2, Zenon DEF Fail, Undisturbed
  <2> QED BY <1>1, <2>1, EndStep, Zenon DEF Failures
<1>3. CASE ExecuteFails(c)
  BY <1>1, <1>3, EndStep, Zenon DEF Failures, ExecuteFails
<1> QED BY <1>2, <1>3, Zenon

LEMMA LedgerUpdateStep ==
  ASSUME TreeInv, NEW c \in Callers, LedgerUpdate(c)
  PROVE  TreeInv'
<1> DEFINE o == Id(call[c].blk)
           p == call[c].parent
<1>0. At(c, "update")
  BY Zenon DEF LedgerUpdate
<1>r. Running(c) /\ ~At(c, "prune")
  BY <1>0, Zenon
<1>1. /\ TypeOK /\ FindsBlock(c) /\ CountsVersions(c)
      /\ At(c, "update") /\ Running(c) /\ ~At(c, "prune")
  BY <1>0, <1>r, CallParts, Zenon
<1>2. o \in held[c] /\ o \in children[p] /\ o \in lookup
  BY <1>1, Zenon DEF FindsBlock
<1>3. Keep(c, {}) /\ Goto(c, "commit") /\ UNCHANGED <<tree, ledger, history>>
  BY <1>2, Zenon DEF LedgerUpdate
<1>4. /\ held' \in [Callers -> SUBSET Ids]
      /\ \A d \in Callers \ {c} : held'[d] = held[d]
  BY <1>1, <1>3, KeepType, Zenon
<1>5. Moves(c, "commit") /\ "commit" \in Steps
  BY <1>1, <1>3, GotoMoves, Zenon DEF Steps
<1>6. lookup' = lookup /\ children' = children /\ version' = version
  BY <1>3, Zenon DEF tree
<1>7. FindsBlock(c)'
  BY <1>2, <1>5, <1>6, Zenon DEF FindsBlock, Moves
<1>8. CountsVersions(c)'
  BY <1>1, <1>5, <1>6, Zenon DEF CountsVersions, Moves, Executed
<1> QED BY <1>1, <1>3, <1>4, <1>5, <1>7, <1>8, PrivateStep, Zenon

\* Sizes and versions are natural numbers, and a size is not zero.
LEMMA Numbers ==
  ASSUME TypeOK
  PROVE  /\ \A b \in Blocks : Size[b] \in Nat /\ Size[b] > 0
         /\ \A o \in Ids : version[o] \in Nat
BY BlockTreeAssumption DEF TypeOK

LEMMA CheckRetryStep ==
  ASSUME TreeInv, NEW c \in Callers, CheckRetry(c)
  PROVE  TreeInv'
<1> DEFINE b == call[c].blk
           o == Id(b)
           p == call[c].parent
<1>0. At(c, "commit")
  BY Zenon DEF CheckRetry
<1>r. Running(c) /\ ~At(c, "prune")
  BY <1>0, Zenon
<1>1. /\ TypeOK /\ OwnsBlock(c) /\ FindsBlock(c) /\ CountsVersions(c) /\ RootInv
      /\ At(c, "commit") /\ Running(c) /\ ~At(c, "prune") /\ p \in Ids
  BY <1>0, <1>r, CallParts, GlobalParts, Zenon
<1>2. /\ b \in Blocks /\ version[o] = version[p] + Size[b]
      /\ (p \in lookup => o \in children[p] /\ o \in lookup)
      /\ root \in Roots /\ root \in Ids
  BY <1>1, Zenon DEF OwnsBlock, CountsVersions, FindsBlock, Executed, RootInv, TypeOK
<1>3. CASE version[root] = version[o]
  <2>1. Ends(c, "retry")
    BY <1>3, Zenon DEF CheckRetry
  <2>2. b \in together
    <3>1. ASSUME b \notin together PROVE FALSE
      <4>1. version[p] = version[p] + Size[b]
        BY <1>1, <1>2, <1>3, <3>1, Linked, Zenon
      <4> QED BY <1>1, <1>2, <4>1, Numbers
    <3> QED BY <3>1, Zenon
  <2> QED BY <1>1, <2>1, <2>2, EndStep, Zenon DEF Failures
<1>4. CASE version[root] # version[o]
  <2>1. /\ Keep(c, {root}) /\ call' = [call EXCEPT ![c].pc = "fetch", ![c].seen = root]
        /\ UNCHANGED <<tree, ledger, history>>
    BY <1>4, Zenon DEF CheckRetry
  <2>2. /\ held' \in [Callers -> SUBSET Ids]
        /\ \A d \in Callers \ {c} : held'[d] = held[d]
    BY <1>1, <1>2, <2>1, KeepType, Zenon
  <2>3. Moves(c, "fetch") /\ call'[c].seen = root
    <3> DEFINE r == [pc |-> "fetch", blk |-> b, parent |-> p, seen |-> root]
    <3>1. call \in [Callers -> Calls] /\ call[c] \in Calls
      BY <1>1, CallTypes, Zenon
    <3> DEFINE q == [pc |-> "fetch", blk |-> b, parent |-> p, seen |-> call[c].seen]
    <3>q. [call[c] EXCEPT !.pc = "fetch"] = q
      BY <3>1 DEF Calls
    <3>s. [q EXCEPT !.seen = root] = r
      OBVIOUS
    <3>2. [[call[c] EXCEPT !.pc = "fetch"] EXCEPT !.seen = root] = r /\ r \in Calls
      <4>1. r \in Calls
        BY <1>2, <3>1, Zenon DEF Calls, Steps
      <4> QED BY <3>q, <3>s, <4>1, Zenon
    <3>3. call' = [call EXCEPT ![c] = r]
      BY <2>1, <3>1, <3>2, Zenon
    <3>4. r.pc = "fetch" /\ r.blk = b /\ r.parent = p /\ r.seen = root
      OBVIOUS
    <3> HIDE DEF r
    <3> QED BY <3>1, <3>2, <3>3, <3>4, Zenon DEF Moves
  <2>4. /\ lookup' = lookup /\ children' = children /\ version' = version
        /\ Roots' = Roots
    <3>1. lookup' = lookup /\ children' = children /\ version' = version /\ outcome' = outcome
      BY <2>1, Zenon DEF tree, ledger, history
    <3> QED BY <3>1, Zenon DEF Roots, Committed
  <2>5. FindsBlock(c)'
    BY <1>2, <2>3, <2>4, Zenon DEF FindsBlock, Moves
  <2>6. CountsVersions(c)'
    BY <1>2, <2>3, <2>4, Zenon DEF CountsVersions, Moves
  <2>7. "fetch" \in Steps
    BY Zenon DEF Steps
  <2> QED BY <1>1, <2>1, <2>2, <2>3, <2>5, <2>6, <2>7, PrivateStep, Zenon
<1> QED BY <1>3, <1>4, Zenon

LEMMA FetchToCommitStep ==
  ASSUME TreeInv, NEW c \in Callers, FetchToCommit(c)
  PROVE  TreeInv'
<1> DEFINE b == call[c].blk
           o == Id(b)
           p == call[c].parent
           seen == call[c].seen
<1>0. At(c, "fetch")
  BY Zenon DEF FetchToCommit
<1>r. Running(c) /\ ~At(c, "prune")
  BY <1>0, Zenon
<1>1. /\ TypeOK /\ OwnsBlock(c) /\ FindsBlock(c) /\ CountsVersions(c) /\ Undisturbed(c)
      /\ At(c, "fetch") /\ Running(c) /\ ~At(c, "prune") /\ held[c] \subseteq Ids /\ o \in Ids
  BY <1>0, <1>r, CallParts, Zenon
<1>2. /\ version[o] = version[p] + Size[b] /\ seen \in Roots
      /\ (p \in lookup => o \in children[p] /\ o \in lookup)
      /\ (b \notin together => seen = root)
  BY <1>1, Zenon DEF CountsVersions, FindsBlock, Executed, Undisturbed
<1> DEFINE Found == o \in lookup /\ Strong(o)
           Counted == version[seen] + Size[b] = version[o]
<1>3. b \notin together => Found /\ Counted
  BY <1>1, <1>2, Linked, Zenon
<1>4. CASE ~(Found /\ Counted)
  <2>1. Ends(c, "panic")
    BY <1>4, Zenon DEF FetchToCommit
  <2> QED BY <1>1, <1>3, <1>4, <2>1, EndStep, Zenon DEF Failures
<1>5. CASE Found /\ Counted
  <2>1. /\ Keep(c, held[c] \cup {o}) /\ Goto(c, "save")
        /\ UNCHANGED <<tree, ledger, history>>
    BY <1>5, Zenon DEF FetchToCommit
  <2>2. /\ held' \in [Callers -> SUBSET Ids]
        /\ \A d \in Callers \ {c} : held'[d] = held[d]
    BY <1>1, <2>1, KeepType, Zenon
  <2>3. Moves(c, "save") /\ call'[c].seen = seen /\ "save" \in Steps
    BY <1>1, <2>1, GotoMoves, Zenon DEF Steps
  <2>4. version' = version /\ Roots' = Roots
    BY <2>1, Zenon DEF tree, ledger, history, Roots, Committed
  <2>5. FindsBlock(c)'
    BY <2>3, Zenon DEF FindsBlock, Moves
  <2>6. CountsVersions(c)'
    BY <1>2, <1>5, <2>3, <2>4, Zenon DEF CountsVersions, Moves
  <2> QED BY <1>1, <1>2, <2>1, <2>2, <2>3, <2>5, <2>6, PrivateStep, Zenon
<1> QED BY <1>4, <1>5, Zenon

\* When no call has a block to prune, the root has the version of the database.
LEMMA RootIsSaved ==
  ASSUME TreeInv, \A c \in Callers : ~At(c, "prune")
  PROVE  version[root] = DbVersion
<1>1. DbInv /\ root = LastRoot /\ db \in Seq(Blocks)
  BY GlobalParts, Zenon DEF RootInv, TypeOK
<1>2. CASE db = <<>>
  BY <1>1, <1>2, Zenon DEF LastRoot, DbVersion, DbInv
<1>3. CASE db # <<>>
  <2>1. Len(db) \in DOMAIN db
    BY <1>1, <1>3
  <2>2. db[Len(db)] \in Committed
    BY <1>1, <2>1, Zenon DEF DbInv
  <2> QED BY <1>1, <1>3, <2>2, Zenon DEF LastRoot, DbVersion, DbInv
<1> QED BY <1>2, <1>3, Zenon

LEMMA SaveBeginsStep ==
  ASSUME TreeInv, NEW c \in Callers, SaveBegins(c)
  PROVE  TreeInv'
<1> DEFINE b == call[c].blk
           seen == call[c].seen
           Busy == \E d \in Callers : At(d, "saving")
<1>0. At(c, "save")
  BY Zenon DEF SaveBegins
<1>r. Running(c) /\ ~At(c, "prune")
  BY <1>0, Zenon
<1>1. /\ TypeOK /\ FindsBlock(c) /\ CountsVersions(c) /\ Undisturbed(c)
      /\ At(c, "save") /\ Running(c) /\ ~At(c, "prune")
  BY <1>0, <1>r, CallParts, Zenon
<1>2. CASE Busy \/ version[seen] # DbVersion
  <2>1. Ends(c, "panic")
    BY <1>2, Zenon DEF SaveBegins
  <2>2. ASSUME b \notin together PROVE FALSE
    <3>1. (\A d \in Callers : Running(d) => d = c) /\ seen = root
      BY <1>1, <2>2, Zenon DEF Undisturbed
    <3>2. ~Busy /\ \A d \in Callers : ~At(d, "prune")
      BY <1>1, <3>1, Zenon
    <3> QED BY <1>2, <3>1, <3>2, RootIsSaved, Zenon
  <2> QED BY <1>1, <2>1, <2>2, EndStep, Zenon DEF Failures
<1>3. CASE ~(Busy \/ version[seen] # DbVersion)
  <2>1. Goto(c, "saving") /\ UNCHANGED <<tree, held, ledger, history>>
    BY <1>3, Zenon DEF SaveBegins
  <2>2. Moves(c, "saving") /\ call'[c].seen = seen /\ "saving" \in Steps
    BY <1>1, <2>1, GotoMoves, Zenon DEF Steps
  <2>3. version' = version /\ Roots' = Roots /\ DbVersion' = DbVersion /\ held' = held
    BY <2>1, Zenon DEF tree, ledger, history, Roots, Committed, DbVersion
  <2>4. FindsBlock(c)'
    BY <2>2, Zenon DEF FindsBlock, Moves
  <2>5. \A d \in Callers : At(d, "saving")' => d = c
    BY <1>3, <2>2, Zenon DEF Moves
  <2>6. CountsVersions(c)'
    BY <1>1, <1>3, <2>2, <2>3, <2>5, Zenon DEF CountsVersions, Moves, Executed
  <2>7. call[c].blk \notin together => call'[c].seen = root
    BY <1>1, <2>2, Zenon DEF Undisturbed
  <2>8. UNCHANGED <<tree, ledger, history>>
    BY <2>1, Zenon
  <2>9. held' \in [Callers -> SUBSET Ids] /\ \A d \in Callers \ {c} : held'[d] = held[d]
    BY <1>1, <2>3, CallTypes, Zenon
  <2>10. \A d \in Callers \ {c} : ~At(d, "saving")
    BY <1>3, Zenon
  <2> QED BY <1>1, <2>2, <2>4, <2>6, <2>7, <2>8, <2>9, <2>10, PrivateStep, Zenon
<1> QED BY <1>2, <1>3, Zenon

-----------------------------------------------------------------------------
(* Steps that change the tree. *)

\* A running call's block is not, and never was, a root, and is not in the database
\* before its caller saves it.
LEMMA OwnBlock ==
  ASSUME TreeInv, NEW c \in Callers, Running(c)
  PROVE  LET b == call[c].blk IN
         /\ b \in Blocks /\ b \notin Committed /\ outcome[b] = "running"
         /\ \A r \in Roots : r # Id(b) /\ r # RootOf(b)
         /\ \A d \in Callers \ {c} : call[d].blk # b
         /\ ~At(c, "prune") => \A k \in DOMAIN db : db[k] # b
<1> DEFINE b == call[c].blk
<1>1. OwnsBlock(c) /\ DbInv
  BY CallParts, Zenon DEF TreeInv
<1>2. /\ b \in Blocks /\ b \notin Committed /\ outcome[b] = "running" /\ b # Genesis
      /\ \A d \in Callers \ {c} : call[d].blk # b
  BY <1>1, BlockTreeAssumption, Zenon DEF OwnsBlock, Committed
<1> HIDE DEF b
<1>3. \A r \in Roots : r # Id(b) /\ r # RootOf(b)
  BY <1>2, Names DEF Roots
<1>4. ~At(c, "prune") => \A k \in DOMAIN db : db[k] # b
  BY <1>1, <1>2 DEF DbInv, b
<1> QED BY <1>2, <1>3, <1>4, Zenon DEF b

LEMMA RootTypes ==
  ASSUME TypeOK
  PROVE  Roots \subseteq Ids /\ Committed \subseteq Blocks
BY Names, ZenonT(40) DEF Roots, Committed

LEMMA BeginStep ==
  ASSUME TreeInv, NEW c \in Callers, NEW b \in Blocks, Begin(c, b)
  PROVE  TreeInv'
<1> DEFINE r == [pc |-> "find", blk |-> b, parent |-> root, seen |-> Id(Genesis)]
           others == {call[d].blk : d \in Callers} \cap Blocks
<1>1. /\ TypeOK /\ DbInv /\ RootInv /\ Outcomes /\ At(c, "idle") /\ outcome[b] = "new"
      /\ outcome' = [outcome EXCEPT ![b] = "running"] /\ onto' = [onto EXCEPT ![b] = root]
      /\ together' = IF others = {} THEN together ELSE together \cup others \cup {b}
      /\ UNCHANGED <<root, children, lookup, version, garbage, held, db, epoch>>
  BY GlobalParts, Zenon DEF Begin, tree
<1>2. /\ call' \in [Callers -> Calls] /\ call'[c] = r
      /\ \A d \in Callers \ {c} : call'[d] = call[d]
  <2>1. call \in [Callers -> Calls] /\ root \in Ids
    BY <1>1, CallTypes, Zenon DEF TypeOK
  <2> DEFINE q == [pc |-> "find", blk |-> Genesis, parent |-> Id(Genesis), seen |-> Id(Genesis)]
             t == [pc |-> "find", blk |-> b, parent |-> Id(Genesis), seen |-> Id(Genesis)]
  <2>q. [Idle EXCEPT !.pc = "find"] = q
    BY DEF Idle
  <2>t. [q EXCEPT !.blk = b] = t
    OBVIOUS
  <2>r. [t EXCEPT !.parent = root] = r
    OBVIOUS
  <2>2. [[[Idle EXCEPT !.pc = "find"] EXCEPT !.blk = b] EXCEPT !.parent = root] = r
    BY <2>q, <2>t, <2>r, Zenon
  <2>3. r \in Calls
    BY <2>1, Names, Zenon DEF Calls, Steps
  <2>4. call' = [call EXCEPT ![c] = r]
    BY <2>2, Zenon DEF Begin
  <2> HIDE DEF r
  <2> QED BY <2>1, <2>3, <2>4, Zenon
<1>3. r.pc = "find" /\ r.blk = b /\ r.parent = root
  OBVIOUS
<1> HIDE DEF r
<1>4. /\ outcome'[b] = "running" /\ onto'[b] = root
      /\ \A e \in Blocks \ {b} : outcome'[e] = outcome[e] /\ onto'[e] = onto[e]
  BY <1>1, Zenon DEF TypeOK
<1>e. /\ built' \in [Blocks -> Nat] /\ built'[b] <= epoch
      /\ \A e \in Blocks \ {b} : built'[e] = built[e]
  <2>1. PICK e \in 0..epoch : built' = [built EXCEPT ![b] = e]
    BY Zenon DEF Begin, BuiltEpochs
  <2>2. e \in Nat /\ e <= epoch /\ built \in [Blocks -> Nat]
    BY <1>1 DEF TypeOK
  <2> QED BY <2>1, <2>2, Zenon
<1>5. Committed' = Committed
  BY <1>1, <1>4, Zenon DEF Committed
<1>6. Roots' = Roots /\ DbVersion' = DbVersion /\ LastRoot' = LastRoot
  BY <1>1, <1>5, Zenon DEF Roots, DbVersion, LastRoot
<1>7. TypeOK'
  BY <1>1, <1>2, <1>e, Zenon DEF TypeOK, Calls
<1>8. \A d \in Callers : /\ Running(d)' <=> Running(d) \/ d = c
                         /\ At(d, "prune")' <=> At(d, "prune")
  BY <1>1, <1>2, <1>3, Zenon
<1>9. \A d \in Callers \ {c} : call[d].blk # b /\ (Running(d) => call[d].blk \in others)
  <2> SUFFICES ASSUME NEW d \in Callers \ {c}
               PROVE  call[d].blk # b /\ (Running(d) => call[d].blk \in others)
    OBVIOUS
  <2>1. CASE Running(d)
    BY <1>1, <2>1, OwnBlock, Zenon
  <2>2. CASE ~Running(d)
    BY <2>2, GlobalParts, BlockTreeAssumption, Zenon DEF IdleInv
  <2> QED BY <2>1, <2>2, Zenon
<1>10. Outcomes'
  <2>1. \A e \in Blocks : built'[e] <= epoch'
    BY <1>1, <1>e, Zenon DEF Outcomes
  <2>2. LoneCallSucceeds'
    BY <1>1, <1>4, <1>e, Zenon DEF Outcomes, LoneCallSucceeds
  <2> QED BY <2>1, <2>2, Zenon DEF Outcomes
<1>11. DbInv'
  <2>1. \A k \in DOMAIN db : db[k] \in Blocks /\ db[k] # b
    <3> SUFFICES ASSUME NEW k \in DOMAIN db PROVE db[k] \in Blocks /\ db[k] # b
      OBVIOUS
    <3>1. db[k] \in Blocks
      BY <1>1 DEF TypeOK
    <3>2. CASE db[k] \in Committed
      BY <1>1, <3>1, <3>2, Zenon DEF Committed
    <3>3. CASE \E d \in Callers : At(d, "prune") /\ call[d].blk = db[k]
      BY <1>1, <1>9, <3>1, <3>3, Zenon
    <3> QED BY <1>1, <3>2, <3>3, <3>1, Zenon DEF DbInv
  <2>2. LedgerIsLinear'
    BY <1>1, <1>4, <2>1 DEF DbInv, LedgerIsLinear
  <2>3. \A d \in Callers : At(d, "prune") => call'[d] = call[d]
    BY <1>1, <1>2, Zenon
  <2> QED BY <1>1, <1>5, <1>8, <2>2, <2>3 DEF DbInv
<1>12. RootInv'
  BY <1>1, <1>4, <1>6, <1>8, Zenon DEF RootInv
<1>13. IdleInv'
  BY <1>2, <1>8, GlobalParts, Zenon DEF IdleInv
<1>14. CallInv(c)'
  <2>1. OwnsBlock(c)'
    BY <1>1, <1>2, <1>3, <1>4, <1>6, <1>9 DEF OwnsBlock, RootInv
  <2>2. FindsBlock(c)'
    BY <1>1, <1>2, <1>3, Zenon DEF FindsBlock, RootInv
  <2>3. CountsVersions(c)'
    BY <1>2, <1>3, Zenon DEF CountsVersions, Executed
  <2>4. Undisturbed(c)'
    BY <1>1, <1>2, <1>3, <1>8, <1>9, Zenon DEF Undisturbed
  <2> QED BY <2>1, <2>2, <2>3, <2>4, Zenon DEF CallInv
<1>15. ASSUME NEW d \in Callers \ {c}, Running(d)
       PROVE  CallInv(d)'
  <2>1. OwnsBlock(d) /\ FindsBlock(d) /\ CountsVersions(d)
    BY <1>15, CallParts, ZenonT(40)
  <2>2. OwnsBlock(d)'
    BY <1>2, <1>3, <1>4, <1>6, <1>9, <2>1, SMTT(30) DEF OwnsBlock
  <2>3. FindsBlock(d)'
    BY <1>1, <1>2, <2>1, Zenon DEF FindsBlock
  <2>4. CountsVersions(d)'
    BY <1>1, <1>2, <1>3, <1>6, <2>1, ZenonT(40) DEF CountsVersions
  <2>5. Undisturbed(d)'
    BY <1>1, <1>2, <1>9, <1>15, Zenon DEF Undisturbed
  <2> QED BY <2>2, <2>3, <2>4, <2>5, Zenon DEF CallInv
<1> QED BY <1>7, <1>8, <1>10, <1>11, <1>12, <1>13, <1>14, <1>15, Zenon DEF TreeInv, CallInv

LEMMA FetchOrAddStep ==
  ASSUME TreeInv, NEW c \in Callers, FetchOrAddBlock(c)
  PROVE  TreeInv'
<1> DEFINE b == call[c].blk
           o == Id(b)
           p == call[c].parent
<1>0. At(c, "execute")
  BY Zenon DEF FetchOrAddBlock
<1>r. Running(c) /\ ~At(c, "prune")
  BY <1>0, Zenon
<1>1. /\ TypeOK /\ OwnsBlock(c) /\ FindsBlock(c) /\ Undisturbed(c)
      /\ o \in Ids /\ p \in Ids /\ held[c] \subseteq Ids
  BY <1>r, CallParts, Zenon
<1>2. DbInv /\ RootInv /\ IdleInv /\ Outcomes
  BY GlobalParts, Zenon
<1>3. /\ b \in Blocks /\ outcome[b] = "running" /\ p \in Roots
      /\ \A r \in Roots : r # o
      /\ \A d \in Callers \ {c} : call[d].blk # b
      /\ \A k \in DOMAIN db : db[k] # b
  BY <1>1, <1>r, OwnBlock, Zenon DEF OwnsBlock
<1>4. /\ version' = [version EXCEPT ![o] = version[p] + Size[b]]
      /\ Keep(c, held[c] \cup {o}) /\ Goto(c, "link")
  BY Zenon DEF FetchOrAddBlock
<1>u. /\ lookup' = lookup \cup {o}
      /\ UNCHANGED <<root, children, garbage, db, epoch, built, outcome, onto, together>>
  BY Zenon DEF FetchOrAddBlock, ledger, history
<1>5. Moves(c, "link")
  BY <1>1, <1>4, GotoMoves, Zenon DEF Steps
<1>6. /\ held' \in [Callers -> SUBSET Ids] /\ held'[c] = held[c] \cup {o}
      /\ \A d \in Callers \ {c} : held'[d] = held[d]
  BY <1>1, <1>4, KeepType, Zenon
<1>7. /\ version' \in [Ids -> Nat] /\ version'[o] = version[p] + Size[b]
      /\ \A x \in Ids \ {o} : version'[x] = version[x]
  <2>1. version \in [Ids -> Nat] /\ version[p] \in Nat /\ Size[b] \in Nat
    BY <1>1, <1>3, Numbers, Zenon DEF TypeOK
  <2> QED BY <1>1, <1>4, <2>1
<1> HIDE DEF o, p, b
<1>8. TypeOK'
  BY <1>1, <1>u, <1>5, <1>6, <1>7, Zenon DEF TypeOK, Moves, Calls
<1>9. Committed' = Committed /\ Roots' = Roots /\ LastRoot' = LastRoot
  BY <1>u, Zenon DEF Committed, Roots, LastRoot
\* No version that anyone relies on changes.
<1>10. /\ \A x \in Roots : version'[x] = version[x]
       /\ \A k \in DOMAIN db : version'[Id(db[k])] = version[Id(db[k])]
       /\ \A e \in Blocks : e # b => version'[Id(e)] = version[Id(e)]
  <2>1. \A e \in Blocks : e # b => Id(e) \in Ids /\ Id(e) # o
    BY Names, Zenon DEF o
  <2>2. \A k \in DOMAIN db : db[k] \in Blocks /\ db[k] # b
    BY <1>1, <1>3 DEF TypeOK
  <2> QED BY <1>1, <1>3, <1>7, <2>1, <2>2, RootTypes, Zenon
<1>11. DbVersion' = DbVersion
  <2>1. db # <<>> => Len(db) \in DOMAIN db
    BY <1>1 DEF TypeOK
  <2> QED BY <1>u, <1>10, <2>1, Zenon DEF DbVersion
<1>12. \A d \in Callers : /\ Running(d)' <=> Running(d)
                          /\ At(d, "prune")' <=> At(d, "prune")
                          /\ call'[d].blk = call[d].blk /\ call'[d].parent = call[d].parent
  BY <1>0, <1>5, Zenon DEF Moves
<1>13. Outcomes' /\ IdleInv'
  BY <1>2, <1>u, <1>12, ZenonT(40) DEF Outcomes, LoneCallSucceeds, IdleInv
<1>14. DbInv'
  <2>1. \A e \in Committed : RootOf(e) \in Roots /\ e \in Blocks /\ e # b
    BY <1>3, Zenon DEF Roots, Committed
  <2>2. Id(Genesis) \in Roots
    BY Zenon DEF Roots
  <2>3. LedgerIsLinear'
    BY <1>2, <1>u, Zenon DEF DbInv, LedgerIsLinear
  <2> QED BY <1>2, <1>u, <1>9, <1>10, <1>12, <2>1, <2>2, <2>3, SMTT(30) DEF DbInv
<1>15. RootInv'
  <2>1. \A e \in Blocks : outcome[e] = "new" => Id(e) # o
    BY <1>3, Names, Zenon DEF o
  <2> QED BY <1>2, <1>u, <1>9, <1>12, <2>1, Zenon DEF RootInv
<1>16. CallInv(c)'
  <2>1. OwnsBlock(c)'
    BY <1>1, <1>u, <1>9, <1>12, Zenon DEF OwnsBlock
  <2>2. FindsBlock(c)'
    BY <1>0, <1>1, <1>u, <1>5, <1>6, ZenonT(40) DEF FindsBlock, Moves, o, p, b
  <2>3. CountsVersions(c)'
    BY <1>3, <1>5, <1>7, <1>10 DEF CountsVersions, Moves, Executed, o, p, b
  <2>4. Undisturbed(c)'
    BY <1>1, <1>u, <1>5, <1>12, Zenon DEF Undisturbed, Moves
  <2> QED BY <2>1, <2>2, <2>3, <2>4, Zenon DEF CallInv
<1>17. ASSUME NEW d \in Callers \ {c}, Running(d)
       PROVE  CallInv(d)'
  <2>1. /\ OwnsBlock(d) /\ FindsBlock(d) /\ CountsVersions(d) /\ Undisturbed(d)
        /\ call[d].parent \in Ids
    BY <1>17, CallParts, Zenon
  <2>2. /\ call'[d] = call[d] /\ held'[d] = held[d]
        /\ call[d].blk \in Blocks /\ call[d].blk # b /\ Id(call[d].blk) # o
        /\ call[d].parent \in Roots /\ call[d].parent # o
    BY <1>3, <1>5, <1>6, <2>1, Names, Zenon DEF Moves, OwnsBlock, b, o
  <2>3. OwnsBlock(d)'
    BY <1>u, <1>9, <1>12, <2>1, Zenon DEF OwnsBlock
  <2>4. FindsBlock(d)'
    BY <1>u, <2>1, <2>2, ZenonT(40) DEF FindsBlock
  <2>5. CountsVersions(d)'
    <3>1. \A e \in Callers : At(e, "saving")' <=> At(e, "saving")
      BY <1>0, <1>5, Zenon DEF Moves
    <3> QED BY <1>u, <1>9, <1>10, <1>11, <2>1, <2>2, <3>1, SMTT(30) DEF CountsVersions
  <2>6. Undisturbed(d)'
    BY <1>u, <1>12, <2>1, <2>2, Zenon DEF Undisturbed
  <2> QED BY <2>3, <2>4, <2>5, <2>6, Zenon DEF CallInv
<1> QED BY <1>8, <1>12, <1>13, <1>14, <1>15, <1>16, <1>17, Zenon DEF TreeInv, CallInv

LEMMA AddChildStep ==
  ASSUME TreeInv, NEW c \in Callers, AddChild(c)
  PROVE  TreeInv'
<1> DEFINE o == Id(call[c].blk)
           p == call[c].parent
<1>0. At(c, "link")
  BY Zenon DEF AddChild
<1>r. Running(c) /\ ~At(c, "prune")
  BY <1>0, Zenon
<1>1. /\ TypeOK /\ OwnsBlock(c) /\ FindsBlock(c) /\ CountsVersions(c) /\ Undisturbed(c)
      /\ o \in Ids /\ p \in Ids
  BY <1>r, CallParts, Zenon
<1>2. DbInv /\ RootInv /\ IdleInv /\ Outcomes
  BY GlobalParts, Zenon
<1>3. /\ children' = [children EXCEPT ![p] = @ \cup {o}]
      /\ Keep(c, {}) /\ Goto(c, "refind")
  BY Zenon DEF AddChild
<1>u. UNCHANGED <<root, lookup, version, garbage, db, epoch, built, outcome, onto, together>>
  BY Zenon DEF AddChild, ledger, history
<1>4. Moves(c, "refind")
  BY <1>1, <1>3, GotoMoves, Zenon DEF Steps
<1>5. /\ held' \in [Callers -> SUBSET Ids]
      /\ \A d \in Callers \ {c} : held'[d] = held[d]
  BY <1>1, <1>3, KeepType, Zenon
<1>6. /\ children' \in [Ids -> SUBSET Ids] /\ o \in children'[p]
      /\ \A x \in Ids : children[x] \subseteq children'[x]
  BY <1>1, <1>3, ZenonT(40) DEF TypeOK
<1> HIDE DEF o, p
<1>7. TypeOK'
  BY <1>1, <1>u, <1>4, <1>5, <1>6, Zenon DEF TypeOK, Moves, Calls
<1>8. /\ Committed' = Committed /\ Roots' = Roots /\ LastRoot' = LastRoot
      /\ DbVersion' = DbVersion
  BY <1>u, Zenon DEF Committed, Roots, LastRoot, DbVersion
<1>9. \A d \in Callers : /\ Running(d)' <=> Running(d)
                         /\ At(d, "prune")' <=> At(d, "prune")
                         /\ At(d, "saving")' <=> At(d, "saving")
                         /\ call'[d].blk = call[d].blk /\ call'[d].parent = call[d].parent
  BY <1>0, <1>4, Zenon DEF Moves
<1>10. Outcomes' /\ IdleInv' /\ RootInv'
  BY <1>2, <1>u, <1>8, <1>9, ZenonT(40) DEF Outcomes, LoneCallSucceeds, IdleInv, RootInv
<1>11. DbInv'
  BY <1>2, <1>u, <1>8, <1>9, SMTT(30) DEF DbInv, LedgerIsLinear
<1>12. CallInv(c)'
  <2>1. OwnsBlock(c)'
    BY <1>1, <1>u, <1>8, <1>9, Zenon DEF OwnsBlock
  <2>2. FindsBlock(c)'
    BY <1>0, <1>1, <1>u, <1>4, <1>6, Zenon DEF FindsBlock, Moves, o, p
  <2>3. CountsVersions(c)'
    BY <1>0, <1>1, <1>u, <1>4, Zenon DEF CountsVersions, Moves, Executed
  <2>4. Undisturbed(c)'
    BY <1>1, <1>u, <1>4, <1>9, Zenon DEF Undisturbed, Moves
  <2> QED BY <2>1, <2>2, <2>3, <2>4, Zenon DEF CallInv
<1>13. ASSUME NEW d \in Callers \ {c}, Running(d)
       PROVE  CallInv(d)'
  <2>1. /\ OwnsBlock(d) /\ FindsBlock(d) /\ CountsVersions(d) /\ Undisturbed(d)
        /\ call[d].parent \in Ids
    BY <1>13, CallParts, Zenon
  <2>2. call'[d] = call[d] /\ held'[d] = held[d]
    BY <1>4, <1>5, Zenon DEF Moves
  <2>3. OwnsBlock(d)'
    BY <1>u, <1>8, <1>9, <2>1, Zenon DEF OwnsBlock
  <2>4. FindsBlock(d)'
    BY <1>u, <1>6, <2>1, <2>2, Zenon DEF FindsBlock
  <2>5. CountsVersions(d)'
    BY <1>u, <1>8, <1>9, <2>1, <2>2, Zenon DEF CountsVersions
  <2>6. Undisturbed(d)'
    BY <1>u, <1>9, <2>1, <2>2, Zenon DEF Undisturbed
  <2> QED BY <2>3, <2>4, <2>5, <2>6, Zenon DEF CallInv
<1> QED BY <1>7, <1>9, <1>10, <1>11, <1>12, <1>13, Zenon DEF TreeInv, CallInv

-----------------------------------------------------------------------------
(* Steps that change the database or the root. *)

\* A version names one root: the one that has the version of the database is the root of
\* the last block saved, and that block is committed.
LEMMA VersionNamesRoot ==
  ASSUME TreeInv, NEW r \in Roots, version[r] = DbVersion
  PROVE  r = LastRoot /\ (db # <<>> => db[Len(db)] \in Committed)
<1>1. DbInv /\ TypeOK
  BY GlobalParts, Zenon
<1>2. db \in Seq(Blocks) /\ Len(db) \in Nat /\ DOMAIN db = 1..Len(db)
  BY <1>1 DEF TypeOK
<1>3. \A k \in DOMAIN db : version[Id(db[k])] \in Nat
  <2>1. \A k \in DOMAIN db : db[k] \in Blocks
    BY <1>1 DEF TypeOK
  <2> QED BY <1>1, <2>1, Names, Numbers, Zenon
<1>4. CASE db = <<>>
  <2>1. Committed = {}
    BY <1>1, <1>2, <1>4 DEF DbInv
  <2> QED BY <1>4, <2>1, Zenon DEF Roots, LastRoot
<1>5. CASE db # <<>>
  <2> DEFINE n == Len(db)
  <2>1. n \in DOMAIN db
    BY <1>2, <1>5
  <2>2. version[r] = version[Id(db[n])] /\ version[Id(db[n])] > 0
    BY <1>1, <1>5, <2>1, Zenon DEF DbVersion, DbInv
  <2>3. r # Id(Genesis)
    BY <1>1, <2>2 DEF DbInv
  <2>4. PICK b \in Committed : r = RootOf(b)
    BY <2>3, Zenon DEF Roots
  <2>5. PICK k \in DOMAIN db : db[k] = b
    BY <1>1, <2>4, Zenon DEF DbInv
  <2>6. version[Id(db[k])] = version[Id(db[n])]
    BY <1>1, <2>2, <2>4, <2>5, Zenon DEF DbInv
  <2>7. ~(k < n)
    BY <1>1, <1>3, <2>1, <2>5, <2>6, SMTT(30) DEF DbInv
  <2>8. k = n
    BY <1>2, <2>5, <2>7
  <2> QED BY <1>5, <2>4, <2>5, <2>8, Zenon DEF LastRoot
<1> QED BY <1>4, <1>5, Zenon

\* A call whose block is of an earlier epoch ends here.
LEMMA EpochGapStep ==
  ASSUME TreeInv, NEW c \in Callers, SaveEnds(c), built[call[c].blk] # epoch
  PROVE  TreeInv'
<1>1. At(c, "saving") /\ Ends(c, "gap")
  BY Zenon DEF SaveEnds
<1>2. Running(c) /\ ~At(c, "prune")
  BY <1>1, Zenon
<1>3. call[c].blk \in Blocks
  BY <1>2, OwnBlock, Zenon
<1>4. built[call[c].blk] < epoch
  <2>1. built[call[c].blk] <= epoch /\ built[call[c].blk] \in Nat /\ epoch \in Nat
    BY <1>3, GlobalParts, Zenon DEF Outcomes, TypeOK
  <2> QED BY <2>1
<1> QED BY <1>1, <1>2, <1>4, EndStep, Zenon DEF Failures

LEMMA SaveEndsStep ==
  ASSUME TreeInv, NEW c \in Callers, SaveEnds(c), built[call[c].blk] = epoch
  PROVE  TreeInv'
<1> DEFINE b == call[c].blk
           o == Id(b)
           p == call[c].parent
           seen == call[c].seen
           n == Len(db)
<1>0. At(c, "saving")
  BY Zenon DEF SaveEnds
<1>r. Running(c) /\ ~At(c, "prune")
  BY <1>0, Zenon
<1>1. /\ TypeOK /\ OwnsBlock(c) /\ CountsVersions(c) /\ Undisturbed(c)
      /\ o \in Ids /\ p \in Ids /\ seen \in Ids
  BY <1>r, CallParts, Zenon
<1>2. DbInv /\ RootInv /\ IdleInv /\ Outcomes
  BY GlobalParts, Zenon
<1>3. db' = Append(db, b) /\ Keep(c, {o}) /\ Goto(c, "prune")
  BY Zenon DEF SaveEnds
<1>u. UNCHANGED <<root, children, lookup, version, garbage, built, outcome, onto, together>>
  BY Zenon DEF SaveEnds, history, tree
<1>e. epoch' \in Nat /\ epoch <= epoch' /\ epoch \in Nat
  <2>1. epoch \in Nat /\ epoch' = IF b \in Reconfig THEN epoch + 1 ELSE epoch
    BY <1>1, Zenon DEF SaveEnds, TypeOK
  <2> HIDE DEF b
  <2> QED BY <2>1
<1>4. Moves(c, "prune")
  BY <1>1, <1>3, GotoMoves, Zenon DEF Steps
<1>5. /\ held' \in [Callers -> SUBSET Ids]
      /\ \A d \in Callers \ {c} : held'[d] = held[d]
  BY <1>1, <1>3, KeepType, ZenonT(40)
<1>6. /\ b \in Blocks /\ p \in Roots /\ seen \in Roots /\ onto[b] = p
      /\ \A d \in Callers \ {c} : call[d].blk # b
  BY <1>0, <1>1, Zenon DEF OwnsBlock, CountsVersions
<1>7. /\ db \in Seq(Blocks) /\ n \in Nat /\ DOMAIN db = 1..n
      /\ db' \in Seq(Blocks) /\ Len(db') = n + 1 /\ DOMAIN db' = 1..(n + 1)
      /\ db'[n + 1] = b /\ \A k \in 1..n : db'[k] = db[k] /\ db[k] \in Blocks
  BY <1>1, <1>3, <1>6, SMTT(30) DEF TypeOK
\* The block was executed on the last root: the two counts and the version agree.
<1>8. /\ version[p] \in Nat /\ Size[b] \in Nat /\ Size[b] > 0 /\ version[o] \in Nat
      /\ version[p] = DbVersion /\ version[o] = DbVersion + Size[b]
  <2>1. /\ version[p] \in Nat /\ version[seen] \in Nat /\ version[o] \in Nat
        /\ Size[b] \in Nat /\ Size[b] > 0
    BY <1>1, <1>6, Numbers, Zenon
  <2>2. /\ version[o] = version[p] + Size[b] /\ version[seen] + Size[b] = version[o]
        /\ version[seen] = DbVersion
    BY <1>0, <1>1, Zenon DEF CountsVersions, Executed
  <2> QED BY <2>1, <2>2
<1>9. p = LastRoot /\ (db # <<>> => db[n] \in Committed)
  BY <1>6, <1>8, VersionNamesRoot, Zenon
<1> HIDE DEF b, o, p, seen, n
<1>10. TypeOK'
  BY <1>1, <1>u, <1>e, <1>4, <1>5, <1>7, Zenon DEF TypeOK, Moves, Calls
<1>11. Committed' = Committed /\ Roots' = Roots
  BY <1>u, Zenon DEF Committed, Roots
<1>12. \A d \in Callers : /\ Running(d)' <=> Running(d)
                          /\ call'[d].blk = call[d].blk /\ call'[d].parent = call[d].parent
                          /\ d # c => call'[d] = call[d] /\ held'[d] = held[d]
  BY <1>r, <1>4, <1>5, Zenon DEF Moves
<1>13. call'[c].pc = "prune"
  BY <1>4, Zenon DEF Moves
<1>14. Outcomes' /\ IdleInv'
  <2>1. \A e \in Blocks : built[e] \in Nat
    BY <1>1, Zenon DEF TypeOK
  <2>2. \A e \in Blocks : /\ built[e] <= epoch => built[e] <= epoch'
                          /\ built[e] < epoch => built[e] < epoch'
    BY <1>e, <2>1
  <2>3. Outcomes'
    BY <1>2, <1>u, <2>2, Zenon DEF Outcomes, LoneCallSucceeds
  <2> QED BY <1>2, <1>12, <2>3, Zenon DEF IdleInv
<1>15. RootInv'
  BY <1>2, <1>u, <1>11, <1>13, Zenon DEF RootInv
<1>16. DbInv'
  <2>1. \A k \in 1..n : /\ version[Id(db[k])] \in Nat /\ version[Id(db[k])] > 0
                        /\ version[Id(db[k])] <= DbVersion
    <3> SUFFICES ASSUME NEW k \in 1..n
                 PROVE  /\ version[Id(db[k])] \in Nat /\ version[Id(db[k])] > 0
                        /\ version[Id(db[k])] <= DbVersion
      OBVIOUS
    <3>1. n \in 1..n /\ n \in DOMAIN db /\ k \in DOMAIN db /\ db # <<>>
      BY <1>7
    <3>2. /\ version[Id(db[k])] \in Nat /\ version[Id(db[k])] > 0
          /\ version[Id(db[n])] \in Nat
      BY <1>1, <1>2, <1>7, <3>1, Names, Numbers, Zenon DEF DbInv
    <3>3. DbVersion = version[Id(db[n])]
      BY <3>1, Zenon DEF DbVersion, n
    <3>4. CASE k = n
      BY <3>2, <3>3, <3>4, SMTT(30)
    <3>5. CASE k < n
      BY <1>2, <3>1, <3>2, <3>3, <3>5, SMTT(30) DEF DbInv
    <3> QED BY <1>7, <3>4, <3>5, SMTT(30)
  <2>2. DbVersion \in Nat
    <3>1. DbVersion = version[p] /\ version[p] \in Nat
      BY <1>8, Zenon
    <3> QED BY <3>1, Zenon
  <2>3. ASSUME NEW k \in 1..(n + 1)
        PROVE  /\ version[Id(db'[k])] > 0
               /\ \/ db'[k] \in Committed
                  \/ \E d \in Callers : At(d, "prune")' /\ call'[d].blk = db'[k]
    <3>1. CASE k \in 1..n
      <4>1. k \in DOMAIN db /\ db'[k] = db[k]
        BY <1>7, <3>1, Zenon
      <4>2. ASSUME NEW d \in Callers, At(d, "prune"), call[d].blk = db[k]
            PROVE  At(d, "prune")' /\ call'[d].blk = db[k]
        BY <1>r, <1>12, <4>2, Zenon
      <4> QED BY <1>2, <2>1, <4>1, <4>2, SMTT(30) DEF DbInv
    <3>2. CASE k = n + 1
      <4>1. db'[k] = b /\ Id(db'[k]) = o
        BY <1>7, <3>2, Zenon DEF o
      <4>2. version[o] > 0
        BY <1>8, <2>2
      <4>3. call'[c].blk = b
        BY <1>12, Zenon DEF b
      <4> QED BY <1>13, <4>1, <4>2, <4>3, Zenon
    <3>3. k \in 1..n \/ k = n + 1
      BY <1>7
    <3> QED BY <3>1, <3>2, <3>3, ZenonT(40)
  <2>4. ASSUME NEW j \in 1..(n + 1), NEW k \in 1..(n + 1), j < k
        PROVE  version[Id(db'[j])] < version[Id(db'[k])]
    <3>1. j \in 1..n /\ j \in DOMAIN db /\ db'[j] = db[j]
      BY <1>7, <2>4
    <3>2. CASE k \in 1..n
      <4>1. k \in DOMAIN db /\ db'[k] = db[k]
        BY <1>7, <3>2, Zenon
      <4> QED BY <1>2, <2>4, <3>1, <4>1, Zenon DEF DbInv
    <3>3. CASE k = n + 1
      <4>1. Id(db'[k]) = o
        BY <1>7, <3>3, Zenon DEF o
      <4>2. version[Id(db[j])] \in Nat /\ version[Id(db[j])] <= DbVersion
        BY <2>1, <3>1, Zenon
      <4>3. version[Id(db[j])] < version[o]
        BY <1>8, <2>2, <4>2, SMTT(30)
      <4> QED BY <3>1, <4>1, <4>3, Zenon
    <3>4. k \in 1..n \/ k = n + 1
      BY <1>7
    <3> QED BY <3>2, <3>3, <3>4, Zenon
  <2>5. ASSUME NEW e \in Committed
        PROVE  (\E k \in 1..(n + 1) : db'[k] = e) /\ version[RootOf(e)] = version[Id(e)]
    <3>1. PICK k \in DOMAIN db : db[k] = e
      BY <1>2, Zenon DEF DbInv
    <3>2. k \in 1..(n + 1) /\ db'[k] = e
      BY <1>7, <3>1
    <3> QED BY <1>2, <3>2, Zenon DEF DbInv
  <2>6. ASSUME NEW k \in 1..(n + 1)
        PROVE  onto[db'[k]] = IF k = 1 THEN Id(Genesis) ELSE RootOf(db'[k - 1])
    <3>1. CASE k \in 1..n
      <4>1. db'[k] = db[k] /\ k \in DOMAIN db
        BY <1>7, <3>1, Zenon
      <4>2. k # 1 => db'[k - 1] = db[k - 1]
        BY <1>7, <3>1
      <4>3. LedgerIsLinear
        BY <1>2, Zenon DEF DbInv
      <4> QED BY <4>1, <4>2, <4>3, Zenon DEF LedgerIsLinear
    <3>2. CASE k = n + 1
      <4>1. onto[db'[k]] = LastRoot
        BY <1>6, <1>7, <1>9, <3>2, Zenon
      <4>2. CASE n = 0
        <5>1. db = <<>> /\ k = 1
          BY <1>7, <3>2, <4>2 DEF n
        <5> QED BY <4>1, <5>1, Zenon DEF LastRoot
      <4>3. CASE n # 0
        <5>1. db # <<>> /\ k # 1 /\ k - 1 = n /\ n \in 1..n
          BY <1>7, <3>2, <4>3 DEF n
        <5>2. db'[k - 1] = db[n]
          BY <1>7, <5>1, Zenon
        <5> QED BY <4>1, <5>1, <5>2, Zenon DEF LastRoot, n
      <4> QED BY <4>2, <4>3, Zenon
    <3>3. k \in 1..n \/ k = n + 1
      BY <1>7
    <3> QED BY <3>1, <3>2, <3>3, Zenon
  <2>7. LedgerIsLinear'
    BY <1>u, <1>7, <2>6, Zenon DEF LedgerIsLinear
  <2>8. version[Id(Genesis)] = 0
    BY <1>2, Zenon DEF DbInv
  <2> QED BY <1>u, <1>7, <1>11, <2>3, <2>4, <2>5, <2>7, <2>8, ZenonT(40) DEF DbInv
<1>17. CallInv(c)'
  <2>1. OwnsBlock(c)'
    BY <1>1, <1>u, <1>11, <1>12, Zenon DEF OwnsBlock
  <2>2. FindsBlock(c)'
    BY <1>13, Zenon DEF FindsBlock
  <2>3. CountsVersions(c)'
    <3>1. version[o] = version[p] + Size[b]
      BY <1>8, Zenon
    <3>2. db' # <<>> /\ db'[Len(db')] = b
      BY <1>7
    <3> QED BY <1>u, <1>12, <1>13, <3>1, <3>2, Zenon DEF CountsVersions, o, p, b
  <2>4. Undisturbed(c)'
    BY <1>1, <1>u, <1>12, <1>13, Zenon DEF Undisturbed
  <2> QED BY <2>1, <2>2, <2>3, <2>4, Zenon DEF CallInv
<1>18. ASSUME NEW d \in Callers \ {c}, Running(d)
       PROVE  CallInv(d)'
  <2>1. OwnsBlock(d) /\ FindsBlock(d) /\ CountsVersions(d) /\ Undisturbed(d)
    BY <1>18, CallParts, Zenon
  <2>2. call'[d] = call[d] /\ held'[d] = held[d]
    BY <1>12, Zenon
  <2>3. OwnsBlock(d)'
    BY <1>u, <1>11, <1>12, <2>1, Zenon DEF OwnsBlock
  <2>4. FindsBlock(d)'
    BY <1>u, <2>1, <2>2, Zenon DEF FindsBlock
  <2>5. ~At(d, "saving")
    BY <1>0, <1>1, Zenon DEF CountsVersions
  <2>6. ~At(d, "prune")
    <3>1. ASSUME At(d, "prune") PROVE FALSE
      <4>1. db # <<>> /\ db[n] = call[d].blk
        BY <2>1, <3>1, Zenon DEF CountsVersions, n
      <4>2. call[d].blk \notin Committed
        BY <1>18, OwnBlock, Zenon
      <4> QED BY <1>9, <4>1, <4>2, Zenon
    <3> QED BY <3>1, Zenon
  <2>7. CountsVersions(d)'
    BY <1>u, <1>11, <2>1, <2>2, <2>5, <2>6, Zenon DEF CountsVersions
  <2>8. Undisturbed(d)'
    BY <1>u, <1>12, <2>1, <2>2, Zenon DEF Undisturbed
  <2> QED BY <2>3, <2>4, <2>7, <2>8, Zenon DEF CallInv
<1> QED BY <1>10, <1>12, <1>14, <1>15, <1>16, <1>17, <1>18, Zenon DEF TreeInv, CallInv

LEMMA PruneStep ==
  ASSUME TreeInv, NEW c \in Callers, Prune(c)
  PROVE  TreeInv'
<1> DEFINE b == call[c].blk
           o == Id(b)
           new == RootOf(b)
<1>0. At(c, "prune")
  BY Zenon DEF Prune
<1>r. Running(c)
  BY <1>0, Zenon
<1>1. TypeOK /\ OwnsBlock(c) /\ CountsVersions(c) /\ Undisturbed(c) /\ o \in Ids
  BY <1>r, CallParts, Zenon
<1>2. DbInv /\ RootInv /\ IdleInv /\ Outcomes
  BY GlobalParts, Zenon
<1>3. /\ b \in Blocks /\ b # Genesis /\ new \in Ids
      /\ \A r \in Roots : r # o /\ r # new
      /\ \A d \in Callers \ {c} : call[d].blk # b
      /\ db # <<>> /\ db[Len(db)] = b /\ Len(db) \in DOMAIN db
  <2>1. /\ b \in Blocks /\ \A r \in Roots : r # o /\ r # new
        /\ \A d \in Callers \ {c} : call[d].blk # b
    BY <1>r, OwnBlock, Zenon
  <2>2. db # <<>> /\ db[Len(db)] = b
    BY <1>0, <1>1, Zenon DEF CountsVersions
  <2>3. Len(db) \in DOMAIN db
    BY <1>1, <2>2 DEF TypeOK
  <2>4. b # Genesis /\ new \in Ids
    BY <2>1, BlockTreeAssumption, Names, Zenon
  <2> QED BY <2>1, <2>2, <2>3, <2>4, Zenon
<1>4. /\ version' = [version EXCEPT ![new] = version[o]]
      /\ call' = [call EXCEPT ![c] = Idle] /\ Keep(c, {})
      /\ outcome' = [outcome EXCEPT ![b] = "committed"]
  BY Zenon DEF Prune
<1>u. /\ root' = new /\ lookup' = lookup \cup {new} /\ garbage' = garbage \cup {root}
      /\ UNCHANGED <<children, db, epoch, built, onto, together>>
  BY Zenon DEF Prune, ledger
<1>5. /\ call' \in [Callers -> Calls] /\ call'[c].pc = "idle" /\ call'[c].blk = Genesis
      /\ \A d \in Callers \ {c} : call'[d] = call[d]
  BY <1>1, <1>4, CallTypes, IdleType, Zenon
<1>6. /\ held' \in [Callers -> SUBSET Ids]
      /\ \A d \in Callers \ {c} : held'[d] = held[d]
  BY <1>1, <1>4, KeepType, Zenon
<1>7. /\ version' \in [Ids -> Nat] /\ version'[new] = version[o]
      /\ \A x \in Ids \ {new} : version'[x] = version[x]
  <2>1. version \in [Ids -> Nat] /\ version[o] \in Nat
    BY <1>1, Numbers, Zenon DEF TypeOK
  <2> QED BY <1>3, <1>4, <2>1, Zenon
<1>8. /\ outcome' \in [Blocks -> {"new", "running", "committed", "aborted", "retry", "error",
                              "panic", "gap"}]
      /\ outcome'[b] = "committed" /\ \A e \in Blocks \ {b} : outcome'[e] = outcome[e]
  BY <1>1, <1>3, <1>4, Zenon DEF TypeOK
<1>9. \A e \in Blocks \cup {Genesis} : Id(e) \in Ids /\ (Id(e) = new => e = b)
  BY Names, Zenon
<1> HIDE DEF o, b, new
<1>10. TypeOK'
  BY <1>1, <1>u, <1>3, <1>5, <1>6, <1>7, <1>8, Zenon DEF TypeOK, Calls
<1>11. Committed' = Committed \cup {b} /\ Roots' = Roots \cup {new}
  <2>1. Committed' = Committed \cup {b}
    BY <1>3, <1>8, Zenon DEF Committed
  <2> QED BY <2>1, Zenon DEF Roots, new
\* The new root takes the block's version; no other version changes.
<1>12. /\ \A x \in Roots : version'[x] = version[x]
       /\ \A e \in Blocks \cup {Genesis} : version'[Id(e)] = version[Id(e)]
  <2>1. \A x \in Roots : version'[x] = version[x]
    BY <1>1, <1>3, <1>7, RootTypes, Zenon
  <2>2. ASSUME NEW e \in Blocks \cup {Genesis} PROVE version'[Id(e)] = version[Id(e)]
    <3>1. CASE Id(e) = new
      BY <1>7, <1>9, <3>1, Zenon DEF o
    <3>2. CASE Id(e) # new
      BY <1>7, <1>9, <3>2, Zenon
    <3> QED BY <3>1, <3>2, Zenon
  <2> QED BY <2>1, <2>2, Zenon
<1>13. \A k \in DOMAIN db : db[k] \in Blocks /\ version'[Id(db[k])] = version[Id(db[k])]
  <2>1. \A k \in DOMAIN db : db[k] \in Blocks
    BY <1>1 DEF TypeOK
  <2> QED BY <1>12, <2>1, Zenon
<1>14. DbVersion' = DbVersion /\ LastRoot' = new
  BY <1>u, <1>3, <1>13, Zenon DEF DbVersion, LastRoot, new
<1>15. \A d \in Callers : Running(d)' <=> Running(d) /\ d # c
  BY <1>5, Zenon
<1>16. Outcomes'
  BY <1>2, <1>u, <1>8, Zenon DEF Outcomes, LoneCallSucceeds
<1>17. IdleInv'
  BY <1>2, <1>5, <1>15, Zenon DEF IdleInv
<1>18. RootInv'
  <2>1. \A e \in Blocks : outcome'[e] = "new" => outcome[e] = "new" /\ Id(e) # new
    BY <1>8, <1>9, Zenon
  <2> QED BY <1>2, <1>u, <1>11, <1>14, <2>1, Zenon DEF RootInv
<1>19. DbInv'
  <2>1. ASSUME NEW k \in DOMAIN db
        PROVE  \/ db[k] \in Committed'
               \/ \E d \in Callers : At(d, "prune")' /\ call'[d].blk = db[k]
    <3>1. CASE db[k] \in Committed
      BY <1>11, <3>1, Zenon
    <3>2. ASSUME NEW d \in Callers, At(d, "prune"), call[d].blk = db[k]
          PROVE  \/ db[k] \in Committed'
                 \/ \E e \in Callers : At(e, "prune")' /\ call'[e].blk = db[k]
      <4>1. CASE d = c
        BY <1>11, <3>2, <4>1, Zenon DEF b
      <4>2. CASE d # c
        BY <1>5, <3>2, <4>2, Zenon
      <4> QED BY <4>1, <4>2, Zenon
    <3> QED BY <1>2, <3>1, <3>2, Zenon DEF DbInv
  <2>2. ASSUME NEW e \in Committed'
        PROVE  (\E k \in DOMAIN db : db[k] = e) /\ version'[RootOf(e)] = version'[Id(e)]
    <3>1. CASE e \in Committed
      <4>1. RootOf(e) \in Roots /\ e \in Blocks
        BY <3>1, Zenon DEF Roots, Committed
      <4> QED BY <1>2, <1>12, <3>1, <4>1, Zenon DEF DbInv
    <3>2. CASE e = b
      <4>1. version'[new] = version[o] /\ version'[o] = version[o]
        BY <1>3, <1>7, <1>12, Zenon DEF o
      <4> QED BY <1>3, <3>2, <4>1, Zenon DEF o, new
    <3> QED BY <1>11, <3>1, <3>2, Zenon
  <2>3. version'[Id(Genesis)] = 0 /\ LedgerIsLinear'
    BY <1>2, <1>u, <1>12, Zenon DEF DbInv, LedgerIsLinear
  <2>4. \A k \in DOMAIN db : version'[Id(db[k])] > 0
    BY <1>2, <1>13, Zenon DEF DbInv
  <2>5. \A j \in DOMAIN db, k \in DOMAIN db :
          j < k => version'[Id(db[j])] < version'[Id(db[k])]
    BY <1>2, <1>13, Zenon DEF DbInv
  <2>6. db' = db
    BY <1>u, Zenon
  <2> QED BY <2>1, <2>2, <2>3, <2>4, <2>5, <2>6, Zenon DEF DbInv
<1>20. ASSUME NEW d \in Callers \ {c}, Running(d)
       PROVE  CallInv(d)'
  <2>1. /\ OwnsBlock(d) /\ FindsBlock(d) /\ CountsVersions(d) /\ Undisturbed(d)
    BY <1>20, CallParts, Zenon
  <2>2. /\ call'[d] = call[d] /\ held'[d] = held[d]
        /\ call[d].blk \in Blocks /\ call[d].blk # b /\ Id(call[d].blk) # new
        /\ call[d].parent \in Roots /\ call[d].parent # new
    BY <1>3, <1>5, <1>6, <1>9, <2>1, Zenon DEF OwnsBlock
  <2>3. \A e \in Callers : call'[e].blk = call[d].blk => e = d
    <3>1. Genesis # call[d].blk
      BY <2>2, BlockTreeAssumption, Zenon
    <3> QED BY <1>5, <2>1, <3>1, Zenon DEF OwnsBlock
  <2>4. OwnsBlock(d)'
    BY <1>u, <1>8, <1>11, <2>1, <2>2, <2>3, Zenon DEF OwnsBlock
  <2>5. FindsBlock(d)'
    BY <1>u, <2>1, <2>2, Zenon DEF FindsBlock
  <2>6. CountsVersions(d)'
    <3>1. \A e \in Callers : At(e, "saving")' => At(e, "saving")
      BY <1>5, Zenon
    <3>2. version'[Id(call[d].blk)] = version[Id(call[d].blk)]
      BY <1>12, <2>2, Zenon
    <3> QED BY <1>u, <1>11, <1>12, <1>14, <2>1, <2>2, <3>1, <3>2, ZenonT(40) DEF CountsVersions
  <2>7. Undisturbed(d)'
    BY <1>u, <1>r, <2>1, <2>2, Zenon DEF Undisturbed
  <2> QED BY <2>4, <2>5, <2>6, <2>7, Zenon DEF CallInv
<1> QED BY <1>10, <1>15, <1>16, <1>17, <1>18, <1>19, <1>20, Zenon DEF TreeInv, CallInv

\* The threads that drop blocks touch the table, the links and the old roots only.
LEMMA DropsStep ==
  ASSUME TreeInv, NEW o \in Ids, DropStep(o)
  PROVE  TreeInv'
<1>1. TypeOK /\ DbInv /\ RootInv /\ IdleInv /\ Outcomes
  BY GlobalParts, Zenon
<1>u. UNCHANGED <<root, version, held, call, db, epoch, built, outcome, onto, together>>
  BY Zenon DEF DropStep, DropOldRoot, Drop, DropChild, ledger, history
<1>2. /\ Committed' = Committed /\ Roots' = Roots /\ LastRoot' = LastRoot
      /\ DbVersion' = DbVersion
  BY <1>u, Zenon DEF Committed, Roots, LastRoot, DbVersion
<1>3. /\ lookup' \subseteq lookup /\ garbage' \subseteq garbage
      /\ children' \in [Ids -> SUBSET Ids]
  <2>1. children \in [Ids -> SUBSET Ids]
    BY <1>1, Zenon DEF TypeOK
  <2>2. ASSUME NEW k \in Ids, DropChild(o, k)
        PROVE  lookup' = lookup /\ garbage' = garbage /\ children' \in [Ids -> SUBSET Ids]
    BY <2>1, <2>2, Zenon DEF DropChild
  <2> QED BY <2>1, <2>2, Zenon DEF DropStep, DropOldRoot, Drop
\* What leaves the table has no reference left, and what loses its children has left it.
<1>4. /\ \A x \in lookup : Strong(x) => x \in lookup'
      /\ \A x \in lookup \cap Ids : children'[x] = children[x]
      /\ lookup' = lookup \/ LockFree
  <2>1. CASE DropOldRoot(o)
    BY <2>1, Zenon DEF DropOldRoot
  <2>2. CASE Drop(o)
    BY <2>2, Zenon DEF Drop
  <2>3. ASSUME NEW k \in Ids, DropChild(o, k)
        PROVE  lookup' = lookup /\ \A x \in lookup \cap Ids : children'[x] = children[x]
    BY <1>1, <2>3, Zenon DEF DropChild, TypeOK
  <2> QED BY <2>1, <2>2, <2>3, Zenon DEF DropStep
<1>5. TypeOK'
  BY <1>1, <1>u, <1>3, Zenon DEF TypeOK
<1>6. DbInv' /\ IdleInv' /\ Outcomes'
  BY <1>1, <1>u, <1>2 DEF DbInv, IdleInv, Outcomes, LoneCallSucceeds, LedgerIsLinear
<1>7. RootInv'
  <2>1. root \in lookup'
    BY <1>1, <1>4, Zenon DEF RootInv, Strong
  <2> QED BY <1>1, <1>u, <1>2, <1>3, <2>1, Zenon DEF RootInv
<1>8. ASSUME NEW d \in Callers, Running(d)
      PROVE  CallInv(d)'
  <2>1. /\ OwnsBlock(d) /\ FindsBlock(d) /\ CountsVersions(d) /\ Undisturbed(d)
        /\ Id(call[d].blk) \in Ids /\ call[d].parent \in Ids
    BY <1>8, CallParts, Zenon
  <2>2. OwnsBlock(d)' /\ CountsVersions(d)' /\ Undisturbed(d)'
    BY <1>u, <1>2, <2>1, Zenon DEF OwnsBlock, CountsVersions, Undisturbed
  <2>3. FindsBlock(d)'
    <3> DEFINE x == Id(call[d].blk)
               p == call[d].parent
    <3>1. x \in held[d] => Strong(x)
      BY Zenon DEF Strong
    <3>2. p \in held[d] => Strong(p)
      BY Zenon DEF Strong
    <3>3. x \in children[p] => Strong(x)
      BY <2>1, Zenon DEF Strong
    <3>4. p \in lookup => children'[p] = children[p]
      BY <1>4, <2>1, Zenon
    <3> HIDE DEF x, p
    <3> QED BY <1>u, <1>3, <1>4, <2>1, <3>1, <3>2, <3>3, <3>4, Zenon DEF FindsBlock, x, p
  <2> QED BY <2>2, <2>3, Zenon DEF CallInv
<1> QED BY <1>u, <1>5, <1>6, <1>7, <1>8, Zenon DEF TreeInv, CallInv

-----------------------------------------------------------------------------
(* The theorems. *)

LEMMA InitTree == Init => TreeInv
<1> SUFFICES ASSUME Init PROVE TreeInv
  OBVIOUS
<1>1. /\ root = Id(Genesis) /\ lookup = {root} /\ garbage = {} /\ db = <<>> /\ together = {}
      /\ epoch = 0 /\ built = [b \in Blocks |-> 0]
      /\ children = [o \in Ids |-> {}] /\ version = [o \in Ids |-> 0]
      /\ held = [c \in Callers |-> {}] /\ call = [c \in Callers |-> Idle]
      /\ outcome = [b \in Blocks |-> "new"] /\ onto = [b \in Blocks |-> Id(Genesis)]
  BY Zenon DEF Init
<1>2. Id(Genesis) \in Ids
  BY Names, Zenon
<1>3. call \in [Callers -> Calls]
  BY <1>1, IdleType, Zenon
<1>4. TypeOK
  BY <1>1, <1>2, <1>3 DEF TypeOK, Calls
<1>5. Committed = {} /\ DOMAIN db = {}
  BY <1>1 DEF Committed
<1>6. DbInv
  BY <1>1, <1>2, <1>5, Zenon DEF DbInv, LedgerIsLinear
<1>7. RootInv
  <2>1. \A b \in Blocks : Id(b) # Id(Genesis)
    BY Names, BlockTreeAssumption, Zenon
  <2> QED BY <1>1, <2>1, Zenon DEF RootInv, Roots, LastRoot
<1>8. \A c \in Callers : ~Running(c) /\ call[c].blk = Genesis
  BY <1>1, IdleType, Zenon
<1>9. Outcomes
  BY <1>1 DEF Outcomes, LoneCallSucceeds
<1> QED BY <1>4, <1>6, <1>7, <1>8, <1>9, Zenon DEF TreeInv, IdleInv, CallInv

LEMMA TreeStep == TreeInv /\ [Next]_vars => TreeInv'
<1> SUFFICES ASSUME TreeInv, [Next]_vars PROVE TreeInv'
  OBVIOUS
<1>1. ASSUME NEW c \in Callers, CallStep(c) PROVE TreeInv'
  BY <1>1, MultiGetBlockStep, MultiGetParentStep, FailStep, FetchOrAddStep, AddChildStep,
     LedgerUpdateStep, CheckRetryStep, FetchToCommitStep, SaveBeginsStep, SaveEndsStep,
     EpochGapStep, PruneStep, Zenon DEF CallStep
<1>2. ASSUME NEW c \in Callers, NEW b \in Blocks, Begin(c, b) PROVE TreeInv'
  BY <1>2, BeginStep, Zenon
<1>3. ASSUME NEW o \in Ids, DropStep(o) PROVE TreeInv'
  BY <1>3, DropsStep, Zenon
<1>4. CASE UNCHANGED vars
  <2>1. UNCHANGED <<root, children, lookup, version, garbage, held, call, db, epoch, built, outcome, onto,
                    together>>
    BY <1>4, Zenon DEF vars, tree, ledger, history
  <2>g. TypeOK /\ DbInv /\ RootInv /\ IdleInv /\ Outcomes
    BY GlobalParts, Zenon
  <2>t. TypeOK' /\ IdleInv' /\ Outcomes'
    BY <2>1, <2>g, Zenon DEF TypeOK, IdleInv, Outcomes, LoneCallSucceeds
  <2>r. Committed' = Committed /\ Roots' = Roots /\ LastRoot' = LastRoot
    BY <2>1, Zenon DEF Committed, Roots, LastRoot
  <2>d. DbInv' /\ RootInv'
    BY <2>1, <2>g, <2>r, ZenonT(40) DEF DbInv, RootInv, LedgerIsLinear
  <2>2. TypeOK' /\ DbInv' /\ RootInv' /\ IdleInv' /\ Outcomes'
    BY <2>t, <2>d, Zenon
  <2>3. ASSUME NEW c \in Callers PROVE CallInv(c)'
    <3>1. OwnsBlock(c) => OwnsBlock(c)'
      BY <2>1, <2>r, Zenon DEF OwnsBlock
    <3>2. FindsBlock(c) => FindsBlock(c)'
      BY <2>1, Zenon DEF FindsBlock
    <3>3. CountsVersions(c) => CountsVersions(c)'
      BY <2>1, <2>r, SMTT(30) DEF CountsVersions, DbVersion
    <3>4. Undisturbed(c) => Undisturbed(c)'
      BY <2>1, Zenon DEF Undisturbed
    <3> QED BY <2>1, <3>1, <3>2, <3>3, <3>4, Zenon DEF TreeInv, CallInv
  <2> QED BY <2>2, <2>3, Zenon DEF TreeInv
<1> QED BY <1>1, <1>2, <1>3, <1>4, Zenon DEF Next

\* The inductive invariant holds: whichever calls of inner_build_block overlap and
\* whenever the old roots are dropped, each call finds what it has put into the tree.
THEOREM TreeInvariant == Spec => []TreeInv
BY InitTree, TreeStep, PTL DEF Spec

\* The database is one line of blocks, each executed on the state its predecessor left:
\* the counts that get_blocks_to_commit and save_transaction_block check are enough to
\* turn away a block that was executed on an older root.
THEOREM SavedBlocksAreALine == Spec => []LedgerIsLinear
<1>1. TreeInv => LedgerIsLinear
  BY Zenon DEF TreeInv, DbInv
<1> QED BY <1>1, TreeInvariant, PTL

\* The unwrap and ensure_has_child of ledger_update never fail: where the parent is
\* still in the table, so is the block, below it.
THEOREM LedgerUpdateSucceeds == Spec => []LedgerUpdateFindsBlock
<1>1. TreeInv => LedgerUpdateFindsBlock
  BY Zenon DEF TreeInv, CallInv, FindsBlock, LedgerUpdateFindsBlock
<1> QED BY <1>1, TreeInvariant, PTL

\* A call of inner_build_block that no other overlaps fails in the VM, or because its
\* block was built before the epoch ended, or not at all.
THEOREM LoneCallsSucceed == Spec => []LoneCallSucceeds
<1>1. TreeInv => LoneCallSucceeds
  BY GlobalParts, Zenon DEF Outcomes
<1> QED BY <1>1, TreeInvariant, PTL

\* A step that is not c's own leaves c's references alone.
LEMMA OthersKeep ==
  ASSUME TypeOK, NEW c \in Callers, HoldsLock(c), [Next]_vars
  PROVE  \/ held'[c] = held[c]
         \/ MultiGetParent(c, "findParent", "execute")
         \/ MultiGetParent(c, "refindParent", "update")
<1>1. ASSUME NEW d \in Callers, NEW refs, d # c, Keep(d, refs) PROVE held'[c] = held[c]
  BY <1>1, CallTypes, Zenon DEF Keep
<1>2. ASSUME NEW d \in Callers, d # c, CallStep(d) PROVE held'[c] = held[c]
  <2>1. \A refs : Keep(d, refs) => held'[c] = held[c]
    BY <1>1, <1>2, Zenon
  <2>2. UNCHANGED held => held'[c] = held[c]
    OBVIOUS
  <2>3. \A result : Ends(d, result) => held'[c] = held[c]
    BY <2>1, Zenon DEF Ends
  <2> QED BY <1>2, <2>1, <2>2, <2>3, Zenon DEF CallStep, MultiGetBlock, MultiGetParent, Fail,
       ExecuteFails, FetchOrAddBlock, AddChild, LedgerUpdate, CheckRetry, FetchToCommit,
       SaveBegins, SaveEnds, Prune
<1>3. ASSUME CallStep(c)
      PROVE  \/ MultiGetParent(c, "findParent", "execute")
             \/ MultiGetParent(c, "refindParent", "update")
  BY <1>3, Zenon DEF HoldsLock, CallStep, MultiGetBlock, Fail, ExecuteFails, FetchOrAddBlock,
     AddChild, LedgerUpdate, CheckRetry, FetchToCommit, SaveBegins, SaveEnds, Prune
<1>4. ASSUME NEW d \in Callers, NEW b \in Blocks, Begin(d, b) PROVE held'[c] = held[c]
  BY <1>4, Zenon DEF Begin
<1>5. ASSUME NEW o \in Ids, DropStep(o) PROVE held'[c] = held[c]
  BY <1>5, Zenon DEF DropStep, DropOldRoot, Drop, DropChild
<1>6. CASE UNCHANGED vars
  BY <1>6, Zenon DEF vars
<1> QED BY <1>2, <1>3, <1>4, <1>5, <1>6, Zenon DEF Next

\* No thread in multi_get gives up the last reference to a block while it holds the
\* lock that Drop for Block takes.
THEOREM LockHoldersDropNothing == Spec => NoDropUnderLock
<1>1. ASSUME TreeInv, [Next]_vars, NEW c \in Callers, HoldsLock(c),
             NEW o \in held[c] \ held'[c]
      PROVE  Strong(o)'
  <2>1. Running(c)
    BY <1>1, Zenon DEF HoldsLock
  <2>2. TypeOK /\ FindsBlock(c) /\ call[c].parent \in Ids
    BY <1>1, <2>1, CallParts, Zenon
  <2>3. \/ MultiGetParent(c, "findParent", "execute")
        \/ MultiGetParent(c, "refindParent", "update")
    BY <1>1, <2>2, OthersKeep, Zenon
  <2>4. ~At(c, "findParent")
    BY <1>1, <2>2, Zenon DEF FindsBlock
  <2>5. MultiGetParent(c, "refindParent", "update") /\ At(c, "refindParent")
    BY <2>3, <2>4, Zenon DEF MultiGetParent
  <2>6. CASE call[c].parent \in lookup /\ ~Strong(call[c].parent)
    <3>1. o \in children[call[c].parent]
      BY <1>1, <2>2, <2>5, <2>6, Zenon DEF FindsBlock
    <3>2. children' = children
      BY <2>5, <2>6, Zenon DEF MultiGetParent, Ends, tree
    <3> QED BY <2>2, <3>1, <3>2, Zenon DEF Strong
  <2>7. CASE ~(call[c].parent \in lookup /\ ~Strong(call[c].parent))
    <3>1. Keep(c, held[c] \cup ({call[c].parent} \cap lookup))
      BY <2>5, <2>7, Zenon DEF MultiGetParent
    <3>2. held[c] \subseteq held'[c]
      BY <2>2, <3>1, CallTypes, Zenon DEF Keep
    <3> QED BY <1>1, <3>2, Zenon
  <2> QED BY <2>6, <2>7, Zenon
<1>2. TreeInv /\ [Next]_vars =>
        [\A c \in Callers : HoldsLock(c) => \A o \in held[c] \ held'[c] : Strong(o)']_vars
  BY <1>1, Zenon
<1> QED BY <1>2, TreeInvariant, PTL DEF Spec, NoDropUnderLock
=============================================================================
