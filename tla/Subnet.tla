------------------------------- MODULE Subnet -------------------------------
(***************************************************************************)
(* The way of a transaction through the subnet: nodes, each with a core    *)
(* mempool and an Aptos ledger, that submit, gossip, build, decide and     *)
(* accept (subnet/src/vm/mod.rs).  The mempools are those of CoreMempool,   *)
(* the batches those of MempoolBatch.  A decided block is accepted in one   *)
(* step; ChainVm has the steps inside it, and the blocks whose execution    *)
(* fails as a whole.                                                        *)
(***************************************************************************)
EXTENDS Integers, FiniteSets, SequencesExt

CONSTANTS
  Nodes, Accounts, MaxSeq, Capacity, CapacityBytes, PerUser, MaxTxns, MaxBytes,
  Large,       \* transactions of 50 KB and more
  MaxBlocks,   \* bound on the number of decided blocks
  MaxGossip,   \* bound on the transactions on their way at a time
  MaxProposed  \* bound on the blocks proposed at a height: one that is not decided
               \* leaves nothing behind

VARIABLES
  pools,     \* per node: core_mempool
  nextSeq,   \* per node: the accounts' sequence numbers in the Aptos ledger
  height,    \* per node: how many decided blocks it has accepted
  gossip,    \* network: the transactions on their way to a node
  proposed,  \* network: blocks built on the last decided one
  chain,     \* network: the decided blocks
  late       \* history: the accounts of which a node has pooled, since its start, a
             \* transaction its ledger was past

vars == <<pools, nextSeq, height, gossip, proposed, chain, late>>

\* The subnet's mempool: every transaction has the same score and gas price.
Pool(m) == INSTANCE MempoolBatch WITH store <- m, MaxGas <- 0, BigSeqs <- {}
Pointers == Accounts \X (0..MaxSeq)

EmptyPool ==
  [txns |-> [p \in Pointers |-> [gas |-> -1, state |-> "Absent"]],
   seqNums |-> [a \in Accounts |-> -1], ttl |-> {}, priority |-> {}, timeline |-> {},
   parking |-> {}, hashes |-> {}, size |-> 0, upgraded |-> {}]

TypeOK ==
  /\ \A n \in Nodes : Pool(pools[n])!TypeOK
  /\ nextSeq \in [Nodes -> [Accounts -> 0..(MaxSeq + 1)]]
  /\ height \in [Nodes -> 0..Len(chain)]
  /\ gossip \subseteq Nodes \X Pointers
  /\ late \subseteq Nodes \X Accounts
  /\ \A b \in proposed \cup ToSet(chain) : b \in Seq(Pointers)

Init ==
  /\ pools = [n \in Nodes |-> EmptyPool]
  /\ nextSeq = [n \in Nodes |-> [a \in Accounts |-> 0]]
  /\ height = [n \in Nodes |-> 0]
  /\ gossip = {}
  /\ proposed = {}
  /\ chain = <<>>
  /\ late = {}

-----------------------------------------------------------------------------

\* add_pool: the transaction's own sequence number stands for the account's.
AddPool(m, p) ==
  IF Pool(m)!Refused(m, p, 0, p[2]) THEN {m} ELSE Pool(m)!Inserted(m, p, 0, p[2], "NonQualified")

\* get_pending_tx, which excludes nothing.
Pending(m) ==
  {Pool(m)!GetBatch(order, <<>>, TRUE, TRUE, MaxTxns) : order \in SetToSeqs(m.priority)}

\* What the ledger does with a block: a transaction is kept if its sequence number
\* is its account's, and discarded otherwise.  Left out: a block prologue that ends the
\* epoch, after which the transactions of the block are not executed but retried.
Execute(seqs, block) ==
  FoldLeft(LAMBDA s, p : IF s[p[1]] = p[2] THEN [s EXCEPT ![p[1]] = @ + 1] ELSE s, seqs, block)

\* Mutant of CommitAll: only the first transaction of the block is taken out.
CommitFirst(m, block) ==
  IF block = <<>> THEN m ELSE Pool(m)!Committed(m, block[1][1], block[1][2])

\* The end of inner_build_block: every transaction of the block leaves the mempool.
CommitAll(m, block) ==
  FoldLeft(LAMBDA s, p : Pool(s)!Committed(s, p[1], p[2]), m, block)

LateNow(n, p) == IF p[2] < nextSeq[n][p[1]] THEN late \cup {<<n, p[1]>>} ELSE late

\* submit_transaction below 50 KB: gossip and pool.
Submit(n, p) ==
  /\ \E m \in AddPool(pools[n], p) : pools' = [pools EXCEPT ![n] = m]
  /\ UNCHANGED nextSeq

\* submit_transaction from 50 KB on: the node then runs inner_build_block on a block
\* of its own, on which no one decides.
SubmitLarge(n, p) ==
  /\ \E m \in AddPool(pools[n], p) : \E block \in Pending(m) :
       /\ nextSeq' = [nextSeq EXCEPT ![n] = Execute(@, block)]
       /\ pools' = [pools EXCEPT ![n] = CommitAll(m, block)]

\* submit_transaction, to which the API gives transactions of any sequence number.  The
\* gossip reaches some of the other nodes.
SubmitTransaction(n, p) ==
  /\ \E reached \in SUBSET (Nodes \ {n}) : gossip' = gossip \cup (reached \X {p})
  /\ Cardinality(gossip') <= MaxGossip
  /\ late' = LateNow(n, p)
  /\ IF p \in Large THEN SubmitLarge(n, p) ELSE Submit(n, p)
  /\ UNCHANGED <<height, proposed, chain>>

\* app_gossip, however late.
AppGossip(n, p) ==
  /\ <<n, p>> \in gossip
  /\ gossip' = gossip \ {<<n, p>>}
  /\ \E m \in AddPool(pools[n], p) : pools' = [pools EXCEPT ![n] = m]
  /\ late' = LateNow(n, p)
  /\ UNCHANGED <<nextSeq, height, proposed, chain>>

\* build_block on the last decided block, which the node may not have accepted yet.
BuildBlock(n) ==
  /\ Len(chain) < MaxBlocks /\ Cardinality(proposed) < MaxProposed
  /\ \E block \in Pending(pools[n]) : proposed' = proposed \cup {block}
  /\ UNCHANGED <<pools, nextSeq, height, gossip, chain, late>>

\* Consensus takes one of the blocks at a height.
Decide(block) ==
  /\ block \in proposed
  /\ chain' = Append(chain, block)
  /\ proposed' = {}
  /\ UNCHANGED <<pools, nextSeq, height, gossip, late>>

\* Block::accept.
Accept(n) ==
  /\ height[n] < Len(chain)
  /\ LET block == chain[height[n] + 1] IN
       /\ nextSeq' = [nextSeq EXCEPT ![n] = Execute(@, block)]
       /\ pools' = [pools EXCEPT ![n] = CommitAll(@, block)]
  /\ height' = [height EXCEPT ![n] = @ + 1]
  /\ UNCHANGED <<gossip, proposed, chain, late>>

\* The mempool does not survive the process.
RestartNode(n) ==
  /\ pools' = [pools EXCEPT ![n] = EmptyPool]
  /\ late' = {h \in late : h[1] # n}
  /\ UNCHANGED <<nextSeq, height, gossip, proposed, chain>>

Next ==
  \/ \E n \in Nodes : BuildBlock(n) \/ Accept(n) \/ RestartNode(n)
  \/ \E n \in Nodes, p \in Pointers : SubmitTransaction(n, p) \/ AppGossip(n, p)
  \/ \E block \in proposed : Decide(block)

Spec == Init /\ [][Next]_vars

-----------------------------------------------------------------------------

\* What the decided blocks a node has accepted make of the initial ledger.
Decided(n) == FoldLeft(Execute, [a \in Accounts |-> 0], SubSeq(chain, 1, height[n]))

\* "Only decided blocks are persistent -- no reorg": every node has.
OnlyDecidedPersists == \A n \in Nodes : nextSeq[n] = Decided(n)

\* A pooled transaction that the node's ledger would execute next is in every batch the
\* node builds from, unless late gossip or a late submission has moved the account's
\* number in the mempool back: whatever came by gossip in whatever order, was dropped for
\* a later number, accepted and discarded, or executed in a block of the node's own, the
\* mempool's number for the account does not keep it back.
NextIsOffered ==
  \A n \in Nodes, a \in Accounts :
    LET next == <<a, nextSeq[n][a]>> IN
    next \in pools[n].ttl /\ <<n, a>> \notin late =>
      \A batch \in Pending(pools[n]) : next \in ToSet(batch) \/ Len(batch) = MaxTxns
=============================================================================
