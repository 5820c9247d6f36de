---------------------------- MODULE RoundManager ----------------------------
(***************************************************************************)
(* How the honest validators of an epoch move from round to round           *)
(* (consensus/src/round_manager.rs and liveness/round_state.rs): proposals, *)
(* votes, timeouts, the certificates they make, and how a message brings    *)
(* the certificates of its sender with it.  Every handler runs to its end   *)
(* before the next event is taken, so it is a function of the validator.    *)
(*                                                                          *)
(* The network has every message that was sent; any of them may be          *)
(* delivered at any time, repeatedly or never.  A faulty validator stops at *)
(* some round.  What is ordered and committed is SafetyRules' subject.      *)
(***************************************************************************)
EXTENDS PendingVotes

CONSTANTS
  LastRound,         \* the last round each validator acts in
  Flaky,             \* validators that may restart, whose save_vote may fail and whose
                     \* clock may be behind,
  MaxFaults,         \* so many times,
  FaultRounds,       \* in these rounds
  Links,             \* the pairs of validators the network connects
  Genesis,
  BlockOf(_, _, _),  \* the block of a round on a parent, of a kind
  Leader             \* the valid proposer of each round

VARIABLES
  node,      \* what each validator holds
  network    \* the messages sent

vars == <<node, network>>

\* What is said of a block is fixed by its id.
Blocks == DOMAIN RoundOf

\* The rounds some validator acts in.
Acted == UNION {1..LastRound[v] : v \in Validators}

Acts(v) == node[v].current_round <= LastRound[v]

\* The kind of a nil block.  A proposal's kind is the number of faults its author has had:
\* one made after a restart has another payload and timestamp, and is another block.
Nil == -1

ASSUME RoundAssumption ==
  /\ Genesis \in Blocks /\ NoBlock \notin Blocks
  /\ RoundOf \in [Blocks -> Nat] /\ RoundOf[Genesis] = 0
  /\ ParentOf \in [Blocks -> Blocks]
  /\ LastRound \in [Validators -> Nat] /\ MaxFaults \in Nat /\ Flaky \subseteq Validators
  /\ \A round \in Acted, parent \in Blocks, kind \in Nil..MaxFaults :
       RoundOf[parent] < round =>
         LET block == BlockOf(round, parent, kind)
         IN  block \in Blocks /\ RoundOf[block] = round /\ ParentOf[block] = parent

-----------------------------------------------------------------------------
(* Messages *)

\* Mutant of SyncInfo: a timeout certificate of the round after the quorum certificate's is
\* left out too.
SyncInfoOffByOne(n) ==
  [hqc |-> n.hqc, htc |-> IF n.htc.round > RoundOf[n.hqc] + 1 THEN n.htc ELSE NoCert]

\* BlockStore.sync_info: a timeout certificate not above the quorum certificate stays out.
SyncInfo(n) ==
  [hqc |-> n.hqc, htc |-> IF n.htc.round > RoundOf[n.hqc] THEN n.htc ELSE NoCert]

highest_round(s) == Larger(RoundOf[s.hqc], s.htc.round)

has_newer_certificates(s, t) ==
  RoundOf[s.hqc] > RoundOf[t.hqc] \/ s.htc.round > t.htc.round

ProposalMsg(v, b, n) == [type |-> "Proposal", author |-> v, block |-> b, sync_info |-> SyncInfo(n)]
VoteMsg(v, vote, n) == [type |-> "Vote", author |-> v, vote |-> vote, sync_info |-> SyncInfo(n)]
SyncInfoMsg(v, n) == [type |-> "SyncInfo", author |-> v, sync_info |-> SyncInfo(n)]

\* A handler gives the set of its possible outcomes: whether it returns Ok, the validator
\* after it, and the messages it sent.
Ok(n, out) == {[ok |-> TRUE, node |-> n, out |-> out]}
Err(n, out) == {[ok |-> FALSE, node |-> n, out |-> out]}

\* F after the outcomes os, unless they are errors, which end the handler.
Then(os, F(_)) ==
  UNION {IF o.ok THEN {[p EXCEPT !.out = @ \cup o.out] : p \in F(o.node)} ELSE {o} : o \in os}

-----------------------------------------------------------------------------
(* New rounds *)

\* process_new_round_event at the leader: generate_proposal on the highest quorum
\* certificate, once per round and process, and sign_proposal.  While it waits for a
\* payload its certificates are broadcast.
Propose(v, n) ==
  LET round == n.current_round
      block == BlockOf(round, n.hqc, n.faults)
      generated == [n EXCEPT !.last_round_generated = round]
      waiting == {SyncInfoMsg(v, n)}
  IN  IF n.last_round_generated >= round THEN Err(n, {})
      ELSE IF \/ round <= n.safety.last_voted_round
              \/ RoundOf[n.hqc] < n.safety.preferred_round
           THEN Err(generated, waiting)
      ELSE Ok(generated, waiting \cup {ProposalMsg(v, block, n)})

NewRoundEvent(v, n) ==
  IF Leader[n.current_round] = v /\ n.current_round <= LastRound[v] THEN Propose(v, n)
  ELSE Ok(n, {})

\* RoundState.process_certificates.
StartRound(n, round) ==
  [n EXCEPT !.current_round = round, !.pending = NewPendingVotes, !.vote_sent = NoVote]

ProcessCertificates(v, n) ==
  LET round == highest_round(SyncInfo(n)) + 1
  IN  IF round > n.current_round
      THEN UNION {NewRoundEvent(v, m) : m \in {StartRound(n, round)}}
      ELSE Ok(n, {})

\* insert_quorum_cert and insert_2chain_timeout_certificate; both persist what they insert.
InsertQC(n, b) == IF RoundOf[b] > RoundOf[n.hqc] THEN [n EXCEPT !.hqc = b] ELSE n
InsertTC(n, tc) == IF tc.round > n.htc.round THEN [n EXCEPT !.htc = tc] ELSE n

\* Mutant of AddCerts: the quorum certificate is not inserted when there is a timeout's.
AddCertsTimeoutOnly(n, s) ==
  IF s.htc # NoCert THEN InsertTC(n, s.htc) ELSE InsertQC(n, s.hqc)

\* BlockStore.add_certs, with every block retrieved.
AddCerts(n, s) == InsertTC(InsertQC(n, s.hqc), s.htc)

SyncUp(v, n, s) ==
  IF has_newer_certificates(s, SyncInfo(n))
  THEN UNION {ProcessCertificates(v, m) : m \in {AddCerts(n, s)}}
  ELSE Ok(n, {})

\* ensure_round_and_sync_up, for a message of this round or a later one.
EnsureRoundAndSyncUp(v, n, round, s) ==
  Then(SyncUp(v, n, s), LAMBDA m : IF round = m.current_round THEN Ok(m, {}) ELSE Err(m, {}))

-----------------------------------------------------------------------------
(* Voting *)

\* construct_and_sign_vote_two_chain: the vote of the round, if there is one, or a vote for
\* b under the rules.
SafetyRulesVote(n, b) ==
  LET d == n.safety
  IN  IF d.last_vote # NoBlock /\ RoundOf[d.last_vote] = RoundOf[b] THEN Ok(n, {})
      ELSE IF RoundOf[b] > d.last_voted_round /\ SafeToVote(b, n.htc)
           THEN Ok([n EXCEPT !.safety = DataAfterVote(d, b)], {})
      ELSE Err(n, {})

MayFail(v, n) == v \in Flaky /\ n.faults < MaxFaults /\ n.current_round \in FaultRounds

\* Something goes wrong for v: the handler returns an error.
Fault(v, n) ==
  IF MayFail(v, n) THEN Err([n EXCEPT !.faults = @ + 1], {})
  ELSE {}

\* save_vote, of the vote SafetyRules has just returned; it may fail.
SaveVote(v, n) ==
  Ok([n EXCEPT !.last_vote = n.safety.last_vote], {})
    \cup Fault(v, n)

ExecuteAndVote(v, n, b) ==
  IF n.vote_sent # NoVote THEN Err(n, {})
  ELSE Then(SafetyRulesVote(n, b), LAMBDA m : SaveVote(v, m))

\* The end of process_local_timeout: the vote, and a timeout unless it has one already.
SignTimeout(v, n, vote) ==
  LET t == [round |-> n.current_round, hqc_round |-> RoundOf[n.hqc]]
      signs == /\ t.round >= n.safety.last_voted_round
               /\ SafeToTimeout(t, n.htc, n.safety)
      timeout_vote == IF is_timeout(vote) THEN vote ELSE [vote EXCEPT !.timeout = t.hqc_round]
  IN  IF is_timeout(vote) \/ signs
      THEN Ok([n EXCEPT !.vote_sent = timeout_vote], {VoteMsg(v, timeout_vote, n)})
      ELSE Err(n, {})

\* process_local_timeout in the current round: the vote of the round, or else one for a nil
\* block on the highest quorum certificate.
LocalTimeout(v, n) ==
  IF n.vote_sent # NoVote THEN SignTimeout(v, n, n.vote_sent)
  ELSE Then(ExecuteAndVote(v, n, BlockOf(n.current_round, n.hqc, Nil)),
            LAMBDA m : SignTimeout(v, m, VoteFor(m.last_vote)))

-----------------------------------------------------------------------------
(* Handlers *)

\* UnequivocalProposerElection.is_valid_proposal: the first block of the round, or the
\* same again.
FirstProposal(n, b) ==
  RoundOf[b] > RoundOf[n.already_proposed] \/ b = n.already_proposed

\* process_verified_proposal: the vote is sent to the next leader.
Vote(v, n, b) ==
  Then(ExecuteAndVote(v, n, b),
       LAMBDA m : LET vote == VoteFor(m.last_vote)
                  IN  Ok([m EXCEPT !.vote_sent = vote], {VoteMsg(v, vote, m)}))

\* process_proposal, where a proposal stamped beyond the round's deadline gets no vote.
ProcessProposal(v, n, b) ==
  LET m == [n EXCEPT !.already_proposed = b]
  IN  IF FirstProposal(n, b) THEN Vote(v, m, b) \cup Fault(v, m)
      ELSE Err(n, {})

\* process_vote.  No block of the current round is certified yet, so the vote goes to the
\* pending votes at once.
ProcessVote(v, n, author, vote) ==
  LET After(r) ==
        LET m == [n EXCEPT !.pending = r.pending]
        IN  CASE r.result = "NewQuorumCertificate" ->
                   ProcessCertificates(v, InsertQC(m, vote.block))
              [] r.result = "New2ChainTimeoutCertificate" ->
                   ProcessCertificates(v, InsertTC(m, TimeoutCert(r.pending, n.current_round)))
              [] r.result = "EchoTimeout" /\ ~is_timeout(n.vote_sent) -> LocalTimeout(v, m)
              [] OTHER -> Ok(m, {})
  IN  IF ~is_timeout(vote) /\ Leader[n.current_round + 1] # v THEN Err(n, {})
      ELSE UNION {After(r) : r \in {InsertVote(n.pending, author, vote)}}

message_round(msg) ==
  CASE msg.type = "Proposal" -> RoundOf[msg.block]
    [] msg.type = "Vote"     -> RoundOf[msg.vote.block]
    [] msg.type = "SyncInfo" -> highest_round(msg.sync_info) + 1

Handle(v, n, msg) ==
  Then(EnsureRoundAndSyncUp(v, n, message_round(msg), msg.sync_info),
       LAMBDA m : CASE msg.type = "Proposal" -> ProcessProposal(v, m, msg.block)
                    [] msg.type = "Vote"     -> ProcessVote(v, m, msg.author, msg.vote)
                    [] msg.type = "SyncInfo" -> Ok(m, {}))

-----------------------------------------------------------------------------

Stale(n, msg) == message_round(msg) < n.current_round

\* An outcome that changes nothing is no step; a message of a round that every validator
\* has left is forgotten.
Becomes(v, o) ==
  /\ o.node # node[v] \/ ~(o.out \subseteq network)
  /\ node' = [node EXCEPT ![v] = o.node]
  /\ network' = IF o.node.current_round = node[v].current_round THEN network \cup o.out
                ELSE {msg \in network \cup o.out : \E u \in Validators : ~Stale(node'[u], msg)}

\* A vote without a timeout is sent to the next leader only.
SentTo(v, msg) ==
  /\ <<msg.author, v>> \in Links
  /\ msg.type = "Vote" /\ ~is_timeout(msg.vote) => Leader[RoundOf[msg.vote.block] + 1] = v

Deliver(v, msg) ==
  /\ Acts(v)
  /\ SentTo(v, msg) /\ ~Stale(node[v], msg)
  /\ \E o \in Handle(v, node[v], msg) : Becomes(v, o)

\* The timer of the current round fires.
Timeout(v) ==
  /\ Acts(v)
  /\ \E o \in LocalTimeout(v, node[v]) : Becomes(v, o)

\* The process starts again with what is persisted: the certificates, the SafetyData and
\* the last vote.  RoundManager.init starts the round they give, and proposes if it leads.
Restart(v) ==
  LET n == node[v]
      round == highest_round(SyncInfo(n)) + 1
      fresh == [StartRound(n, round) EXCEPT
                  !.vote_sent = IF n.last_vote # NoBlock /\ RoundOf[n.last_vote] = round
                                THEN VoteFor(n.last_vote) ELSE NoVote,
                  !.already_proposed = Genesis, !.last_round_generated = 0,
                  !.faults = @ + 1]
  IN  /\ MayFail(v, n)
      /\ Acts(v)
      /\ \E o \in NewRoundEvent(v, fresh) : Becomes(v, o)

NewNode ==
  [hqc |-> Genesis, htc |-> NoCert, current_round |-> 0, pending |-> NewPendingVotes,
   vote_sent |-> NoVote, safety |-> EmptyData, last_vote |-> NoBlock,
   already_proposed |-> Genesis, last_round_generated |-> 0, faults |-> 0]

Init ==
  LET first == [v \in Validators |-> CHOOSE o \in ProcessCertificates(v, NewNode) : TRUE]
  IN  /\ node = [v \in Validators |-> first[v].node]
      /\ network = UNION {first[v].out : v \in Validators}

Next ==
  \/ \E v \in Validators : \E msg \in network : Deliver(v, msg)
  \/ \E v \in Validators : Timeout(v)
  \/ \E v \in Flaky : Restart(v)

\* The timer of a round keeps firing and each time sends the vote of the round again, with
\* the certificates the validator has by then.  Of the messages sent again and again, some
\* get through while they are news to the receiver; any other may never be delivered.
DeliverLatest(u, v) ==
  /\ is_timeout(node[u].vote_sent)
  /\ \/ node[v].pending.author_to_vote[u] # node[u].vote_sent
     \/ has_newer_certificates(SyncInfo(node[u]), SyncInfo(node[v]))
  /\ \E msg \in network \cap {VoteMsg(u, node[u].vote_sent, node[u])} : Deliver(v, msg)

TimeoutSent(v) ==
  /\ Acts(v)
  /\ \E o \in {p \in LocalTimeout(v, node[v]) : p.ok} : Becomes(v, o)

Fairness ==
  /\ WF_vars(\E v \in Validators : TimeoutSent(v))
  /\ WF_vars(\E link \in Links : DeliverLatest(link[1], link[2]))

Spec == Init /\ [][Next]_vars /\ Fairness

-----------------------------------------------------------------------------
(* Properties *)

\* No validator is ever locked in a round: whatever certificates, votes, restarts
\* and failed writes brought it there, SafetyRules gives it the vote of the round, or one
\* for the nil block it would make now, and signs its timeout (process_local_timeout).
CanTimeOut ==
  \A v \in Validators : Acts(v) => \E o \in LocalTimeout(v, node[v]) : o.ok

\* The timeout certificate a validator has collected is one its peers accept: a quorum
\* signed it and its highest round is the highest they signed (PendingVotes against
\* TwoChainTimeoutCertificate.verify).  And its holder has a quorum certificate as high as
\* the one it is for, though the two arrive in different messages.
CertificatesVerify ==
  \A v \in Validators :
    LET n == node[v]
    IN  n.htc # NoCert => CertVerifies(n.htc) /\ n.htc.hqc_round <= RoundOf[n.hqc]

\* Every validator gets to the last round it may act in, though a leader has stopped,
\* messages are lost and only the votes sent again by the timers have to arrive.
Progress == <>(\A v \in Validators : node[v].current_round >= LastRound[v])
=============================================================================
