------------------------- MODULE RoundManagerProofs -------------------------
(***************************************************************************)
(* No validator is locked in a round, and the timeout certificates they     *)
(* make verify: for any validators and voting powers, any leaders, any      *)
(* blocks, any links and any number of faults.                              *)
(*                                                                          *)
(* The invariant, Good, is of one validator.  The round follows from its    *)
(* certificates; the vote of the round is the one SafetyData records; a     *)
(* timeout carries the round of a certificate no higher than the one sent   *)
(* with it; and an author is among the signers of the pending timeouts only *)
(* if its timeout is the vote kept for it, so that no second timeout can    *)
(* raise the round they claim without a signature for it.  Each handler is  *)
(* a function of the validator, so each has a lemma of its own: what it     *)
(* makes of a good validator is good, and so are the messages it sends.     *)
(***************************************************************************)
EXTENDS RoundManager, TLAPS

-----------------------------------------------------------------------------
(* The invariant *)

\* The blocks a validator may vote for.
Voted == {x \in Blocks : RoundOf[x] \in Acted}

Votes == [block : Voted \cup {NoBlock}, timeout : Int]
Signatures == UNION {[S -> Int] : S \in SUBSET Validators}
Certs == [round : Nat, hqc_round : Nat, signed : Signatures]
Pendings == [author_to_vote : [Validators -> Votes], signed : Signatures,
             hqc_round : Int, echo_timeout : BOOLEAN]
SafetyDatas == [last_voted_round : Nat, preferred_round : Nat,
                one_chain_round : Nat, last_vote : Voted \cup {NoBlock}]
NodeType ==
  [hqc : Blocks, htc : Certs, current_round : Nat, pending : Pendings, vote_sent : Votes,
   safety : SafetyDatas, last_vote : Voted \cup {NoBlock}, already_proposed : Blocks,
   last_round_generated : Nat, faults : 0..MaxFaults]

\* A timeout certificate verifies, and is for no higher certificate than the holder has.
CertOK(tc, qc_round) ==
  tc.hqc_round <= qc_round /\ (tc = NoCert \/ CertVerifies(tc))

\* The pending timeouts of a round claim the highest round that is signed.
PendingOK(p, round, qc_round) ==
  /\ DOMAIN p.signed \subseteq {u \in Validators : is_timeout(p.author_to_vote[u])}
  /\ p.hqc_round <= qc_round /\ p.hqc_round < round
  /\ \A u \in DOMAIN p.signed : p.signed[u] <= p.hqc_round
  /\ \/ DOMAIN p.signed = {} /\ p.hqc_round = -1
     \/ p.hqc_round \in Nat /\ \E u \in DOMAIN p.signed : p.signed[u] = p.hqc_round

\* SafetyData is no further than the round and the certificates.
DataOK(d, round, qc_round) ==
  /\ d.last_voted_round = IF d.last_vote = NoBlock THEN 0 ELSE RoundOf[d.last_vote]
  /\ d.last_voted_round <= round
  /\ d.one_chain_round <= qc_round

\* A vote of a round, with a timeout that is no further than the certificates.
VoteOK(vote, round, qc_round) ==
  /\ vote.block \in Voted /\ RoundOf[vote.block] = round
  /\ vote.timeout # -1 => /\ vote.timeout \in Nat
                          /\ vote.timeout <= qc_round /\ vote.timeout < round

Base(n) ==
  /\ n \in NodeType
  /\ CertOK(n.htc, RoundOf[n.hqc])
  /\ PendingOK(n.pending, n.current_round, RoundOf[n.hqc])
  /\ DataOK(n.safety, n.current_round, RoundOf[n.hqc])
  /\ n.vote_sent # NoVote => /\ VoteOK(n.vote_sent, n.current_round, RoundOf[n.hqc])
                             /\ n.safety.last_voted_round = n.current_round
  /\ n.last_vote # NoBlock => RoundOf[n.last_vote] <= n.safety.last_voted_round

\* The round the certificates give.
CertifiedRound(n) == Larger(RoundOf[n.hqc], n.htc.round) + 1

Good(n) == Base(n) /\ n.current_round = CertifiedRound(n)

Infos == {s \in [hqc : Blocks, htc : Certs] : CertOK(s.htc, RoundOf[s.hqc])}

Messages ==
  {msg \in [type : {"Proposal"}, author : Validators, block : Voted, sync_info : Infos] :
     RoundOf[ParentOf[msg.block]] <= RoundOf[msg.sync_info.hqc]}
    \cup {msg \in [type : {"Vote"}, author : Validators, vote : Votes, sync_info : Infos] :
            VoteOK(msg.vote, RoundOf[msg.vote.block], RoundOf[msg.sync_info.hqc])}
    \cup [type : {"SyncInfo"}, author : Validators, sync_info : Infos]

RoundInv ==
  /\ node \in [Validators -> NodeType]
  /\ \A v \in Validators : Good(node[v])
  /\ network \subseteq Messages

\* What a handler may answer.
Answers == {o \in [ok : BOOLEAN, node : NodeType, out : SUBSET Messages] : Good(o.node)}

-----------------------------------------------------------------------------
(* Facts about the definitions *)

LEMMA Constants ==
  /\ Genesis \in Blocks /\ NoBlock \notin Blocks /\ RoundOf[Genesis] = 0
  /\ \A x \in Blocks : RoundOf[x] \in Nat /\ ParentOf[x] \in Blocks
  /\ Voted \subseteq Blocks /\ NoBlock \notin Voted
  /\ \A x \in Voted : RoundOf[x] \in Acted
  /\ \A r \in Acted : r \in Nat /\ r > 0
  /\ MaxFaults \in Nat /\ LastRound \in [Validators -> Nat] /\ Flaky \subseteq Validators
BY RoundAssumption DEF Voted, Acted

LEMMA NewBlock ==
  ASSUME NEW round \in Acted, NEW parent \in Blocks, NEW kind \in -1..MaxFaults,
         RoundOf[parent] < round
  PROVE  /\ BlockOf(round, parent, kind) \in Voted
         /\ RoundOf[BlockOf(round, parent, kind)] = round
         /\ ParentOf[BlockOf(round, parent, kind)] = parent
BY RoundAssumption DEF Nil, Voted

LEMMA LargerIs ==
  ASSUME NEW i \in Int, NEW j \in Int
  PROVE  Larger(i, j) \in {i, j} /\ Larger(i, j) >= i /\ Larger(i, j) >= j
BY DEF Larger

LEMMA NoSignatures == <<>> \in Signatures /\ DOMAIN <<>> = {}
<1>1. DOMAIN <<>> = {}
  OBVIOUS
<1>2. <<>> \in [{} -> Int]
  OBVIOUS
<1> QED BY <1>1, <1>2, Zenon DEF Signatures

LEMMA SignaturesAre ==
  ASSUME NEW f
  PROVE  f \in Signatures <=> DOMAIN f \subseteq Validators /\ f \in [DOMAIN f -> Int]
BY Zenon DEF Signatures

LEMMA NodeFields ==
  ASSUME NEW n \in NodeType
  PROVE  /\ n.hqc \in Blocks /\ RoundOf[n.hqc] \in Nat
         /\ n.htc \in Certs /\ n.htc.round \in Nat /\ n.htc.hqc_round \in Nat
         /\ n.current_round \in Nat /\ n.pending \in Pendings /\ n.vote_sent \in Votes
         /\ n.safety \in SafetyDatas /\ n.last_vote \in Voted \cup {NoBlock}
         /\ n.already_proposed \in Blocks /\ n.last_round_generated \in Nat
         /\ n.faults \in 0..MaxFaults
BY Constants, Zenon DEF NodeType, Certs

LEMMA DataFields ==
  ASSUME NEW d \in SafetyDatas
  PROVE  /\ d.last_voted_round \in Nat /\ d.preferred_round \in Nat
         /\ d.one_chain_round \in Nat /\ d.last_vote \in Voted \cup {NoBlock}
BY Zenon DEF SafetyDatas

LEMMA Records ==
  /\ NoVote \in Votes /\ ~is_timeout(NoVote)
  /\ NoCert \in Certs /\ \A r \in Nat : CertOK(NoCert, r)
  /\ EmptyData \in SafetyDatas
  /\ NewPendingVotes \in Pendings
  /\ \A round \in Nat, r \in Nat : PendingOK(NewPendingVotes, round, r)
<1>1. NoVote \in Votes /\ ~is_timeout(NoVote)
  BY DEF NoVote, Votes, is_timeout
<1>2. NoCert \in Certs /\ \A r \in Nat : CertOK(NoCert, r)
  BY NoSignatures DEF NoCert, Certs, CertOK
<1>3. EmptyData \in SafetyDatas
  BY Zenon DEF EmptyData, SafetyDatas
<1>4. NewPendingVotes \in Pendings
  BY <1>1, NoSignatures DEF NewPendingVotes, Pendings
<1>5. \A round \in Nat, r \in Nat : PendingOK(NewPendingVotes, round, r)
  BY NoSignatures DEF NewPendingVotes, PendingOK
<1> QED BY <1>1, <1>2, <1>3, <1>4, <1>5, Zenon

\* The certificates a validator sends, and the round they give.
LEMMA SyncInfoIs ==
  ASSUME NEW n \in NodeType, CertOK(n.htc, RoundOf[n.hqc])
  PROVE  /\ SyncInfo(n) \in Infos /\ SyncInfo(n).hqc = n.hqc
         /\ highest_round(SyncInfo(n)) + 1 = CertifiedRound(n)
<1>1. CASE n.htc.round > RoundOf[n.hqc]
  <2>1. SyncInfo(n) = [hqc |-> n.hqc, htc |-> n.htc]
    BY <1>1, Zenon DEF SyncInfo
  <2> QED BY <2>1, NodeFields DEF Infos, highest_round, CertifiedRound
<1>2. CASE ~(n.htc.round > RoundOf[n.hqc])
  <2>1. SyncInfo(n) = [hqc |-> n.hqc, htc |-> NoCert]
    BY <1>2, Zenon DEF SyncInfo
  <2>2. NoCert \in Certs /\ CertOK(NoCert, RoundOf[n.hqc]) /\ NoCert.round = 0
    BY NodeFields, Records, Zenon DEF NoCert
  <2>3. SyncInfo(n) \in Infos
    BY <2>1, <2>2, NodeFields DEF Infos
  <2>4. highest_round(SyncInfo(n)) + 1 = CertifiedRound(n)
    BY <1>2, <2>1, <2>2, NodeFields DEF highest_round, CertifiedRound, Larger
  <2> QED BY <2>1, <2>3, <2>4
<1> QED BY <1>1, <1>2, Zenon

LEMMA MessagesAre ==
  ASSUME NEW v \in Validators, NEW n \in NodeType, CertOK(n.htc, RoundOf[n.hqc])
  PROVE  /\ SyncInfoMsg(v, n) \in Messages
         /\ \A b \in Voted : RoundOf[ParentOf[b]] <= RoundOf[n.hqc] => ProposalMsg(v, b, n) \in Messages
         /\ \A vote \in Votes : VoteOK(vote, RoundOf[vote.block], RoundOf[n.hqc])
              => VoteMsg(v, vote, n) \in Messages
<1>1. SyncInfo(n) \in Infos /\ SyncInfo(n).hqc = n.hqc
  BY SyncInfoIs, Zenon
<1>2. SyncInfoMsg(v, n) \in Messages
  BY <1>1, Zenon DEF SyncInfoMsg, Messages
<1>3. ASSUME NEW b \in Voted, RoundOf[ParentOf[b]] <= RoundOf[n.hqc]
      PROVE  ProposalMsg(v, b, n) \in Messages
  BY <1>1, <1>3, Zenon DEF ProposalMsg, Messages
<1>4. ASSUME NEW vote \in Votes, VoteOK(vote, RoundOf[vote.block], RoundOf[n.hqc])
      PROVE  VoteMsg(v, vote, n) \in Messages
  BY <1>1, <1>4, Zenon DEF VoteMsg, Messages
<1> QED BY <1>2, <1>3, <1>4, Zenon

\* An answer that sends what an earlier one sent as well.
LEMMA Joined ==
  ASSUME NEW p \in Answers, NEW o \in Answers
  PROVE  /\ [p EXCEPT !.out = @ \cup o.out] \in Answers
         /\ [p EXCEPT !.out = @ \cup o.out].node = p.node
         /\ [p EXCEPT !.out = @ \cup o.out].ok = p.ok
BY Zenon DEF Answers

LEMMA OkIs ==
  ASSUME NEW n, Good(n), NEW out \in SUBSET Messages, NEW o \in Ok(n, out)
  PROVE  o \in Answers /\ o.node = n /\ o.ok /\ o.out = out
<1>1. o = [ok |-> TRUE, node |-> n, out |-> out]
  BY Zenon DEF Ok
<1>2. n \in NodeType
  BY Zenon DEF Good, Base
<1> QED BY <1>1, <1>2, Zenon DEF Answers

LEMMA ErrorIs ==
  ASSUME NEW n, Good(n), NEW out \in SUBSET Messages, NEW o \in Err(n, out)
  PROVE  o \in Answers /\ o.node = n /\ ~o.ok /\ o.out = out
<1>1. o = [ok |-> FALSE, node |-> n, out |-> out]
  BY Zenon DEF Err
<1>2. n \in NodeType
  BY Zenon DEF Good, Base
<1> QED BY <1>1, <1>2, Zenon DEF Answers

-----------------------------------------------------------------------------
(* New rounds *)

LEMMA ProposeGood ==
  ASSUME NEW v \in Validators, NEW n, Good(n), n.current_round <= LastRound[v],
         NEW o \in Propose(v, n)
  PROVE  o \in Answers /\ o.node.hqc = n.hqc
<1> DEFINE round == n.current_round
           block == BlockOf(round, n.hqc, n.faults)
           generated == [n EXCEPT !.last_round_generated = round]
<1>1. n \in NodeType /\ CertOK(n.htc, RoundOf[n.hqc])
  BY Zenon DEF Good, Base
<1>2. RoundOf[n.hqc] < round /\ round \in Acted
  BY <1>1, NodeFields, Constants DEF Good, CertifiedRound, Larger, Acted
<1>3. Good(generated) /\ generated.hqc = n.hqc
  BY <1>1, NodeFields, Zenon DEF Good, Base, NodeType, CertifiedRound
<1>4. n.faults \in -1..MaxFaults
  BY <1>1, NodeFields, Constants
<1>5. block \in Voted /\ ParentOf[block] = n.hqc
  BY <1>1, <1>2, <1>4, NodeFields, NewBlock, SMTT(30)
<1>6. SyncInfoMsg(v, n) \in Messages /\ ProposalMsg(v, block, n) \in Messages
  BY <1>1, <1>5, MessagesAre, NodeFields
<1> DEFINE waiting == {SyncInfoMsg(v, n)}
           proposing == waiting \cup {ProposalMsg(v, block, n)}
<1>7. waiting \in SUBSET Messages /\ proposing \in SUBSET Messages
  BY <1>6, Zenon
<1> HIDE DEF round, block, generated
<1>8. \/ o \in Err(n, {})
      \/ o \in Err(generated, waiting)
      \/ o \in Ok(generated, proposing)
  BY Zenon DEF Propose, round, block, generated
<1> HIDE DEF waiting, proposing
<1>9. CASE o \in Err(n, {})
  BY <1>9, ErrorIs
<1>10. CASE o \in Err(generated, waiting)
  <2>1. o \in Answers /\ o.node = generated /\ ~o.ok /\ o.out = waiting
    BY <1>3, <1>7, <1>10, ErrorIs
  <2> QED BY <1>3, <2>1, Zenon
<1>11. CASE o \in Ok(generated, proposing)
  <2>1. o \in Answers /\ o.node = generated /\ o.ok /\ o.out = proposing
    BY <1>3, <1>7, <1>11, OkIs
  <2> QED BY <1>3, <2>1, Zenon
<1> QED BY <1>8, <1>9, <1>10, <1>11, Zenon

LEMMA NewRoundGood ==
  ASSUME NEW v \in Validators, NEW n, Good(n), NEW o \in NewRoundEvent(v, n)
  PROVE  o \in Answers /\ o.node.hqc = n.hqc
<1>1. CASE Leader[n.current_round] = v /\ n.current_round <= LastRound[v]
  BY <1>1, ProposeGood, ZenonT(40) DEF NewRoundEvent
<1>2. CASE ~(Leader[n.current_round] = v /\ n.current_round <= LastRound[v])
  <2>1. o \in Ok(n, {})
    BY <1>2, Zenon DEF NewRoundEvent
  <2> QED BY <2>1, OkIs
<1> QED BY <1>1, <1>2, Zenon

LEMMA NewRoundAnswers ==
  ASSUME NEW v, NEW n
  PROVE  NewRoundEvent(v, n) # {}
BY Zenon DEF NewRoundEvent, Propose, Ok, Err

\* A new round starts with no votes, and SafetyData is behind it.
LEMMA StartRoundGood ==
  ASSUME NEW n, Base(n), n.current_round <= CertifiedRound(n)
  PROVE  Good(StartRound(n, CertifiedRound(n))) /\ StartRound(n, CertifiedRound(n)).hqc = n.hqc
<1> DEFINE round == CertifiedRound(n)
           m == StartRound(n, round)
<1>1. n \in NodeType
  BY Zenon DEF Base
<1>2. round \in Nat
  BY <1>1, NodeFields DEF CertifiedRound, Larger
<1>3. /\ m.hqc = n.hqc /\ m.htc = n.htc /\ m.current_round = round
      /\ m.pending = NewPendingVotes /\ m.vote_sent = NoVote /\ m.safety = n.safety
      /\ m.last_vote = n.last_vote /\ m \in NodeType
  BY <1>1, <1>2, Records, NodeFields, Zenon DEF StartRound, NodeType
<1>4. PendingOK(m.pending, m.current_round, RoundOf[m.hqc])
  BY <1>1, <1>2, <1>3, Records, NodeFields, ZenonT(40)
<1>5. DataOK(m.safety, m.current_round, RoundOf[m.hqc])
  BY <1>1, <1>2, <1>3, NodeFields, DataFields DEF Base, DataOK
<1>6. m.current_round = CertifiedRound(m)
  BY <1>3, Zenon DEF CertifiedRound
<1> HIDE DEF m, round
<1>7. Base(m)
  BY <1>3, <1>4, <1>5, Zenon DEF Base
<1> QED BY <1>3, <1>6, <1>7, Zenon DEF Good, m, round

LEMMA ProcessCertificatesGood ==
  ASSUME NEW v \in Validators, NEW n, Base(n), n.current_round <= CertifiedRound(n),
         NEW o \in ProcessCertificates(v, n)
  PROVE  o \in Answers /\ o.node.hqc = n.hqc
<1> DEFINE m == StartRound(n, CertifiedRound(n))
<1>1. n \in NodeType /\ highest_round(SyncInfo(n)) + 1 = CertifiedRound(n)
  BY SyncInfoIs, Zenon DEF Base
<1>2. CASE CertifiedRound(n) > n.current_round
  <2>1. Good(m) /\ m.hqc = n.hqc
    BY StartRoundGood, Zenon
  <2> HIDE DEF m
  <2>2. o \in NewRoundEvent(v, m)
    BY <1>1, <1>2, Zenon DEF ProcessCertificates, m
  <2> QED BY <2>1, <2>2, NewRoundGood, ZenonT(40)
<1>3. CASE ~(CertifiedRound(n) > n.current_round)
  <2>1. Good(n)
    BY <1>1, <1>3, NodeFields DEF Good, CertifiedRound, Larger
  <2>2. o \in Ok(n, {})
    BY <1>1, <1>3, Zenon DEF ProcessCertificates
  <2> QED BY <2>1, <2>2, OkIs
<1> QED BY <1>2, <1>3, Zenon

LEMMA ProcessCertificatesAnswers ==
  ASSUME NEW v, NEW n
  PROVE  ProcessCertificates(v, n) # {}
<1>1. CASE highest_round(SyncInfo(n)) + 1 > n.current_round
  BY <1>1, NewRoundAnswers DEF ProcessCertificates
<1>2. CASE ~(highest_round(SyncInfo(n)) + 1 > n.current_round)
  BY <1>2, Zenon DEF ProcessCertificates, Ok
<1> QED BY <1>1, <1>2, Zenon

-----------------------------------------------------------------------------
(* Certificates *)

LEMMA InsertQCBase ==
  ASSUME NEW n, Base(n), NEW b \in Blocks
  PROVE  /\ Base(InsertQC(n, b)) /\ InsertQC(n, b).current_round = n.current_round
         /\ RoundOf[InsertQC(n, b).hqc] >= RoundOf[n.hqc]
         /\ RoundOf[InsertQC(n, b).hqc] >= RoundOf[b]
         /\ InsertQC(n, b).htc = n.htc
<1> DEFINE m == InsertQC(n, b)
<1>1. n \in NodeType
  BY Zenon DEF Base
<1>2. RoundOf[b] \in Nat /\ RoundOf[n.hqc] \in Nat
  BY <1>1, NodeFields, Constants, Zenon
<1>3. CASE RoundOf[b] > RoundOf[n.hqc]
  <2>1. /\ m.hqc = b /\ m.htc = n.htc /\ m.current_round = n.current_round
        /\ m.pending = n.pending /\ m.vote_sent = n.vote_sent /\ m.safety = n.safety
        /\ m.last_vote = n.last_vote /\ m \in NodeType
    BY <1>1, <1>3, Zenon DEF InsertQC, NodeType
  <2> HIDE DEF m
  <2>2. CertOK(m.htc, RoundOf[m.hqc])
    BY <1>1, <1>2, <1>3, <2>1, NodeFields DEF Base, CertOK
  <2>3. PendingOK(m.pending, m.current_round, RoundOf[m.hqc])
    <3>1. m.pending.hqc_round \in Int
      BY <1>1, <2>1, NodeFields, Zenon DEF Pendings
    <3>2. PendingOK(m.pending, m.current_round, RoundOf[n.hqc])
      BY <2>1, Zenon DEF Base
    <3>3. m.pending.hqc_round <= RoundOf[m.hqc]
      BY <1>2, <1>3, <2>1, <3>1, <3>2, SMTT(30) DEF PendingOK
    <3> QED BY <3>2, <3>3, Zenon DEF PendingOK
  <2>4. DataOK(m.safety, m.current_round, RoundOf[m.hqc])
    BY <1>1, <1>2, <1>3, <2>1, NodeFields, DataFields, SMTT(30) DEF Base, DataOK
  <2>5. m.vote_sent # NoVote => VoteOK(m.vote_sent, m.current_round, RoundOf[m.hqc])
    BY <1>2, <1>3, <2>1 DEF Base, VoteOK
  <2>6. /\ m.vote_sent # NoVote => m.safety.last_voted_round = m.current_round
        /\ m.last_vote # NoBlock => RoundOf[m.last_vote] <= m.safety.last_voted_round
    BY <2>1, Zenon DEF Base
  <2>7. Base(m)
    BY <2>1, <2>2, <2>3, <2>4, <2>5, <2>6, Zenon DEF Base
  <2> QED BY <1>2, <1>3, <2>1, <2>7 DEF m
<1>4. CASE ~(RoundOf[b] > RoundOf[n.hqc])
  <2>1. m = n
    BY <1>4, Zenon DEF InsertQC
  <2> QED BY <1>2, <1>4, <2>1
<1> QED BY <1>3, <1>4, Zenon

LEMMA InsertTCBase ==
  ASSUME NEW n, Base(n), NEW tc \in Certs, CertOK(tc, RoundOf[n.hqc])
  PROVE  /\ Base(InsertTC(n, tc)) /\ InsertTC(n, tc).current_round = n.current_round
         /\ InsertTC(n, tc).hqc = n.hqc
         /\ InsertTC(n, tc).htc.round >= n.htc.round /\ InsertTC(n, tc).htc.round >= tc.round
<1> DEFINE m == InsertTC(n, tc)
<1>1. n \in NodeType
  BY Zenon DEF Base
<1>2. tc.round \in Nat /\ n.htc.round \in Nat
  BY <1>1, NodeFields, Zenon DEF Certs
<1>3. CASE tc.round > n.htc.round
  <2>1. /\ m.hqc = n.hqc /\ m.htc = tc /\ m.current_round = n.current_round
        /\ m.pending = n.pending /\ m.vote_sent = n.vote_sent /\ m.safety = n.safety
        /\ m.last_vote = n.last_vote /\ m \in NodeType
    BY <1>1, <1>3, Zenon DEF InsertTC, NodeType
  <2> HIDE DEF m
  <2>2. Base(m)
    BY <2>1, Zenon DEF Base
  <2> QED BY <1>2, <1>3, <2>1, <2>2 DEF m
<1>4. CASE ~(tc.round > n.htc.round)
  <2>1. m = n
    BY <1>4, Zenon DEF InsertTC
  <2> QED BY <1>2, <1>4, <2>1
<1> QED BY <1>3, <1>4, Zenon

LEMMA AddCertsBase ==
  ASSUME NEW n, Good(n), NEW s \in Infos
  PROVE  /\ Base(AddCerts(n, s))
         /\ AddCerts(n, s).current_round <= CertifiedRound(AddCerts(n, s))
         /\ RoundOf[AddCerts(n, s).hqc] >= RoundOf[s.hqc]
<1> DEFINE q == InsertQC(n, s.hqc)
           m == InsertTC(q, s.htc)
<1>1. s.hqc \in Blocks /\ s.htc \in Certs /\ CertOK(s.htc, RoundOf[s.hqc])
  BY Zenon DEF Infos
<1>2. Base(n) /\ n \in NodeType /\ n.current_round = CertifiedRound(n)
  BY Zenon DEF Good, Base
<1>3. /\ Base(q) /\ q.current_round = n.current_round /\ RoundOf[q.hqc] >= RoundOf[n.hqc]
      /\ RoundOf[q.hqc] >= RoundOf[s.hqc] /\ q.htc = n.htc
  BY <1>1, <1>2, InsertQCBase, Zenon
<1> HIDE DEF q
<1>4. q \in NodeType
  BY <1>3, Zenon DEF Base
<1>5. CertOK(s.htc, RoundOf[q.hqc])
  BY <1>1, <1>3, <1>4, NodeFields, Constants DEF CertOK, Certs
<1>6. /\ Base(m) /\ m.current_round = q.current_round /\ m.hqc = q.hqc
      /\ m.htc.round >= q.htc.round /\ m.htc.round >= s.htc.round
  BY <1>1, <1>3, <1>5, InsertTCBase, Zenon
<1> HIDE DEF m
<1>7. m \in NodeType
  BY <1>6, Zenon DEF Base
<1>8. m.current_round <= CertifiedRound(m)
  BY <1>2, <1>3, <1>4, <1>6, <1>7, NodeFields DEF CertifiedRound, Larger
<1> QED BY <1>3, <1>6, <1>8, Zenon DEF AddCerts, q, m

LEMMA SyncUpGood ==
  ASSUME NEW v \in Validators, NEW n, Good(n), NEW s \in Infos, NEW o \in SyncUp(v, n, s)
  PROVE  o \in Answers /\ RoundOf[o.node.hqc] >= RoundOf[s.hqc]
<1>1. CASE has_newer_certificates(s, SyncInfo(n))
  <2> DEFINE m == AddCerts(n, s)
  <2>1. /\ Base(m) /\ m.current_round <= CertifiedRound(m)
        /\ RoundOf[m.hqc] >= RoundOf[s.hqc]
    BY AddCertsBase, Zenon
  <2>2. o \in ProcessCertificates(v, m)
    BY <1>1, Zenon DEF SyncUp
  <2> HIDE DEF m
  <2> QED BY <2>1, <2>2, ProcessCertificatesGood, Zenon
<1>2. CASE ~has_newer_certificates(s, SyncInfo(n))
  <2>1. o \in Ok(n, {})
    BY <1>2, Zenon DEF SyncUp
  <2>2. o \in Answers /\ o.node = n
    BY <2>1, OkIs
  <2>3. n \in NodeType /\ CertOK(n.htc, RoundOf[n.hqc])
    BY Zenon DEF Good, Base
  <2>4. SyncInfo(n).hqc = n.hqc
    BY <2>3, SyncInfoIs, Zenon
  <2>5. RoundOf[s.hqc] \in Nat /\ RoundOf[n.hqc] \in Nat
    BY <2>3, NodeFields, Constants, Zenon DEF Infos
  <2> QED BY <1>2, <2>2, <2>4, <2>5 DEF has_newer_certificates
<1> QED BY <1>1, <1>2, Zenon

\* A handler goes on in the message's round only, with the certificates the message brought.
LEMMA EnsureRoundGood ==
  ASSUME NEW v \in Validators, NEW n, Good(n), NEW round, NEW s \in Infos,
         NEW o \in EnsureRoundAndSyncUp(v, n, round, s)
  PROVE  /\ o \in Answers
         /\ o.ok => o.node.current_round = round /\ RoundOf[o.node.hqc] >= RoundOf[s.hqc]
<1>1. PICK q \in SyncUp(v, n, s) :
        o \in IF q.ok THEN {[p EXCEPT !.out = @ \cup q.out] :
                              p \in IF round = q.node.current_round THEN Ok(q.node, {})
                                    ELSE Err(q.node, {})}
              ELSE {q}
  BY Zenon DEF EnsureRoundAndSyncUp, Then
<1>2. q \in Answers /\ RoundOf[q.node.hqc] >= RoundOf[s.hqc] /\ Good(q.node)
  BY SyncUpGood, Zenon DEF Answers
<1>3. CASE ~q.ok
  BY <1>1, <1>2, <1>3, Zenon
<1>4. CASE q.ok
  <2>1. PICK p \in Ok(q.node, {}) \cup Err(q.node, {}) :
          /\ p \in IF round = q.node.current_round THEN Ok(q.node, {}) ELSE Err(q.node, {})
          /\ o = [p EXCEPT !.out = @ \cup q.out]
    BY <1>1, <1>4, Zenon
  <2>2. p \in Answers /\ p.node = q.node
    BY <1>2, <2>1, OkIs, ErrorIs
  <2>3. p.ok => round = q.node.current_round
    BY <1>2, <2>1, ErrorIs, Zenon
  <2>4. o \in Answers /\ o.node = p.node /\ o.ok = p.ok
    BY <1>2, <2>1, <2>2, Joined, Zenon
  <2> QED BY <1>2, <2>2, <2>3, <2>4, Zenon
<1> QED BY <1>3, <1>4, Zenon

-----------------------------------------------------------------------------
(* Voting *)

\* A block of the current round, on a certificate the validator has.
VotableNow(n, b) ==
  b \in Voted /\ RoundOf[b] = n.current_round /\ RoundOf[ParentOf[b]] <= RoundOf[n.hqc]

\* SafetyRules has given the vote of the round, and the vote is saved.
VotedNow(n) == n.safety.last_vote # NoBlock /\ RoundOf[n.safety.last_vote] = n.current_round
SavedNow(n) ==
  /\ n.last_vote \in Voted /\ RoundOf[n.last_vote] = n.current_round
  /\ n.safety.last_voted_round = n.current_round

LEMMA SafetyRulesVoteGood ==
  ASSUME NEW n, Good(n), NEW b, VotableNow(n, b), NEW o \in SafetyRulesVote(n, b)
  PROVE  o \in Answers /\ (o.ok => VotedNow(o.node))
<1> DEFINE d == n.safety
           e == DataAfterVote(d, b)
           m == [n EXCEPT !.safety = e]
<1>1. n \in NodeType /\ d \in SafetyDatas /\ Base(n) /\ n.current_round = CertifiedRound(n)
  BY NodeFields, Zenon DEF Good, Base
<1>2. b \in Voted /\ b \in Blocks /\ b # NoBlock /\ RoundOf[b] = n.current_round
  BY Constants, Zenon DEF VotableNow
<1>3. CASE d.last_vote # NoBlock /\ RoundOf[d.last_vote] = RoundOf[b]
  <2>1. o \in Ok(n, {})
    BY <1>3, Zenon DEF SafetyRulesVote
  <2>2. o \in Answers /\ o.node = n
    BY <2>1, OkIs
  <2> QED BY <1>2, <1>3, <2>2, Zenon DEF VotedNow
<1>4. CASE ~(d.last_vote # NoBlock /\ RoundOf[d.last_vote] = RoundOf[b])
           /\ RoundOf[b] > d.last_voted_round /\ SafeToVote(b, n.htc)
  <2>1. o \in Ok(m, {})
    BY <1>4, Zenon DEF SafetyRulesVote
  <2>2. /\ e \in SafetyDatas /\ e.last_vote = b /\ e.last_voted_round = RoundOf[b]
        /\ e.one_chain_round = Larger(d.one_chain_round, RoundOf[ParentOf[b]])
    BY <1>1, <1>2, DataFields, Constants, Zenon DEF DataAfterVote, SafetyDatas, Larger
  <2> HIDE DEF e
  <2>3. /\ m.hqc = n.hqc /\ m.htc = n.htc /\ m.current_round = n.current_round
        /\ m.pending = n.pending /\ m.vote_sent = n.vote_sent /\ m.safety = e
        /\ m.last_vote = n.last_vote /\ m \in NodeType
    BY <1>1, <2>2, Zenon DEF NodeType
  <2> HIDE DEF m
  <2>4. DataOK(m.safety, m.current_round, RoundOf[m.hqc])
    <3>1. d.one_chain_round <= RoundOf[n.hqc] /\ RoundOf[ParentOf[b]] <= RoundOf[n.hqc]
      BY <1>1, Zenon DEF Base, DataOK, VotableNow
    <3>2. RoundOf[n.hqc] \in Nat /\ d.one_chain_round \in Nat /\ RoundOf[ParentOf[b]] \in Nat
      BY <1>1, <1>2, NodeFields, DataFields, Constants, Zenon
    <3>3. e.one_chain_round <= RoundOf[n.hqc]
      BY <2>2, <3>1, <3>2, ZenonT(40) DEF Larger
    <3> QED BY <1>1, <1>2, <2>2, <2>3, <3>3, NodeFields DEF DataOK
  <2>5. m.last_vote # NoBlock => RoundOf[m.last_vote] <= m.safety.last_voted_round
    BY <1>1, <1>2, <1>4, <2>2, <2>3, NodeFields, DataFields, Constants, SMTT(30) DEF Base
  <2>6. Base(m)
    BY <1>1, <1>2, <2>2, <2>3, <2>4, <2>5, Zenon DEF Base
  <2>7. Good(m)
    BY <1>1, <2>3, <2>6, Zenon DEF Good, CertifiedRound
  <2>8. o \in Answers /\ o.node = m
    BY <2>1, <2>7, OkIs
  <2> QED BY <1>2, <2>2, <2>3, <2>8, Zenon DEF VotedNow
<1>5. CASE ~(d.last_vote # NoBlock /\ RoundOf[d.last_vote] = RoundOf[b])
           /\ ~(RoundOf[b] > d.last_voted_round /\ SafeToVote(b, n.htc))
  <2>1. o \in Err(n, {})
    BY <1>5, Zenon DEF SafetyRulesVote
  <2> QED BY <2>1, ErrorIs, Zenon
<1> QED BY <1>3, <1>4, <1>5, Zenon

LEMMA FaultGood ==
  ASSUME NEW v, NEW n, Good(n), NEW o \in Fault(v, n)
  PROVE  o \in Answers /\ ~o.ok
<1> DEFINE m == [n EXCEPT !.faults = @ + 1]
<1>1. n \in NodeType /\ n.faults \in 0..MaxFaults
  BY NodeFields, Zenon DEF Good, Base
<1>2. MayFail(v, n) /\ o \in Err(m, {})
  BY Zenon DEF Fault
<1>3. n.faults + 1 \in 0..MaxFaults
  BY <1>1, <1>2, Constants DEF MayFail
<1>4. /\ m.hqc = n.hqc /\ m.htc = n.htc /\ m.current_round = n.current_round
      /\ m.pending = n.pending /\ m.vote_sent = n.vote_sent /\ m.safety = n.safety
      /\ m.last_vote = n.last_vote /\ m \in NodeType
  BY <1>1, <1>3, Zenon DEF NodeType
<1> HIDE DEF m
<1>5. Good(m)
  BY <1>4, Zenon DEF Good, Base, CertifiedRound
<1> QED BY <1>2, <1>5, ErrorIs, Zenon

LEMMA SaveVoteGood ==
  ASSUME NEW v, NEW n, Good(n), VotedNow(n), NEW o \in SaveVote(v, n)
  PROVE  o \in Answers /\ (o.ok => SavedNow(o.node))
<1> DEFINE m == [n EXCEPT !.last_vote = n.safety.last_vote]
<1>1. n \in NodeType /\ n.safety \in SafetyDatas /\ Base(n)
  BY NodeFields, Zenon DEF Good, Base
<1>2. /\ n.safety.last_vote \in Voted /\ RoundOf[n.safety.last_vote] = n.current_round
      /\ n.safety.last_voted_round = n.current_round
  BY <1>1, DataFields, Zenon DEF VotedNow, Base, DataOK
<1>3. /\ m.hqc = n.hqc /\ m.htc = n.htc /\ m.current_round = n.current_round
      /\ m.pending = n.pending /\ m.vote_sent = n.vote_sent /\ m.safety = n.safety
      /\ m.last_vote = n.safety.last_vote /\ m \in NodeType
  BY <1>1, <1>2, ZenonT(40) DEF NodeType
<1> HIDE DEF m
<1>4. Good(m) /\ SavedNow(m)
  BY <1>1, <1>2, <1>3, NodeFields, SMTT(30) DEF Good, Base, CertifiedRound, SavedNow
<1>5. o \in Ok(m, {}) \/ o \in Fault(v, n)
  BY Zenon DEF SaveVote, m
<1> QED BY <1>4, <1>5, OkIs, FaultGood

LEMMA ExecuteAndVoteGood ==
  ASSUME NEW v, NEW n, Good(n), NEW b, VotableNow(n, b), NEW o \in ExecuteAndVote(v, n, b)
  PROVE  o \in Answers /\ (o.ok => SavedNow(o.node))
<1>1. CASE n.vote_sent # NoVote
  <2>1. o \in Err(n, {})
    BY <1>1, Zenon DEF ExecuteAndVote
  <2> QED BY <2>1, ErrorIs, Zenon
<1>2. CASE n.vote_sent = NoVote
  <2>1. PICK q \in SafetyRulesVote(n, b) :
          o \in IF q.ok THEN {[p EXCEPT !.out = @ \cup q.out] : p \in SaveVote(v, q.node)}
                ELSE {q}
    BY <1>2, Zenon DEF ExecuteAndVote, Then
  <2>2. q \in Answers /\ Good(q.node) /\ (q.ok => VotedNow(q.node))
    BY SafetyRulesVoteGood, Zenon DEF Answers
  <2>3. CASE ~q.ok
    BY <2>1, <2>2, <2>3, Zenon
  <2>4. CASE q.ok
    <3>1. PICK p \in SaveVote(v, q.node) : o = [p EXCEPT !.out = @ \cup q.out]
      BY <2>1, <2>4, Zenon
    <3>2. p \in Answers /\ (p.ok => SavedNow(p.node))
      BY <2>2, <2>4, SaveVoteGood, Zenon
    <3>3. o \in Answers /\ o.node = p.node /\ o.ok = p.ok
      BY <2>2, <3>1, <3>2, Joined, Zenon
    <3> QED BY <3>2, <3>3, Zenon
  <2> QED BY <2>3, <2>4, Zenon
<1> QED BY <1>1, <1>2, Zenon

\* The vote of the round is sent, and kept as the one sent.
LEMMA VoteSentGood ==
  ASSUME NEW v \in Validators, NEW n, Good(n), NEW vote \in Votes,
         VoteOK(vote, n.current_round, RoundOf[n.hqc]),
         n.safety.last_voted_round = n.current_round
  PROVE  Good([n EXCEPT !.vote_sent = vote]) /\ {VoteMsg(v, vote, n)} \in SUBSET Messages
<1> DEFINE m == [n EXCEPT !.vote_sent = vote]
<1>1. n \in NodeType /\ Base(n) /\ CertOK(n.htc, RoundOf[n.hqc])
  BY Zenon DEF Good, Base
<1>2. /\ m.hqc = n.hqc /\ m.htc = n.htc /\ m.current_round = n.current_round
      /\ m.pending = n.pending /\ m.vote_sent = vote /\ m.safety = n.safety
      /\ m.last_vote = n.last_vote /\ m \in NodeType
  BY <1>1, Zenon DEF NodeType
<1> HIDE DEF m
<1>3. Good(m)
  BY <1>1, <1>2, Zenon DEF Good, Base, CertifiedRound
<1>4. VoteOK(vote, RoundOf[vote.block], RoundOf[n.hqc])
  BY Zenon DEF VoteOK
<1> QED BY <1>1, <1>3, <1>4, MessagesAre, Zenon DEF m

LEMMA SignTimeoutGood ==
  ASSUME NEW v \in Validators, NEW n, Good(n), NEW vote \in Votes,
         VoteOK(vote, n.current_round, RoundOf[n.hqc]),
         n.safety.last_voted_round = n.current_round, NEW o \in SignTimeout(v, n, vote)
  PROVE  o \in Answers
<1> DEFINE w == IF is_timeout(vote) THEN vote ELSE [vote EXCEPT !.timeout = RoundOf[n.hqc]]
           m == [n EXCEPT !.vote_sent = w]
           sent == {VoteMsg(v, w, n)}
<1>1. n \in NodeType /\ RoundOf[n.hqc] \in Nat /\ RoundOf[n.hqc] < n.current_round
  BY NodeFields, SMTT(30) DEF Good, Base, CertifiedRound, Larger
<1>2. w \in Votes /\ VoteOK(w, n.current_round, RoundOf[n.hqc])
  BY <1>1 DEF Votes, VoteOK, is_timeout
<1> HIDE DEF w
<1>3. Good(m) /\ sent \in SUBSET Messages
  BY <1>2, VoteSentGood, Zenon
<1> HIDE DEF m, sent
<1>4. o \in Ok(m, sent) \/ o \in Err(n, {})
  BY Zenon DEF SignTimeout, m, sent, w
<1>5. CASE o \in Ok(m, sent)
  BY <1>3, <1>5, OkIs, Zenon
<1>6. CASE o \in Err(n, {})
  BY <1>6, ErrorIs, Zenon
<1> QED BY <1>4, <1>5, <1>6, ZenonT(40)

LEMMA SavedVote ==
  ASSUME NEW n, Good(n), SavedNow(n)
  PROVE  /\ VoteFor(n.last_vote) \in Votes
         /\ VoteOK(VoteFor(n.last_vote), n.current_round, RoundOf[n.hqc])
BY DEF SavedNow, VoteFor, Votes, VoteOK

\* The nil block a validator would vote for when its timer fires.
LEMMA NilBlock ==
  ASSUME NEW n, Good(n), n.current_round \in Acted
  PROVE  /\ VotableNow(n, BlockOf(n.current_round, n.hqc, Nil))
         /\ ParentOf[BlockOf(n.current_round, n.hqc, Nil)] = n.hqc
<1>1. n \in NodeType /\ n.hqc \in Blocks /\ RoundOf[n.hqc] < n.current_round /\ Nil \in -1..MaxFaults
  BY NodeFields, Constants, SMTT(30) DEF Good, Base, CertifiedRound, Larger, Nil
<1>2. /\ BlockOf(n.current_round, n.hqc, Nil) \in Voted
      /\ RoundOf[BlockOf(n.current_round, n.hqc, Nil)] = n.current_round
      /\ ParentOf[BlockOf(n.current_round, n.hqc, Nil)] = n.hqc
  BY <1>1, NewBlock
<1> QED BY <1>1, <1>2, NodeFields, SMTT(30) DEF VotableNow

LEMMA LocalTimeoutGood ==
  ASSUME NEW v \in Validators, NEW n, Good(n), n.current_round \in Acted,
         NEW o \in LocalTimeout(v, n)
  PROVE  o \in Answers
<1>1. CASE n.vote_sent # NoVote
  <2>1. n.vote_sent \in Votes
    BY NodeFields, Zenon DEF Good, Base
  <2>2. /\ VoteOK(n.vote_sent, n.current_round, RoundOf[n.hqc])
        /\ n.safety.last_voted_round = n.current_round
    BY <1>1, Zenon DEF Good, Base
  <2>3. o \in SignTimeout(v, n, n.vote_sent)
    BY <1>1, Zenon DEF LocalTimeout
  <2> QED BY <2>1, <2>2, <2>3, SignTimeoutGood, Zenon
<1>2. CASE n.vote_sent = NoVote
  <2> DEFINE nil == BlockOf(n.current_round, n.hqc, Nil)
  <2>1. VotableNow(n, nil)
    BY NilBlock, Zenon
  <2>2. PICK q \in ExecuteAndVote(v, n, nil) :
          o \in IF q.ok THEN {[p EXCEPT !.out = @ \cup q.out] :
                                p \in SignTimeout(v, q.node, VoteFor(q.node.last_vote))}
                ELSE {q}
    BY <1>2, Zenon DEF LocalTimeout, Then
  <2> HIDE DEF nil
  <2>3. q \in Answers /\ Good(q.node) /\ (q.ok => SavedNow(q.node))
    BY <2>1, ExecuteAndVoteGood, Zenon DEF Answers
  <2>4. CASE ~q.ok
    BY <2>2, <2>3, <2>4, Zenon
  <2>5. CASE q.ok
    <3>1. PICK p \in SignTimeout(v, q.node, VoteFor(q.node.last_vote)) :
            o = [p EXCEPT !.out = @ \cup q.out]
      BY <2>2, <2>5, Zenon
    <3>2. /\ VoteFor(q.node.last_vote) \in Votes
          /\ VoteOK(VoteFor(q.node.last_vote), q.node.current_round, RoundOf[q.node.hqc])
          /\ q.node.safety.last_voted_round = q.node.current_round
      BY <2>3, <2>5, SavedVote, Zenon DEF SavedNow
    <3>3. p \in Answers
      BY <2>3, <3>2, SignTimeoutGood, Zenon
    <3> QED BY <2>3, <3>1, <3>3, Joined, Zenon
  <2> QED BY <2>4, <2>5, Zenon
<1> QED BY <1>1, <1>2, Zenon

LEMMA VoteGood ==
  ASSUME NEW v \in Validators, NEW n, Good(n), NEW b, VotableNow(n, b), NEW o \in Vote(v, n, b)
  PROVE  o \in Answers
<1>1. PICK q \in ExecuteAndVote(v, n, b) :
        o \in IF q.ok
              THEN {[p EXCEPT !.out = @ \cup q.out] :
                      p \in Ok([q.node EXCEPT !.vote_sent = VoteFor(q.node.last_vote)],
                               {VoteMsg(v, VoteFor(q.node.last_vote), q.node)})}
              ELSE {q}
  BY Zenon DEF Vote, Then
<1>2. q \in Answers /\ Good(q.node) /\ (q.ok => SavedNow(q.node))
  BY ExecuteAndVoteGood, Zenon DEF Answers
<1>3. CASE ~q.ok
  BY <1>1, <1>2, <1>3, Zenon
<1>4. CASE q.ok
  <2> DEFINE vote == VoteFor(q.node.last_vote)
             m == [q.node EXCEPT !.vote_sent = vote]
             sent == {VoteMsg(v, vote, q.node)}
  <2>1. /\ vote \in Votes /\ VoteOK(vote, q.node.current_round, RoundOf[q.node.hqc])
        /\ q.node.safety.last_voted_round = q.node.current_round
    BY <1>2, <1>4, SavedVote, Zenon DEF SavedNow
  <2>2. PICK p \in Ok(m, sent) : o = [p EXCEPT !.out = @ \cup q.out]
    BY <1>1, <1>4, Zenon
  <2> HIDE DEF vote
  <2>3. Good(m) /\ sent \in SUBSET Messages
    BY <1>2, <2>1, VoteSentGood, Zenon
  <2> HIDE DEF m, sent
  <2>4. p \in Answers
    BY <2>3, OkIs, Zenon
  <2> QED BY <1>2, <2>2, <2>4, Joined, Zenon
<1> QED BY <1>3, <1>4, Zenon

LEMMA ProcessProposalGood ==
  ASSUME NEW v \in Validators, NEW n, Good(n), NEW b, VotableNow(n, b),
         NEW o \in ProcessProposal(v, n, b)
  PROVE  o \in Answers
<1> DEFINE m == [n EXCEPT !.already_proposed = b]
<1>1. n \in NodeType /\ b \in Blocks
  BY Constants, Zenon DEF Good, Base, VotableNow
<1>2. /\ m.hqc = n.hqc /\ m.htc = n.htc /\ m.current_round = n.current_round
      /\ m.pending = n.pending /\ m.vote_sent = n.vote_sent /\ m.safety = n.safety
      /\ m.last_vote = n.last_vote /\ m \in NodeType
  BY <1>1, Zenon DEF NodeType
<1> HIDE DEF m
<1>3. Good(m) /\ VotableNow(m, b)
  BY <1>2, Zenon DEF Good, Base, CertifiedRound, VotableNow
<1>4. o \in Vote(v, m, b) \/ o \in Fault(v, m) \/ o \in Err(n, {})
  BY Zenon DEF ProcessProposal, m
<1>5. CASE o \in Vote(v, m, b)
  BY <1>3, <1>5, VoteGood, Zenon
<1>6. CASE o \in Fault(v, m)
  BY <1>3, <1>6, FaultGood, Zenon
<1>7. CASE o \in Err(n, {})
  BY <1>7, ErrorIs, Zenon
<1> QED BY <1>4, <1>5, <1>6, <1>7, Zenon

-----------------------------------------------------------------------------
(* Pending votes *)

LEMMA PendingFields ==
  ASSUME NEW p \in Pendings
  PROVE  /\ p.author_to_vote \in [Validators -> Votes] /\ p.signed \in Signatures
         /\ p.hqc_round \in Int /\ p.echo_timeout \in BOOLEAN
         /\ DOMAIN p.signed \subseteq Validators /\ p.signed \in [DOMAIN p.signed -> Int]
BY SignaturesAre, Zenon DEF Pendings

\* One more signer, with a signature for the round it brings.
LEMMA AddTimeoutOK ==
  ASSUME NEW p \in Pendings, NEW round \in Nat, NEW r \in Nat, PendingOK(p, round, r),
         NEW u \in Validators, u \notin DOMAIN p.signed, is_timeout(p.author_to_vote[u]),
         NEW h \in Nat, h <= r, h < round
  PROVE  /\ AddTimeout(p, u, h) \in Pendings /\ PendingOK(AddTimeout(p, u, h), round, r)
         /\ u \in DOMAIN AddTimeout(p, u, h).signed
<1> DEFINE f == AddSignature(p.signed, u, h)
           g == Larger(p.hqc_round, h)
           q == AddTimeout(p, u, h)
<1>1. /\ DOMAIN f = DOMAIN p.signed \cup {u} /\ f[u] = h /\ f \in [DOMAIN f -> Int]
      /\ \A x \in DOMAIN p.signed : f[x] = p.signed[x]
  BY PendingFields DEF AddSignature
<1>2. f \in Signatures
  BY <1>1, PendingFields, SignaturesAre, Zenon
<1>3. g \in Nat /\ g \in {p.hqc_round, h} /\ g >= h /\ g >= p.hqc_round /\ g <= r /\ g < round
  BY PendingFields DEF PendingOK, Larger
<1> HIDE DEF f, g
<1>4. /\ q.author_to_vote = p.author_to_vote /\ q.signed = f /\ q.hqc_round = g
      /\ q \in Pendings
  <2> DEFINE k == [p EXCEPT !.signed = f]
  <2>1. q = [k EXCEPT !.hqc_round = g]
    BY Zenon DEF AddTimeout, f, g
  <2>2. /\ k \in Pendings /\ k.author_to_vote = p.author_to_vote /\ k.signed = f
    BY <1>2, SMTT(30) DEF Pendings
  <2> HIDE DEF k, q
  <2> QED BY <1>3, <2>1, <2>2 DEF Pendings
<1> HIDE DEF q
<1>5. \A x \in DOMAIN p.signed : p.signed[x] <= p.hqc_round /\ p.signed[x] \in Int
  BY PendingFields, Zenon DEF PendingOK
<1>6. \A x \in DOMAIN f : f[x] <= g
  BY <1>1, <1>3, <1>5, PendingFields
<1>7. \E x \in DOMAIN f : f[x] = g
  <2>1. CASE g = h
    BY <1>1, <2>1, Zenon
  <2>2. CASE g = p.hqc_round /\ g # h
    <3>1. \E x \in DOMAIN p.signed : p.signed[x] = p.hqc_round
      BY <1>3, <2>2 DEF PendingOK
    <3> QED BY <1>1, <2>2, <3>1, Zenon
  <2> QED BY <1>3, <2>1, <2>2, Zenon
<1>8. DOMAIN f \subseteq {x \in Validators : is_timeout(p.author_to_vote[x])}
  BY <1>1, Zenon DEF PendingOK
<1>9. PendingOK(q, round, r)
  BY <1>3, <1>4, <1>6, <1>7, <1>8, Zenon DEF PendingOK
<1> QED BY <1>1, <1>4, <1>9, Zenon DEF q

\* insert_vote keeps the pending votes in order.  A timeout is added only for an author whose
\* vote so far had none, so the author is no signer yet.
LEMMA InsertVoteOK ==
  ASSUME NEW p \in Pendings, NEW round \in Nat, NEW r \in Nat, PendingOK(p, round, r),
         NEW author \in Validators, NEW vote \in Votes, VoteOK(vote, round, r)
  PROVE  /\ InsertVote(p, author, vote).pending \in Pendings
         /\ PendingOK(InsertVote(p, author, vote).pending, round, r)
         /\ InsertVote(p, author, vote).result = "New2ChainTimeoutCertificate" =>
              /\ author \in DOMAIN InsertVote(p, author, vote).pending.signed
              /\ DOMAIN InsertVote(p, author, vote).pending.signed \in Quorums
<1> DEFINE seen == p.author_to_vote[author]
           stored == [p EXCEPT !.author_to_vote[author] = vote]
           partial == AddTimeout(stored, author, vote.timeout)
           echoed == [partial EXCEPT !.echo_timeout = TRUE]
           a == InsertVote(p, author, vote)
<1>1. CASE (seen # NoVote /\ seen.block # vote.block) \/ DuplicateVote(seen, vote)
  <2>1. a \in {Received("EquivocateVote", p), Received("DuplicateVote", p)}
    BY <1>1, Zenon DEF InsertVote
  <2> QED BY <2>1 DEF Received
<1>2. CASE ~(seen # NoVote /\ seen.block # vote.block) /\ ~DuplicateVote(seen, vote)
  <2>1. /\ stored.author_to_vote = [p.author_to_vote EXCEPT ![author] = vote]
        /\ stored.signed = p.signed /\ stored.hqc_round = p.hqc_round /\ stored \in Pendings
    BY PendingFields, Zenon DEF Pendings
  <2>2. vote.block # NoBlock /\ NoVote.block = NoBlock /\ ~is_timeout(NoVote)
    BY Constants, Zenon DEF VoteOK, NoVote, is_timeout
  <2>3. ~is_timeout(seen)
    BY <1>2, <2>2, Zenon DEF DuplicateVote
  <2>4. author \notin DOMAIN p.signed
    BY <2>3, Zenon DEF PendingOK
  <2>5. PendingOK(stored, round, r)
    <3>1. \A x \in DOMAIN p.signed : stored.author_to_vote[x] = p.author_to_vote[x]
      BY <2>1, <2>4, PendingFields, ZenonT(40)
    <3>2. DOMAIN p.signed \subseteq {x \in Validators : is_timeout(stored.author_to_vote[x])}
      BY <3>1, Zenon DEF PendingOK
    <3> HIDE DEF stored
    <3> QED BY <2>1, <3>2, Zenon DEF PendingOK
  <2>6. stored.author_to_vote[author] = vote
    BY <2>1, PendingFields
  <2> HIDE DEF stored
  <2>7. ASSUME is_timeout(vote)
        PROVE  /\ partial \in Pendings /\ PendingOK(partial, round, r)
               /\ author \in DOMAIN partial.signed
    <3>1. vote.timeout \in Nat /\ vote.timeout <= r /\ vote.timeout < round
      BY <2>7, Zenon DEF VoteOK, is_timeout
    <3> QED BY <2>1, <2>4, <2>5, <2>6, <2>7, <3>1, AddTimeoutOK, Zenon
  <2> HIDE DEF partial
  <2>8. \/ a \in {Received("NewQuorumCertificate", stored), Received("VoteAdded", stored)}
        \/ /\ is_timeout(vote)
           /\ \/ a \in {Received("VoteAdded", partial), Received("EchoTimeout", echoed)}
              \/ a = Received("New2ChainTimeoutCertificate", partial)
                 /\ DOMAIN partial.signed \in Quorums
    BY <1>2, ZenonT(40) DEF InsertVote, stored, partial
  <2> HIDE DEF a, seen
  <2>9. CASE a \in {Received("NewQuorumCertificate", stored), Received("VoteAdded", stored)}
    BY <2>1, <2>5, <2>9, SMTT(30) DEF Received, a
  <2>10. CASE is_timeout(vote) /\ a = Received("VoteAdded", partial)
    BY <2>7, <2>10, SMTT(30) DEF Received, a
  <2>11. CASE is_timeout(vote) /\ a = Received("EchoTimeout", echoed)
    <3>1. /\ echoed.author_to_vote = partial.author_to_vote /\ echoed.signed = partial.signed
          /\ echoed.hqc_round = partial.hqc_round /\ echoed \in Pendings
      BY <2>7, <2>11, Zenon DEF Pendings
    <3> HIDE DEF echoed
    <3>2. PendingOK(echoed, round, r)
      BY <2>7, <2>11, <3>1, Zenon DEF PendingOK
    <3> QED BY <2>11, <3>1, <3>2 DEF Received, a
  <2>12. CASE is_timeout(vote) /\ a = Received("New2ChainTimeoutCertificate", partial)
              /\ DOMAIN partial.signed \in Quorums
    BY <2>7, <2>12 DEF Received, a
  <2> QED BY <2>8, <2>9, <2>10, <2>11, <2>12, Zenon
<1> QED BY <1>1, <1>2, Zenon

\* The certificate the pending timeouts add up to.
LEMMA TimeoutCertOK ==
  ASSUME NEW p \in Pendings, NEW round \in Nat, NEW r \in Nat, PendingOK(p, round, r),
         DOMAIN p.signed # {}, DOMAIN p.signed \in Quorums
  PROVE  TimeoutCert(p, round) \in Certs /\ CertOK(TimeoutCert(p, round), r)
         /\ TimeoutCert(p, round).round = round
<1> DEFINE tc == TimeoutCert(p, round)
<1>1. tc.round = round /\ tc.hqc_round = p.hqc_round /\ tc.signed = p.signed
  BY Zenon DEF TimeoutCert
<1>2. p.hqc_round \in Nat /\ \E u \in DOMAIN p.signed : p.signed[u] = p.hqc_round
  BY Zenon DEF PendingOK
<1>3. tc \in Certs
  BY <1>2, PendingFields, Zenon DEF TimeoutCert, Certs
<1> HIDE DEF tc
<1>4. CertVerifies(tc)
  BY <1>1, <1>2, Zenon DEF CertVerifies, PendingOK
<1> QED BY <1>1, <1>3, <1>4, Zenon DEF CertOK, PendingOK, tc

-----------------------------------------------------------------------------
(* Handlers *)

LEMMA ProcessVoteGood ==
  ASSUME NEW v \in Validators, NEW n, Good(n), NEW author \in Validators,
         NEW vote \in Votes, VoteOK(vote, n.current_round, RoundOf[n.hqc]),
         NEW o \in ProcessVote(v, n, author, vote)
  PROVE  o \in Answers
<1> DEFINE r == InsertVote(n.pending, author, vote)
           m == [n EXCEPT !.pending = r.pending]
           tc == TimeoutCert(r.pending, n.current_round)
           q == InsertQC(m, vote.block)
           t == InsertTC(m, tc)
<1>1. n \in NodeType /\ Base(n) /\ n.current_round = CertifiedRound(n)
  BY Zenon DEF Good, Base
<1>2. /\ r.pending \in Pendings
      /\ PendingOK(r.pending, n.current_round, RoundOf[n.hqc])
      /\ r.result = "New2ChainTimeoutCertificate" =>
           author \in DOMAIN r.pending.signed /\ DOMAIN r.pending.signed \in Quorums
  <2>1. /\ n.pending \in Pendings /\ n.current_round \in Nat /\ RoundOf[n.hqc] \in Nat
        /\ PendingOK(n.pending, n.current_round, RoundOf[n.hqc])
    BY <1>1, NodeFields, Zenon DEF Base
  <2> QED BY <2>1, InsertVoteOK, Zenon
<1>3. \/ o \in Err(n, {})
      \/ o \in ProcessCertificates(v, q)
      \/ r.result = "New2ChainTimeoutCertificate" /\ o \in ProcessCertificates(v, t)
      \/ o \in LocalTimeout(v, m)
      \/ o \in Ok(m, {})
  BY Zenon DEF ProcessVote
<1> HIDE DEF r
<1>4. /\ m.hqc = n.hqc /\ m.htc = n.htc /\ m.current_round = n.current_round
      /\ m.pending = r.pending /\ m.vote_sent = n.vote_sent /\ m.safety = n.safety
      /\ m.last_vote = n.last_vote /\ m \in NodeType
  BY <1>1, <1>2, Zenon DEF NodeType
<1> HIDE DEF m, tc
<1>5. Good(m) /\ Base(m)
  BY <1>1, <1>2, <1>4, Zenon DEF Good, Base, CertifiedRound
<1>6. vote.block \in Blocks /\ m.current_round \in Acted
  BY <1>4, Constants, Zenon DEF VoteOK
<1>7. CASE o \in ProcessCertificates(v, q)
  <2>1. /\ Base(q) /\ q.current_round = m.current_round
        /\ RoundOf[q.hqc] >= RoundOf[m.hqc] /\ RoundOf[q.hqc] >= RoundOf[vote.block]
        /\ q.htc = m.htc
    BY <1>5, <1>6, InsertQCBase, ZenonT(40)
  <2> HIDE DEF q
  <2>2. q.current_round <= CertifiedRound(q)
    BY <1>1, <1>4, <2>1, NodeFields, SMTT(30) DEF CertifiedRound, Larger, Base
  <2> QED BY <1>7, <2>1, <2>2, ProcessCertificatesGood, Zenon
<1>8. CASE r.result = "New2ChainTimeoutCertificate" /\ o \in ProcessCertificates(v, t)
  <2>1. tc \in Certs /\ CertOK(tc, RoundOf[m.hqc])
    <3>1. /\ n.current_round \in Nat /\ RoundOf[n.hqc] \in Nat
          /\ DOMAIN r.pending.signed # {} /\ DOMAIN r.pending.signed \in Quorums
      BY <1>1, <1>2, <1>8, NodeFields, Zenon
    <3> QED BY <1>2, <1>4, <3>1, TimeoutCertOK, Zenon DEF tc
  <2>2. /\ Base(t) /\ t.current_round = m.current_round /\ t.hqc = m.hqc
        /\ t.htc.round >= m.htc.round /\ t.htc.round >= tc.round
    BY <1>5, <2>1, InsertTCBase, ZenonT(40)
  <2> HIDE DEF t
  <2>3. t.current_round <= CertifiedRound(t)
    BY <1>1, <1>4, <2>2, NodeFields, SMTT(30) DEF CertifiedRound, Larger, Base
  <2> QED BY <1>8, <2>2, <2>3, ProcessCertificatesGood, Zenon
<1>9. CASE o \in LocalTimeout(v, m)
  BY <1>5, <1>6, <1>9, LocalTimeoutGood, Zenon
<1>10. CASE o \in Ok(m, {})
  BY <1>5, <1>10, OkIs, Zenon
<1>11. CASE o \in Err(n, {})
  BY <1>11, ErrorIs, Zenon
<1> QED BY <1>3, <1>7, <1>8, <1>9, <1>10, <1>11, Zenon

LEMMA MessageFields ==
  ASSUME NEW msg \in Messages
  PROVE  /\ msg.author \in Validators /\ msg.sync_info \in Infos
         /\ msg.type \in {"Proposal", "Vote", "SyncInfo"}
         /\ msg.type = "Proposal" =>
              msg.block \in Voted /\ RoundOf[ParentOf[msg.block]] <= RoundOf[msg.sync_info.hqc]
         /\ msg.type = "Vote" =>
              /\ msg.vote \in Votes
              /\ VoteOK(msg.vote, RoundOf[msg.vote.block], RoundOf[msg.sync_info.hqc])
BY Zenon DEF Messages

LEMMA HandleGood ==
  ASSUME NEW v \in Validators, NEW n, Good(n), NEW msg \in Messages, NEW o \in Handle(v, n, msg)
  PROVE  o \in Answers
<1> DEFINE s == msg.sync_info
<1>1. s \in Infos /\ msg.author \in Validators /\ s.hqc \in Blocks
  BY MessageFields, Zenon DEF Infos
<1>2. PICK q \in EnsureRoundAndSyncUp(v, n, message_round(msg), s) :
        o \in IF q.ok
              THEN {[p EXCEPT !.out = @ \cup q.out] :
                      p \in CASE msg.type = "Proposal" -> ProcessProposal(v, q.node, msg.block)
                              [] msg.type = "Vote" -> ProcessVote(v, q.node, msg.author, msg.vote)
                              [] msg.type = "SyncInfo" -> Ok(q.node, {})}
              ELSE {q}
  BY Zenon DEF Handle, Then
<1> HIDE DEF s
<1>3. /\ q \in Answers /\ Good(q.node)
      /\ q.ok => /\ q.node.current_round = message_round(msg)
                 /\ RoundOf[q.node.hqc] >= RoundOf[s.hqc]
  BY <1>1, EnsureRoundGood, Zenon DEF Answers
<1>4. CASE ~q.ok
  BY <1>2, <1>3, <1>4, Zenon
<1>5. CASE q.ok
  <2>1. PICK p \in CASE msg.type = "Proposal" -> ProcessProposal(v, q.node, msg.block)
                     [] msg.type = "Vote" -> ProcessVote(v, q.node, msg.author, msg.vote)
                     [] msg.type = "SyncInfo" -> Ok(q.node, {}) :
          o = [p EXCEPT !.out = @ \cup q.out]
    BY <1>2, <1>5, Zenon
  <2>2. RoundOf[q.node.hqc] \in Nat /\ RoundOf[s.hqc] \in Nat
    BY <1>1, <1>3, NodeFields, Constants, Zenon DEF Good, Base
  <2>3. ASSUME msg.type = "Proposal" PROVE p \in Answers
    <3>1. p \in ProcessProposal(v, q.node, msg.block)
      BY <2>1, <2>3, Zenon
    <3>2. VotableNow(q.node, msg.block)
      BY <1>3, <1>5, <2>2, <2>3, MessageFields, Constants DEF VotableNow, message_round, s
    <3> QED BY <1>3, <3>1, <3>2, ProcessProposalGood, Zenon
  <2>4. ASSUME msg.type = "Vote" PROVE p \in Answers
    <3>1. p \in ProcessVote(v, q.node, msg.author, msg.vote)
      BY <2>1, <2>4, Zenon
    <3>2. VoteOK(msg.vote, q.node.current_round, RoundOf[q.node.hqc]) /\ msg.vote \in Votes
      BY <1>3, <1>5, <2>2, <2>4, MessageFields DEF VoteOK, message_round, s
    <3> QED BY <1>1, <1>3, <3>1, <3>2, ProcessVoteGood, Zenon
  <2>5. ASSUME msg.type = "SyncInfo" PROVE p \in Answers
    <3>1. p \in Ok(q.node, {})
      BY <2>1, <2>5, Zenon
    <3> QED BY <1>3, <3>1, OkIs, Zenon
  <2>6. p \in Answers
    BY <2>3, <2>4, <2>5, MessageFields, Zenon
  <2> QED BY <1>3, <2>1, <2>6, Joined, Zenon
<1> QED BY <1>4, <1>5, Zenon

-----------------------------------------------------------------------------
(* Steps *)

LEMMA BecomesStep ==
  ASSUME RoundInv, NEW v \in Validators, NEW o \in Answers, Becomes(v, o)
  PROVE  RoundInv'
<1>1. o.node \in NodeType /\ Good(o.node) /\ o.out \subseteq Messages
  BY Zenon DEF Answers
<1>2. network' \subseteq Messages
  BY <1>1, Zenon DEF Becomes, RoundInv
<1>3. node' \in [Validators -> NodeType] /\ \A u \in Validators : node'[u] \in {node[u], o.node}
                                       /\ (u = v => node'[u] = o.node) /\ (u # v => node'[u] = node[u])
  BY <1>1, Zenon DEF Becomes, RoundInv
<1>4. \A u \in Validators : Good(node'[u])
  BY <1>1, <1>3, Zenon DEF RoundInv
<1>5. ASSUME NEW u \in Validators
      PROVE  Good(node[u])'
  BY <1>4, Zenon DEF Good, Base, CertifiedRound
<1> QED BY <1>2, <1>3, <1>5, Zenon DEF RoundInv

LEMMA RestartGood ==
  ASSUME NEW v \in Flaky, NEW n, Good(n), MayFail(v, n), NEW o,
         o \in NewRoundEvent(v, [StartRound(n, highest_round(SyncInfo(n)) + 1) EXCEPT
                  !.vote_sent = IF n.last_vote # NoBlock
                                   /\ RoundOf[n.last_vote] = highest_round(SyncInfo(n)) + 1
                                THEN VoteFor(n.last_vote) ELSE NoVote,
                  !.already_proposed = Genesis, !.last_round_generated = 0,
                  !.faults = @ + 1])
  PROVE  o \in Answers
<1> DEFINE round == highest_round(SyncInfo(n)) + 1
           vote == IF n.last_vote # NoBlock /\ RoundOf[n.last_vote] = round
                   THEN VoteFor(n.last_vote) ELSE NoVote
           m == StartRound(n, round)
           m1 == [m EXCEPT !.vote_sent = vote]
           m2 == [m1 EXCEPT !.already_proposed = Genesis]
           m3 == [m2 EXCEPT !.last_round_generated = 0]
           fresh == [m3 EXCEPT !.faults = m.faults + 1]
<1>1. /\ n \in NodeType /\ Base(n) /\ n.current_round = CertifiedRound(n)
      /\ CertOK(n.htc, RoundOf[n.hqc])
  BY Zenon DEF Good, Base
<1>2. round = n.current_round /\ round = CertifiedRound(n)
  BY <1>1, SyncInfoIs, Zenon
<1>3. /\ Good(m) /\ m.hqc = n.hqc /\ m.current_round = round /\ m.safety = n.safety
      /\ m.last_vote = n.last_vote /\ m.faults = n.faults /\ m.vote_sent = NoVote
      /\ m \in NodeType
  <2>1. Good(m) /\ m.hqc = n.hqc
    BY <1>1, <1>2, NodeFields, StartRoundGood
  <2>2. m \in NodeType
    BY <2>1, Zenon DEF Good, Base
  <2> QED BY <1>1, <2>1, <2>2, Zenon DEF StartRound, NodeType
<1>4. o \in NewRoundEvent(v, fresh)
  OBVIOUS
<1> HIDE DEF m, round
<1>5. Good(m1) /\ m1.faults = n.faults /\ m1 \in NodeType
  <2>1. CASE n.last_vote # NoBlock /\ RoundOf[n.last_vote] = round
    <3>1. n.last_vote \in Voted /\ vote = VoteFor(n.last_vote)
      BY <1>1, <2>1, NodeFields, Zenon
    <3>2. n.safety.last_voted_round >= round /\ n.safety.last_voted_round <= round
      BY <1>1, <1>2, <2>1, Zenon DEF Base, DataOK
    <3>3. m.safety.last_voted_round = m.current_round
      BY <1>1, <1>2, <1>3, <3>2, NodeFields, DataFields, SMTT(30)
    <3>4. vote \in Votes /\ VoteOK(vote, m.current_round, RoundOf[m.hqc])
      BY <1>3, <2>1, <3>1, <3>3 DEF VoteFor, Votes, VoteOK
    <3> HIDE DEF vote
    <3>5. Good(m1) /\ v \in Validators
      BY <1>3, <3>3, <3>4, Constants, VoteSentGood, Zenon
    <3>6. m1 \in NodeType
      BY <3>5, Zenon DEF Good, Base
    <3> QED BY <1>3, <3>5, <3>6, Zenon DEF NodeType
  <2>2. CASE ~(n.last_vote # NoBlock /\ RoundOf[n.last_vote] = round)
    <3>1. vote = m.vote_sent
      BY <1>3, <2>2, Zenon
    <3>2. m1 = m
      BY <1>3, <3>1, Zenon DEF NodeType
    <3> QED BY <1>3, <3>2, Zenon
  <2> QED BY <2>1, <2>2, Zenon
<1> HIDE DEF m1
<1>6. Good(m2) /\ m2.faults = n.faults /\ m2 \in NodeType
  <2>1. /\ m2.hqc = m1.hqc /\ m2.htc = m1.htc /\ m2.current_round = m1.current_round
        /\ m2.pending = m1.pending /\ m2.vote_sent = m1.vote_sent /\ m2.safety = m1.safety
        /\ m2.last_vote = m1.last_vote /\ m2.faults = m1.faults /\ m2 \in NodeType
    BY <1>5, Constants, Zenon DEF NodeType
  <2> QED BY <1>5, <2>1, Zenon DEF Good, Base, CertifiedRound
<1> HIDE DEF m2
<1>7. Good(m3) /\ m3.faults = n.faults /\ m3 \in NodeType
  <2>1. /\ m3.hqc = m2.hqc /\ m3.htc = m2.htc /\ m3.current_round = m2.current_round
        /\ m3.pending = m2.pending /\ m3.vote_sent = m2.vote_sent /\ m3.safety = m2.safety
        /\ m3.last_vote = m2.last_vote /\ m3.faults = m2.faults /\ m3 \in NodeType
    BY <1>6, Zenon DEF NodeType
  <2> QED BY <1>6, <2>1, Zenon DEF Good, Base, CertifiedRound
<1> HIDE DEF m3
<1>8. Good(fresh)
  <2>1. m.faults + 1 \in 0..MaxFaults
    BY <1>1, <1>3, NodeFields, Constants DEF MayFail
  <2>2. /\ fresh.hqc = m3.hqc /\ fresh.htc = m3.htc /\ fresh.current_round = m3.current_round
        /\ fresh.pending = m3.pending /\ fresh.vote_sent = m3.vote_sent
        /\ fresh.safety = m3.safety /\ fresh.last_vote = m3.last_vote /\ fresh \in NodeType
    BY <1>7, <2>1, SMTT(30) DEF NodeType
  <2> QED BY <1>7, <2>2, Zenon DEF Good, Base, CertifiedRound
<1> HIDE DEF fresh
<1>9. v \in Validators
  BY Constants, Zenon
<1> QED BY <1>4, <1>8, <1>9, NewRoundGood, Zenon

LEMMA InitRound == Init => RoundInv
<1> SUFFICES ASSUME Init PROVE RoundInv
  OBVIOUS
<1> DEFINE first == [v \in Validators |-> CHOOSE o \in ProcessCertificates(v, NewNode) : TRUE]
<1>1. /\ NewNode \in NodeType /\ NewNode.hqc = Genesis /\ NewNode.htc = NoCert
      /\ NewNode.current_round = 0 /\ NewNode.pending = NewPendingVotes
      /\ NewNode.vote_sent = NoVote /\ NewNode.safety = EmptyData
      /\ NewNode.last_vote = NoBlock
  BY Constants, Records DEF NewNode, NodeType
<1>2. CertOK(NoCert, 0) /\ PendingOK(NewPendingVotes, 0, 0) /\ NoCert.round = 0
  BY Records, Zenon DEF NoCert
<1>3. DataOK(EmptyData, 0, 0)
  BY SMTT(30) DEF DataOK, EmptyData
<1>4. Base(NewNode) /\ NewNode.current_round <= CertifiedRound(NewNode)
  BY <1>1, <1>2, <1>3, Constants DEF Base, CertifiedRound, Larger
<1>5. ASSUME NEW v \in Validators
      PROVE  first[v] \in Answers
  <2>1. first[v] \in ProcessCertificates(v, NewNode)
    BY ProcessCertificatesAnswers, Zenon
  <2> QED BY <1>4, <2>1, ProcessCertificatesGood, Zenon
<1>6. node = [v \in Validators |-> first[v].node] /\ network = UNION {first[v].out : v \in Validators}
  BY Zenon DEF Init
<1> HIDE DEF first
<1> QED BY <1>5, <1>6, ZenonT(40) DEF RoundInv, Answers

LEMMA RoundStep ==
  ASSUME RoundInv, [Next]_vars
  PROVE  RoundInv'
<1>1. ASSUME NEW v \in Validators, NEW msg \in network, Deliver(v, msg)
      PROVE  RoundInv'
  <2>1. PICK o \in Handle(v, node[v], msg) : Becomes(v, o)
    BY <1>1, Zenon DEF Deliver
  <2>2. o \in Answers
    BY <2>1, HandleGood, Zenon DEF RoundInv
  <2> QED BY <2>1, <2>2, BecomesStep, Zenon
<1>2. ASSUME NEW v \in Validators, Timeout(v)
      PROVE  RoundInv'
  <2>1. PICK o \in LocalTimeout(v, node[v]) : Becomes(v, o)
    BY <1>2, Zenon DEF Timeout
  <2>2. Good(node[v]) /\ node[v].current_round \in Acted
    <3>1. Good(node[v]) /\ node[v] \in NodeType
      BY Zenon DEF RoundInv
    <3>2. node[v].current_round \in Nat /\ node[v].current_round > 0
      BY <3>1, NodeFields DEF Good, CertifiedRound, Larger
    <3> QED BY <1>2, <3>1, <3>2, Constants DEF Timeout, Acts, Acted
  <2>3. o \in Answers
    BY <2>1, <2>2, LocalTimeoutGood, Zenon
  <2> QED BY <2>1, <2>3, BecomesStep, Zenon
<1>3. ASSUME NEW v \in Flaky, Restart(v)
      PROVE  RoundInv'
  <2>1. v \in Validators /\ Good(node[v]) /\ MayFail(v, node[v])
    BY <1>3, Constants, ZenonT(40) DEF RoundInv, Restart
  <2>2. PICK o \in Answers : Becomes(v, o)
    BY <1>3, <2>1, RestartGood, Zenon DEF Restart
  <2> QED BY <2>1, <2>2, BecomesStep, Zenon
<1>4. CASE UNCHANGED vars
  BY <1>4, Zenon DEF vars, RoundInv, Good, Base, CertifiedRound
<1> QED BY <1>1, <1>2, <1>3, <1>4, Zenon DEF Next

-----------------------------------------------------------------------------
(* The timer of a good validator always gets its timeout signed *)

LEMMA TimeoutIsSigned ==
  ASSUME NEW v, NEW n, Good(n), NEW vote, n.safety.last_voted_round = n.current_round
  PROVE  \E o \in SignTimeout(v, n, vote) : o.ok
<1> DEFINE t == [round |-> n.current_round, hqc_round |-> RoundOf[n.hqc]]
<1>1. /\ n \in NodeType /\ n.safety \in SafetyDatas /\ n.safety.one_chain_round <= RoundOf[n.hqc]
      /\ n.current_round = CertifiedRound(n)
  BY NodeFields, Zenon DEF Good, Base, DataOK
<1>2. t.round >= n.safety.last_voted_round
  BY <1>1, NodeFields
<1>3. SafeToTimeout(t, n.htc, n.safety)
  BY <1>1, NodeFields, DataFields, Zenon DEF SafeToTimeout, CertifiedRound, Larger
<1> QED BY <1>2, <1>3, Zenon DEF SignTimeout, Ok

LEMMA NilVoteIsSigned ==
  ASSUME NEW n, Good(n), n.current_round \in Acted
  PROVE  \E o \in SafetyRulesVote(n, BlockOf(n.current_round, n.hqc, Nil)) : o.ok
<1> DEFINE nil == BlockOf(n.current_round, n.hqc, Nil)
           d == n.safety
<1>1. RoundOf[nil] = n.current_round /\ ParentOf[nil] = n.hqc
  BY NilBlock, Zenon DEF VotableNow
<1> HIDE DEF nil
<1>2. CASE d.last_vote # NoBlock /\ RoundOf[d.last_vote] = RoundOf[nil]
  BY <1>2, Zenon DEF SafetyRulesVote, Ok, nil
<1>3. CASE ~(d.last_vote # NoBlock /\ RoundOf[d.last_vote] = RoundOf[nil])
  <2>1. /\ n \in NodeType /\ d \in SafetyDatas /\ n.current_round = CertifiedRound(n)
        /\ n.current_round \in Nat /\ n.current_round > 0
    BY NodeFields, Constants, Zenon DEF Good, Base
  <2>2. RoundOf[nil] > d.last_voted_round
    <3>1. DataOK(d, n.current_round, RoundOf[n.hqc])
      BY Zenon DEF Good, Base
    <3> QED BY <1>1, <1>3, <2>1, <3>1, DataFields DEF DataOK
  <2>3. SafeToVote(nil, n.htc)
    <3>1. n.htc.hqc_round <= RoundOf[n.hqc]
      BY Zenon DEF Good, Base, CertOK
    <3> QED BY <1>1, <2>1, <3>1, NodeFields, Zenon DEF SafeToVote, CertifiedRound, Larger
  <2> QED BY <1>3, <2>2, <2>3, Zenon DEF SafetyRulesVote, Ok, nil
<1> QED BY <1>2, <1>3, Zenon

LEMMA NilVoteIsSaved ==
  ASSUME NEW v, NEW n, Good(n), n.current_round \in Acted, n.vote_sent = NoVote
  PROVE  \E o \in ExecuteAndVote(v, n, BlockOf(n.current_round, n.hqc, Nil)) : o.ok
<1> DEFINE nil == BlockOf(n.current_round, n.hqc, Nil)
<1>1. PICK q \in SafetyRulesVote(n, nil) : q.ok
  BY NilVoteIsSigned, Zenon
<1>2. PICK p : p \in SaveVote(v, q.node) /\ p = [ok |-> TRUE,
                  node |-> [q.node EXCEPT !.last_vote = q.node.safety.last_vote], out |-> {}]
  BY Zenon DEF SaveVote, Ok
<1>3. [p EXCEPT !.out = @ \cup q.out].ok
  BY <1>2, Zenon
<1> HIDE DEF nil
<1>4. [p EXCEPT !.out = @ \cup q.out] \in {[k EXCEPT !.out = @ \cup q.out] : k \in SaveVote(v, q.node)}
  BY <1>2, Zenon
<1>5. [p EXCEPT !.out = @ \cup q.out] \in ExecuteAndVote(v, n, nil)
  BY <1>1, <1>4, Zenon DEF ExecuteAndVote, Then
<1> QED BY <1>3, <1>5, Zenon DEF nil

LEMMA TimerWorks ==
  ASSUME NEW v \in Validators, NEW n, Good(n), n.current_round \in Acted
  PROVE  \E o \in LocalTimeout(v, n) : o.ok
<1>1. CASE n.vote_sent # NoVote
  <2>1. n.safety.last_voted_round = n.current_round
    BY <1>1, Zenon DEF Good, Base
  <2>2. LocalTimeout(v, n) = SignTimeout(v, n, n.vote_sent)
    BY <1>1, Zenon DEF LocalTimeout
  <2> QED BY <2>1, <2>2, TimeoutIsSigned, Zenon
<1>2. CASE n.vote_sent = NoVote
  <2> DEFINE nil == BlockOf(n.current_round, n.hqc, Nil)
  <2>1. PICK q \in ExecuteAndVote(v, n, nil) : q.ok
    BY <1>2, NilVoteIsSaved, Zenon
  <2>2. VotableNow(n, nil)
    BY NilBlock, Zenon
  <2> HIDE DEF nil
  <2>3. Good(q.node) /\ SavedNow(q.node) /\ q \in Answers
    BY <2>1, <2>2, ExecuteAndVoteGood, Zenon DEF Answers
  <2> DEFINE vote == VoteFor(q.node.last_vote)
  <2>4. PICK p \in SignTimeout(v, q.node, vote) : p.ok
    BY <2>3, TimeoutIsSigned, Zenon DEF SavedNow
  <2>5. p \in Answers
    BY <2>3, SavedVote, SignTimeoutGood, Zenon DEF SavedNow
  <2>6. [p EXCEPT !.out = @ \cup q.out].ok
    BY <2>3, <2>4, <2>5, Joined, Zenon
  <2>7. [p EXCEPT !.out = @ \cup q.out] \in LocalTimeout(v, n)
    BY <1>2, <2>1, <2>4 DEF LocalTimeout, Then, nil
  <2> QED BY <2>6, <2>7, Zenon
<1> QED BY <1>1, <1>2, Zenon

-----------------------------------------------------------------------------
(* Theorems *)

\* The invariant of the validators and of the messages on the way.
THEOREM RoundInvariant == Spec => []RoundInv
BY InitRound, RoundStep, PTL DEF Spec

\* Every timeout certificate a validator has verifies, and the validator has a quorum
\* certificate as high as the one it is for (PendingVotes.insert_vote, BlockStore.add_certs).
THEOREM TimeoutCertificatesVerify == Spec => []CertificatesVerify
<1>1. RoundInv => CertificatesVerify
  BY Zenon DEF RoundInv, Good, Base, CertOK, CertificatesVerify
<1> QED BY <1>1, RoundInvariant, PTL

\* No validator is ever locked in a round: when its timer fires SafetyRules may always sign
\* its vote and its timeout (process_local_timeout, safe_to_vote, safe_to_timeout).
THEOREM NobodyIsLocked == Spec => []CanTimeOut
<1>1. ASSUME RoundInv, NEW v \in Validators, Acts(v)
      PROVE  \E o \in LocalTimeout(v, node[v]) : o.ok
  <2>1. Good(node[v]) /\ node[v] \in NodeType
    BY <1>1, Zenon DEF RoundInv
  <2>2. node[v].current_round \in Nat /\ node[v].current_round > 0
    BY <2>1, NodeFields DEF Good, CertifiedRound, Larger
  <2>3. node[v].current_round \in Acted
    BY <1>1, <2>2, Constants DEF Acts, Acted
  <2> QED BY <2>1, <2>3, TimerWorks, Zenon
<1>2. RoundInv => CanTimeOut
  BY <1>1, Zenon DEF CanTimeOut
<1> QED BY <1>2, RoundInvariant, PTL
=============================================================================
