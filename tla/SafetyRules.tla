----------------------------- MODULE SafetyRules -----------------------------
(***************************************************************************)
(* The two-chain voting rules of consensus/safety-rules and the             *)
(* certificates their signatures can make, in one epoch.  Every honest      *)
(* validator runs SafetyRules over its own persistent store; the faulty     *)
(* ones sign whatever they like.  A signature, once given, can be used by   *)
(* anyone at any time, so the network is the growing set of votes and       *)
(* timeouts the honest validators have signed: a certificate exists as soon *)
(* as the signatures for it do, and messages may be lost, repeated and      *)
(* reordered.                                                               *)
(*                                                                          *)
(* A block id is the hash of the block, so what a block says, its round and *)
(* the parent its quorum certificate is for, is a constant: a block can be  *)
(* proposed as soon as that certificate exists.                             *)
(***************************************************************************)
EXTENDS TwoChainRules

CONSTANTS
  Faulty,    \* validators that do not follow the rules
  Flaky,     \* honest validators whose storage may fail and which may restart
  Blocks,    \* block ids, the genesis block's included
  Genesis,
  MaxRound,  \* the last round a timeout is signed for
  NoData     \* cached_safety_data is None

VARIABLES
  votes,     \* the blocks each honest validator has given out a vote for
  timeouts,  \* the timeouts each honest validator has signed
  stored,    \* each honest validator's SafetyData in its internal_store
  cached     \* PersistentSafetyStorage.cached_safety_data

vars == <<votes, timeouts, stored, cached>>

Honest == Validators \ Faulty
Rounds == 0..MaxRound
Timeouts == [round : Rounds, hqc_round : Rounds]
SafetyDatas == [last_voted_round : Nat, preferred_round : Nat,
                one_chain_round : Nat, last_vote : Blocks \cup {NoBlock}]

ASSUME SafetyAssumption ==
  /\ Faulty \subseteq Validators /\ Flaky \subseteq Validators \ Faulty
  /\ 3 * VotingPower(Faulty) < total_voting_power
  /\ Genesis \in Blocks /\ NoBlock \notin Blocks
  /\ RoundOf \in [Blocks -> Nat] /\ RoundOf[Genesis] = 0
  /\ ParentOf \in [Blocks -> Blocks] /\ ParentOf[Genesis] = Genesis
  /\ MaxRound \in Nat
  /\ NoData \notin SafetyDatas

-----------------------------------------------------------------------------
(* Certificates *)

\* A block and the blocks it extends: what every set that has b, and the parent of each
\* block it has, has in common.
Chain ==
  [b \in Blocks |->
     {a \in Blocks : \A S \in SUBSET Blocks :
        b \in S /\ (\A c \in S : ParentOf[c] \in S) => a \in S}]

\* QuorumCert.verify: a quorum has signed a vote for b.  Genesis needs no signature.
Certified(b) ==
  \/ b = Genesis
  \/ {v \in Honest : b \in votes[v]} \cup Faulty \in Quorums

CertifiedRounds == {RoundOf[b] : b \in {c \in Blocks : Certified(c)}}

\* TwoChainTimeoutCertificate.verify: a quorum has signed timeouts of round r, h is the
\* highest of the rounds they signed, and the certificate carries a valid quorum
\* certificate of that round, older than r.
TimeoutSigners(r, h) ==
  {v \in Honest : \E t \in timeouts[v] : t.round = r /\ t.hqc_round <= h} \cup Faulty

TimeoutCertified(r, h) ==
  /\ h < r
  /\ TimeoutSigners(r, h) \in Quorums
  /\ h \in CertifiedRounds
  /\ \/ Faulty # {}
     \/ \E v \in Honest : [round |-> r, hqc_round |-> h] \in timeouts[v]

\* What Option<&TwoChainTimeoutCertificate> may be: with none, the rules read zero for
\* both rounds.
TimeoutCerts ==
  {[round |-> 0, hqc_round |-> 0]} \cup {t \in Timeouts : TimeoutCertified(t.round, t.hqc_round)}

\* The two-chain commit rule of construct_ledger_info_2chain: a certified block commits
\* its parent when their rounds are consecutive.
Committed ==
  {ParentOf[b] : b \in {c \in Blocks \ {Genesis} :
     Certified(c) /\ RoundOf[c] = RoundOf[ParentOf[c]] + 1}}

-----------------------------------------------------------------------------
(* PersistentSafetyStorage *)

SafetyData(v) == IF cached[v] # NoData THEN cached[v] ELSE stored[v]

SetSafetyData(v, d) ==
  /\ stored' = [stored EXCEPT ![v] = d]
  /\ cached' = [cached EXCEPT ![v] = d]

\* Mutant of SetSafetyDataFails: the cache has the data that was not stored.
SetSafetyDataFailsCached(v, d) ==
  /\ v \in Flaky
  /\ stored' \in {stored, [stored EXCEPT ![v] = d]}
  /\ cached' = [cached EXCEPT ![v] = d]

\* The store returns an error, having written the data or not; the cache is dropped.
SetSafetyDataFails(v, d) ==
  /\ v \in Flaky
  /\ stored' \in {stored, [stored EXCEPT ![v] = d]}
  /\ cached' = [cached EXCEPT ![v] = NoData]

-----------------------------------------------------------------------------
(* SafetyRules *)

\* verify_proposal: the quorum certificate is valid and older than the block.
VerifyProposal(b) ==
  /\ b # Genesis
  /\ Certified(ParentOf[b])
  /\ RoundOf[ParentOf[b]] < RoundOf[b]

\* guarded_construct_and_sign_vote_two_chain for a round with no vote yet.  The vote is
\* returned only once the data that records it is stored.
ConstructAndSignVote(v, b) ==
  LET d == SafetyData(v)
      new == DataAfterVote(d, b)
  IN  /\ ~(d.last_vote # NoBlock /\ RoundOf[d.last_vote] = RoundOf[b])
      /\ RoundOf[b] > d.last_voted_round
      /\ VerifyProposal(b)
      /\ {tc \in TimeoutCerts : SafeToVote(b, tc)} # {}
      /\ \/ /\ SetSafetyData(v, new)
            /\ votes' = [votes EXCEPT ![v] = @ \cup {b}]
         \/ /\ SetSafetyDataFails(v, new)
            /\ UNCHANGED votes
      /\ UNCHANGED timeouts

\* Mutant of ReturnLastVote: the proposal of the round is signed, not the last vote.
ReturnNewVote(v, b) ==
  LET d == SafetyData(v)
  IN  /\ d.last_vote # NoBlock /\ RoundOf[d.last_vote] = RoundOf[b]
      /\ VerifyProposal(b)
      /\ votes' = [votes EXCEPT ![v] = @ \cup {b}]
      /\ cached' = [cached EXCEPT ![v] = d]
      /\ UNCHANGED <<timeouts, stored>>

\* The same call when the last vote is of the proposal's round: the stored vote is
\* returned, whatever block it is for.
ReturnLastVote(v, b) ==
  LET d == SafetyData(v)
  IN  /\ d.last_vote # NoBlock /\ RoundOf[d.last_vote] = RoundOf[b]
      /\ VerifyProposal(b)
      /\ votes' = [votes EXCEPT ![v] = @ \cup {d.last_vote}]
      /\ cached' = [cached EXCEPT ![v] = d]
      /\ UNCHANGED <<timeouts, stored>>

\* guarded_sign_timeout_with_qc: the data is stored only when the round moves.
SignTimeout(v, t) ==
  LET d == SafetyData(v)
      new == [d EXCEPT !.last_voted_round = t.round]
  IN  /\ t.hqc_round < t.round
      /\ t.round >= d.last_voted_round
      /\ {tc \in TimeoutCerts : SafeToTimeout(t, tc, d)} # {}
      /\ t.hqc_round \in CertifiedRounds
      /\ \/ /\ t.round = d.last_voted_round
            /\ cached' = [cached EXCEPT ![v] = d]
            /\ timeouts' = [timeouts EXCEPT ![v] = @ \cup {t}]
            /\ UNCHANGED stored
         \/ /\ t.round > d.last_voted_round
            /\ SetSafetyData(v, new)
            /\ timeouts' = [timeouts EXCEPT ![v] = @ \cup {t}]
         \/ /\ t.round > d.last_voted_round
            /\ SetSafetyDataFails(v, new)
            /\ UNCHANGED timeouts
      /\ UNCHANGED votes

\* The process starts again on its store; guarded_initialize keeps the data of the epoch.
Restart(v) ==
  /\ v \in Flaky
  /\ cached' = [cached EXCEPT ![v] = NoData]
  /\ UNCHANGED <<votes, timeouts, stored>>

Init ==
  /\ votes = [v \in Honest |-> {}]
  /\ timeouts = [v \in Honest |-> {}]
  /\ stored = [v \in Honest |-> EmptyData]
  /\ cached = [v \in Honest |-> NoData]

Next ==
  \/ \E v \in Honest, b \in Blocks : ConstructAndSignVote(v, b) \/ ReturnLastVote(v, b)
  \/ \E v \in Honest, t \in Timeouts : SignTimeout(v, t)
  \/ \E v \in Flaky : Restart(v)

Spec == Init /\ [][Next]_vars

-----------------------------------------------------------------------------
(* Properties *)

TypeOK ==
  /\ votes \in [Honest -> SUBSET Blocks]
  /\ timeouts \in [Honest -> SUBSET Timeouts]
  /\ stored \in [Honest -> SafetyDatas]
  /\ cached \in [Honest -> SafetyDatas \cup {NoData}]

\* Agreement: any two blocks that quorum certificates commit are on one chain, whatever
\* the faulty validators sign, however messages are lost or repeated, and though honest
\* validators lose writes and restart (safety_rules_2chain.rs).
Agreement ==
  \A b \in Committed, c \in Committed : b \in Chain[c] \/ c \in Chain[b]

\* What agreement rests on: once a block is committed, every certified block of its round
\* or a later one extends it, so a committed block can never be voted out by way of a
\* timeout certificate (safe_to_vote and safe_to_timeout together).
CertifiedExtendsCommitted ==
  \A b \in Committed, c \in Blocks :
    Certified(c) /\ RoundOf[c] >= RoundOf[b] => b \in Chain[c]

\* BlockTree.insert_quorum_cert asserts it of the certificates it is given: no two blocks
\* of one round are both certified.
OneCertifiedPerRound ==
  \A b \in Blocks, c \in Blocks :
    Certified(b) /\ Certified(c) /\ RoundOf[b] = RoundOf[c] => b = c

\* A validator that signed a timeout with an old certificate never votes, in that round
\* or before, for a block on a newer one: the timeout certificate's highest round would
\* hide it (last_voted_round and one_chain_round, across failures and restarts).
TimeoutsHideNoVote ==
  \A v \in Honest : \A t \in timeouts[v], b \in votes[v] :
    RoundOf[b] <= t.round => RoundOf[ParentOf[b]] <= t.hqc_round

-----------------------------------------------------------------------------
(* The inductive invariant *)

\* v has signed a vote for b: given it out, or stored it and not given it out yet.
Signed(v, b) == b \in votes[v] \/ stored[v].last_vote = b

\* The blocks a quorum may still sign: the honest members of the quorum have, or have not
\* come to the block's round.
Choosable(b) ==
  {v \in Honest : Signed(v, b) \/ stored[v].last_voted_round < RoundOf[b]} \cup Faulty
    \in Quorums

CacheIsStored == \A v \in Honest : cached[v] \in {NoData, stored[v]}

\* What a signed vote says of the block, and of the data that was stored with it.
SignedIsRecorded ==
  \A v \in Honest, b \in Blocks : Signed(v, b) =>
    /\ b # Genesis /\ RoundOf[ParentOf[b]] < RoundOf[b] /\ Certified(ParentOf[b])
    /\ RoundOf[b] <= stored[v].last_voted_round
    /\ RoundOf[ParentOf[b]] <= stored[v].one_chain_round

SignedOncePerRound ==
  \A v \in Honest, b \in Blocks, c \in Blocks :
    Signed(v, b) /\ Signed(v, c) /\ RoundOf[b] = RoundOf[c] => b = c

SignedIsSafe ==
  \A v \in Honest, b \in Blocks : Signed(v, b) =>
    \/ RoundOf[b] = RoundOf[ParentOf[b]] + 1
    \/ TimeoutSigners(RoundOf[b] - 1, RoundOf[ParentOf[b]]) \in Quorums

TimeoutsAreRecorded ==
  \A v \in Honest : \A t \in timeouts[v] :
    /\ t.round <= stored[v].last_voted_round
    /\ \A b \in Blocks : Signed(v, b) /\ RoundOf[b] <= t.round
                          => RoundOf[ParentOf[b]] <= t.hqc_round

\* A block that could still be committed is already extended by what is certified.
ChoosableIsExtended ==
  \A b \in Blocks \ {Genesis}, c \in Blocks :
    /\ RoundOf[b] = RoundOf[ParentOf[b]] + 1
    /\ Certified(ParentOf[b]) /\ Choosable(b)
    /\ Certified(c) /\ RoundOf[c] >= RoundOf[ParentOf[b]]
    => ParentOf[b] \in Chain[c]

SafetyInv ==
  /\ TypeOK /\ CacheIsStored /\ SignedIsRecorded /\ SignedOncePerRound
  /\ SignedIsSafe /\ TimeoutsAreRecorded /\ ChoosableIsExtended
=============================================================================
