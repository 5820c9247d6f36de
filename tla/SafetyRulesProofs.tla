------------------------- MODULE SafetyRulesProofs -------------------------
(***************************************************************************)
(* Safety of the two-chain rules for every set of validators, every         *)
(* distribution of voting power with less than a third of it faulty, and    *)
(* every tree of blocks.                                                    *)
(***************************************************************************)
EXTENDS SafetyRules, TLAPS

-----------------------------------------------------------------------------
(* Voting power *)

LEMMA HonestAndFaulty ==
  /\ Honest \subseteq Validators /\ Faulty \subseteq Validators
  /\ Honest \cap Faulty = {} /\ Flaky \subseteq Honest
BY SafetyAssumption, Zenon DEF Honest

LEMMA QuorumDef ==
  ASSUME NEW Q
  PROVE  Q \in Quorums <=> Q \subseteq Validators /\ VotingPower(Q) >= quorum_voting_power
BY Zenon DEF Quorums

LEMMA PowerMonotone ==
  ASSUME NEW S \in SUBSET Validators, NEW T \in SUBSET Validators, S \subseteq T
  PROVE  VotingPower(S) <= VotingPower(T)
<1>1. VotingPower(S) + VotingPower(T \ S) = VotingPower(S \cup (T \ S)) + VotingPower(S \cap (T \ S))
  BY VerifierAssumption, Zenon
<1>2. S \cup (T \ S) = T /\ S \cap (T \ S) = {}
  OBVIOUS
<1>3. VotingPower(S) \in Nat /\ VotingPower(T \ S) \in Nat /\ VotingPower(T) \in Nat
  BY VerifierAssumption, Zenon
<1> QED BY <1>1, <1>2, <1>3, VerifierAssumption

LEMMA QuorumGrows ==
  ASSUME NEW S \in Quorums, NEW T \in SUBSET Validators, S \subseteq T
  PROVE  T \in Quorums
<1>1. S \in SUBSET Validators /\ VotingPower(S) >= quorum_voting_power
  BY QuorumDef, Zenon
<1>2. VotingPower(S) <= VotingPower(T)
  BY <1>1, PowerMonotone, Zenon
<1>3. VotingPower(S) \in Nat /\ VotingPower(T) \in Nat /\ total_voting_power \in Nat
  BY <1>1, VerifierAssumption, Zenon DEF total_voting_power
<1>4. quorum_voting_power \in Int
  BY <1>3 DEF quorum_voting_power
<1>5. VotingPower(T) >= quorum_voting_power
  BY <1>1, <1>2, <1>3, <1>4
<1> QED BY <1>5, QuorumDef, Zenon

\* Two quorums have an honest validator in common.
LEMMA QuorumsMeet ==
  ASSUME NEW S \in Quorums, NEW T \in Quorums
  PROVE  \E v \in Honest : v \in S /\ v \in T
<1>1. /\ S \in SUBSET Validators /\ VotingPower(S) >= quorum_voting_power
      /\ T \in SUBSET Validators /\ VotingPower(T) >= quorum_voting_power
  BY QuorumDef, Zenon
<1>2. SUFFICES ASSUME S \cap T \subseteq Faulty PROVE FALSE
  BY <1>1, Zenon DEF Honest
<1> DEFINE f == VotingPower(Faulty)
           n == total_voting_power
           s == VotingPower(S)
           t == VotingPower(T)
           u == VotingPower(S \cup T)
           i == VotingPower(S \cap T)
<1>3. f \in Nat /\ n \in Nat /\ s \in Nat /\ t \in Nat /\ u \in Nat /\ i \in Nat
  BY <1>1, VerifierAssumption, HonestAndFaulty, Zenon DEF total_voting_power
<1>4. i <= f
  BY <1>1, <1>2, PowerMonotone, HonestAndFaulty, Zenon
<1>5. u <= n
  BY <1>1, PowerMonotone, Zenon DEF total_voting_power
<1>6. s + t = u + i
  BY <1>1, VerifierAssumption, Zenon
<1>7. 3 * f < n
  BY SafetyAssumption, Zenon
<1>8. Validators # {}
  BY <1>3, <1>7, VerifierAssumption DEF total_voting_power
<1>9. s >= (n * 2) \div 3 + 1 /\ t >= (n * 2) \div 3 + 1
  BY <1>1, <1>8, Zenon DEF quorum_voting_power
<1> HIDE DEF f, n, s, t, u, i
<1>10. PICK q \in Int : q = (n * 2) \div 3 /\ 3 * q <= n * 2 /\ n * 2 < 3 * q + 3
  BY <1>3
<1>11. s >= q + 1 /\ t >= q + 1
  BY <1>9, <1>10, Zenon
<1> QED BY <1>3, <1>4, <1>5, <1>6, <1>7, <1>10, <1>11

-----------------------------------------------------------------------------
(* Chains *)

LEMMA ChainType == Chain \in [Blocks -> SUBSET Blocks]
BY Zenon DEF Chain

LEMMA ChainHasBlock ==
  ASSUME NEW b \in Blocks
  PROVE  b \in Chain[b]
BY Zenon DEF Chain

LEMMA ChainHasParents ==
  ASSUME NEW b \in Blocks, NEW a \in Chain[ParentOf[b]]
  PROVE  a \in Chain[b]
<1>1. ParentOf[b] \in Blocks
  BY SafetyAssumption, Zenon
<1>2. a \in Blocks /\ \A S \in SUBSET Blocks :
        ParentOf[b] \in S /\ (\A c \in S : ParentOf[c] \in S) => a \in S
  BY <1>1, Zenon DEF Chain
<1>3. ASSUME NEW S \in SUBSET Blocks, b \in S, \A c \in S : ParentOf[c] \in S
      PROVE  a \in S
  BY <1>2, <1>3, Zenon
<1> QED BY <1>2, <1>3, Zenon DEF Chain

-----------------------------------------------------------------------------
(* What a step does to one validator.  The lemmas that follow speak of the
   validator's data only, whichever of the calls was made. *)

LEMMA DataOf ==
  ASSUME TypeOK, CacheIsStored, NEW v \in Honest
  PROVE  /\ SafetyData(v) = stored[v] /\ stored[v] \in SafetyDatas
         /\ stored[v].last_voted_round \in Nat /\ stored[v].one_chain_round \in Nat
         /\ stored[v].preferred_round \in Nat
         /\ stored[v].last_vote \in Blocks \cup {NoBlock}
         /\ votes[v] \in SUBSET Blocks /\ timeouts[v] \in SUBSET Timeouts
BY Zenon DEF TypeOK, CacheIsStored, SafetyData, SafetyDatas

\* v signs b now.
SignsNow(v, b) ==
  /\ VerifyProposal(b)
  /\ RoundOf[b] > stored[v].last_voted_round
  /\ \E tc \in TimeoutCerts : SafeToVote(b, tc)
  /\ stored'[v].last_vote = b
  /\ stored'[v].last_voted_round = RoundOf[b]
  /\ stored'[v].one_chain_round >= RoundOf[ParentOf[b]]

StepOf(v) ==
  /\ stored'[v] \in SafetyDatas /\ cached'[v] \in {NoData, stored'[v]}
  /\ votes'[v] \in SUBSET Blocks /\ votes[v] \subseteq votes'[v]
  /\ timeouts'[v] \in SUBSET Timeouts /\ timeouts[v] \subseteq timeouts'[v]
  /\ stored'[v].last_voted_round >= stored[v].last_voted_round
  /\ stored'[v].one_chain_round >= stored[v].one_chain_round
  /\ \A b \in Blocks : Signed(v, b)' => Signed(v, b) \/ SignsNow(v, b)
  /\ \A t \in timeouts'[v] \ timeouts[v] :
       /\ t.round = stored'[v].last_voted_round
       /\ t.hqc_round >= stored[v].one_chain_round
       /\ \A b \in Blocks : Signed(v, b)' => Signed(v, b)

LEMMA SameStep ==
  ASSUME TypeOK, CacheIsStored, NEW v \in Honest,
         votes'[v] = votes[v], timeouts'[v] = timeouts[v], stored'[v] = stored[v],
         cached'[v] \in {NoData, stored[v]}
  PROVE  StepOf(v)
<1>1. \A b \in Blocks : Signed(v, b)' = Signed(v, b)
  BY Zenon DEF Signed
<1> QED BY <1>1, DataOf DEF StepOf

\* The data a vote for b stores.
LEMMA NewData ==
  ASSUME NEW d \in SafetyDatas, NEW b \in Blocks, NEW new, new = DataAfterVote(d, b)
  PROVE  /\ new \in SafetyDatas
         /\ new.last_voted_round = RoundOf[b] /\ new.last_vote = b
         /\ new.one_chain_round >= d.one_chain_round
         /\ new.one_chain_round >= RoundOf[ParentOf[b]]
<1> DEFINE pr == Larger(d.preferred_round, RoundOf[ParentOf[ParentOf[b]]])
           oc == Larger(d.one_chain_round, RoundOf[ParentOf[b]])
<1>1. /\ RoundOf[b] \in Nat /\ RoundOf[ParentOf[b]] \in Nat
      /\ RoundOf[ParentOf[ParentOf[b]]] \in Nat
  BY SafetyAssumption, Zenon
<1>2. d.one_chain_round \in Nat /\ d.preferred_round \in Nat
  BY Zenon DEF SafetyDatas
<1>3. /\ pr \in Nat /\ oc \in Nat
      /\ oc >= d.one_chain_round /\ oc >= RoundOf[ParentOf[b]]
  BY <1>1, <1>2 DEF Larger
<1>4. new = [last_voted_round |-> RoundOf[b], preferred_round |-> pr,
             one_chain_round |-> oc, last_vote |-> b]
  BY Zenon DEF DataAfterVote
<1> HIDE DEF pr, oc
<1> QED BY <1>1, <1>3, <1>4 DEF SafetyDatas

LEMMA VoteStep ==
  ASSUME TypeOK, CacheIsStored, NEW v \in Honest, NEW b \in Blocks,
         ConstructAndSignVote(v, b), NEW w \in Honest
  PROVE  StepOf(w)
<1> DEFINE d == SafetyData(v)
           new == DataAfterVote(d, b)
<1>1. d = stored[v] /\ d \in SafetyDatas /\ d.last_voted_round \in Nat
      /\ votes[v] \in SUBSET Blocks /\ timeouts[v] \in SUBSET Timeouts
  BY DataOf, Zenon
<1>2. /\ new \in SafetyDatas
      /\ new.last_voted_round = RoundOf[b] /\ new.last_vote = b
      /\ new.one_chain_round >= d.one_chain_round
      /\ new.one_chain_round >= RoundOf[ParentOf[b]]
  BY <1>1, NewData, Zenon
<1>3. /\ RoundOf[b] > d.last_voted_round /\ VerifyProposal(b)
      /\ \E tc \in TimeoutCerts : SafeToVote(b, tc)
      /\ timeouts' = timeouts
      /\ \/ SetSafetyData(v, new) /\ votes' = [votes EXCEPT ![v] = @ \cup {b}]
         \/ SetSafetyDataFails(v, new) /\ votes' = votes
  BY Zenon DEF ConstructAndSignVote
<1>4. RoundOf[b] \in Nat
  BY SafetyAssumption, Zenon
<1> HIDE DEF d, new
<1>5. CASE w # v
  <2>1. votes'[w] = votes[w] /\ timeouts'[w] = timeouts[w] /\ stored'[w] = stored[w]
        /\ cached'[w] = cached[w]
    BY <1>3, <1>5, Zenon DEF SetSafetyData, SetSafetyDataFails, TypeOK
  <2> QED BY <2>1, SameStep, Zenon DEF CacheIsStored
<1>6. CASE w = v /\ stored'[v] = stored[v]
  <2>1. CASE votes' = votes
    <3>1. cached'[v] \in {NoData, stored[v]}
      BY <1>3, <1>6, Zenon DEF SetSafetyData, SetSafetyDataFails, TypeOK
    <3> QED BY <1>3, <1>6, <2>1, <3>1, SameStep, Zenon
  <2>2. CASE SetSafetyData(v, new) /\ votes' = [votes EXCEPT ![v] = @ \cup {b}]
    <3>1. stored'[v] = new
      BY <2>2, Zenon DEF SetSafetyData, TypeOK
    <3> QED BY <3>1, <1>1, <1>2, <1>3, <1>4, <1>6
  <2> QED BY <1>3, <2>1, <2>2, Zenon
<1>7. CASE w = v /\ stored'[v] # stored[v]
  <2>1. stored'[v] = new /\ cached'[v] \in {NoData, new}
    BY <1>3, <1>7, Zenon DEF SetSafetyData, SetSafetyDataFails, TypeOK
  <2>2. votes'[v] \in {votes[v], votes[v] \cup {b}} /\ timeouts'[v] = timeouts[v]
    BY <1>3, Zenon DEF TypeOK
  <2>3. SignsNow(v, b)
    BY <1>1, <1>2, <1>3, <2>1, Zenon DEF SignsNow
  <2>4. \A c \in Blocks : Signed(v, c)' => Signed(v, c) \/ c = b
    BY <1>2, <2>1, <2>2, Zenon DEF Signed
  <2> QED BY <1>1, <1>2, <1>3, <1>4, <1>7, <2>1, <2>2, <2>3, <2>4 DEF StepOf
<1> QED BY <1>5, <1>6, <1>7, Zenon

LEMMA ReturnStep ==
  ASSUME TypeOK, CacheIsStored, NEW v \in Honest, NEW b \in Blocks,
         ReturnLastVote(v, b), NEW w \in Honest
  PROVE  StepOf(w)
<1>1. /\ SafetyData(v) = stored[v] /\ stored[v].last_vote \in Blocks \cup {NoBlock}
      /\ votes[v] \in SUBSET Blocks
  BY DataOf, Zenon
<1>2. /\ stored[v].last_vote # NoBlock
      /\ votes' = [votes EXCEPT ![v] = @ \cup {stored[v].last_vote}]
      /\ cached' = [cached EXCEPT ![v] = stored[v]]
      /\ timeouts' = timeouts /\ stored' = stored
  BY <1>1, Zenon DEF ReturnLastVote
<1>3. CASE w # v
  <2>1. votes'[w] = votes[w] /\ cached'[w] = cached[w]
    BY <1>2, <1>3, Zenon DEF TypeOK
  <2> QED BY <1>2, <2>1, SameStep, Zenon DEF CacheIsStored
<1>4. CASE w = v
  <2>1. votes'[v] = votes[v] \cup {stored[v].last_vote} /\ cached'[v] = stored[v]
    BY <1>2, Zenon DEF TypeOK
  <2>2. \A c \in Blocks : Signed(v, c)' => Signed(v, c)
    BY <1>2, <2>1, Zenon DEF Signed
  <2>3. /\ stored[v] \in SafetyDatas /\ timeouts[v] \in SUBSET Timeouts
        /\ stored[v].last_voted_round \in Nat /\ stored[v].one_chain_round \in Nat
    BY DataOf, Zenon
  <2> QED BY <1>1, <1>2, <1>4, <2>1, <2>2, <2>3 DEF StepOf
<1> QED BY <1>3, <1>4, Zenon

LEMMA TimeoutStep ==
  ASSUME TypeOK, CacheIsStored, NEW v \in Honest, NEW t \in Timeouts,
         SignTimeout(v, t), NEW w \in Honest
  PROVE  StepOf(w)
<1> DEFINE d == stored[v]
           new == [d EXCEPT !.last_voted_round = t.round]
<1>1. /\ SafetyData(v) = d /\ d \in SafetyDatas
      /\ d.last_voted_round \in Nat /\ d.one_chain_round \in Nat
      /\ votes[v] \in SUBSET Blocks /\ timeouts[v] \in SUBSET Timeouts
  BY DataOf, Zenon
<1>2. t.round \in Nat /\ t.hqc_round \in Nat
  BY SafetyAssumption DEF Timeouts, Rounds
<1>3. /\ new \in SafetyDatas /\ new.last_voted_round = t.round
      /\ new.one_chain_round = d.one_chain_round /\ new.last_vote = d.last_vote
  BY <1>1, <1>2, Zenon DEF SafetyDatas
<1>4. /\ t.round >= d.last_voted_round /\ t.hqc_round >= d.one_chain_round
      /\ votes' = votes
      /\ \/ /\ t.round = d.last_voted_round
            /\ cached' = [cached EXCEPT ![v] = d] /\ stored' = stored
            /\ timeouts' = [timeouts EXCEPT ![v] = @ \cup {t}]
         \/ SetSafetyData(v, new) /\ timeouts' = [timeouts EXCEPT ![v] = @ \cup {t}]
         \/ SetSafetyDataFails(v, new) /\ timeouts' = timeouts
  BY <1>1, Zenon DEF SignTimeout, SafeToTimeout
<1> HIDE DEF new
<1>5. CASE w # v
  <2>1. votes'[w] = votes[w] /\ timeouts'[w] = timeouts[w] /\ stored'[w] = stored[w]
        /\ cached'[w] = cached[w]
    BY <1>4, <1>5, Zenon DEF SetSafetyData, SetSafetyDataFails, TypeOK
  <2> QED BY <2>1, SameStep, Zenon DEF CacheIsStored
<1>6. CASE w = v
  <2>1. /\ stored'[v] \in {d, new} /\ cached'[v] \in {NoData, stored'[v]}
        /\ timeouts'[v] \in {timeouts[v], timeouts[v] \cup {t}}
        /\ timeouts'[v] # timeouts[v] => stored'[v].last_voted_round = t.round
    BY <1>3, <1>4 DEF SetSafetyData, SetSafetyDataFails, TypeOK
  <2>2. \A b \in Blocks : Signed(v, b)' => Signed(v, b)
    BY <1>3, <1>4, <2>1, Zenon DEF Signed
  <2>3. /\ stored'[v] \in SafetyDatas
        /\ stored'[v].last_voted_round >= d.last_voted_round
        /\ stored'[v].one_chain_round >= d.one_chain_round
    BY <1>1, <1>2, <1>3, <1>4, <2>1
  <2> QED BY <1>1, <1>4, <1>6, <2>1, <2>2, <2>3, Zenon DEF StepOf
<1> QED BY <1>5, <1>6, Zenon

LEMMA NextStep ==
  ASSUME TypeOK, CacheIsStored, [Next]_vars, NEW w \in Honest
  PROVE  StepOf(w)
<1>1. CASE UNCHANGED vars
  BY <1>1, SameStep, Zenon DEF vars, CacheIsStored
<1>2. CASE \E v \in Flaky : Restart(v)
  <2>1. PICK v \in Honest : Restart(v)
    BY <1>2, HonestAndFaulty, Zenon
  <2>2. cached'[w] \in {NoData, stored[w]}
    BY <2>1, Zenon DEF Restart, TypeOK, CacheIsStored
  <2> QED BY <2>1, <2>2, SameStep, Zenon DEF Restart
<1> QED
  BY <1>1, <1>2, VoteStep, ReturnStep, TimeoutStep, Zenon DEF Next

-----------------------------------------------------------------------------
(* The conjuncts that follow from StepOf for each validator. *)

\* What is assumed of a step from here on.
Steps == TypeOK /\ CacheIsStored /\ \A w \in Honest : StepOf(w)

LEMMA TypesKept ==
  ASSUME TypeOK, CacheIsStored, [Next]_vars
  PROVE  TypeOK' /\ CacheIsStored'
<1>1. \A w \in Honest : StepOf(w)
  BY NextStep, Zenon
<1>2. /\ votes' \in [Honest -> SUBSET Blocks] /\ timeouts' \in [Honest -> SUBSET Timeouts]
      /\ stored' \in [Honest -> SafetyDatas]
      /\ cached' \in [Honest -> SafetyDatas \cup {NoData}]
  <2>1. /\ DOMAIN votes' = Honest /\ DOMAIN timeouts' = Honest
        /\ DOMAIN stored' = Honest /\ DOMAIN cached' = Honest
        /\ votes' = [v \in Honest |-> votes'[v]] /\ timeouts' = [v \in Honest |-> timeouts'[v]]
        /\ stored' = [v \in Honest |-> stored'[v]] /\ cached' = [v \in Honest |-> cached'[v]]
    BY HonestAndFaulty DEF Next, vars, TypeOK, ConstructAndSignVote, ReturnLastVote, SignTimeout, Restart,
       SetSafetyData, SetSafetyDataFails
  <2> QED BY <1>1, <2>1, Zenon DEF StepOf
<1> QED BY <1>1, <1>2, Zenon DEF TypeOK, CacheIsStored, StepOf

LEMMA CertifiedGrows ==
  ASSUME Steps, NEW b \in Blocks, Certified(b)
  PROVE  Certified(b)'
<1> DEFINE S == {v \in Honest : b \in votes[v]} \cup Faulty
           T == {v \in Honest : b \in votes'[v]} \cup Faulty
<1>1. S \subseteq T /\ T \in SUBSET Validators
  BY HonestAndFaulty, Zenon DEF Steps, StepOf
<1>2. S \in Quorums => T \in Quorums
  BY <1>1, QuorumGrows, Zenon
<1> QED BY <1>2, Zenon DEF Certified

LEMMA TimeoutSignersGrow ==
  ASSUME Steps, NEW r, NEW h, TimeoutSigners(r, h) \in Quorums
  PROVE  TimeoutSigners(r, h)' \in Quorums
<1>1. /\ TimeoutSigners(r, h) \subseteq TimeoutSigners(r, h)'
      /\ TimeoutSigners(r, h)' \in SUBSET Validators
  BY HonestAndFaulty, Zenon DEF Steps, StepOf, TimeoutSigners
<1> QED BY <1>1, QuorumGrows, Zenon

LEMMA SafeFromCertificate ==
  ASSUME TypeOK, NEW b \in Blocks, VerifyProposal(b),
         NEW tc \in TimeoutCerts, SafeToVote(b, tc)
  PROVE  \/ RoundOf[b] = RoundOf[ParentOf[b]] + 1
         \/ TimeoutSigners(RoundOf[b] - 1, RoundOf[ParentOf[b]]) \in Quorums
<1>1. /\ RoundOf[b] \in Nat /\ RoundOf[ParentOf[b]] \in Nat
      /\ RoundOf[ParentOf[b]] < RoundOf[b]
  BY SafetyAssumption, Zenon DEF VerifyProposal
<1>2. SUFFICES ASSUME RoundOf[b] = tc.round + 1, RoundOf[ParentOf[b]] >= tc.hqc_round
               PROVE  \/ RoundOf[b] = RoundOf[ParentOf[b]] + 1
                      \/ TimeoutSigners(RoundOf[b] - 1, RoundOf[ParentOf[b]]) \in Quorums
  BY Zenon DEF SafeToVote
<1>3. CASE tc = [round |-> 0, hqc_round |-> 0]
  BY <1>1, <1>2, <1>3
<1>4. CASE tc \in Timeouts /\ TimeoutCertified(tc.round, tc.hqc_round)
  <2>1. tc.round \in Nat /\ tc.hqc_round \in Nat
    BY <1>4, SafetyAssumption DEF Timeouts, Rounds
  <2>2. TimeoutSigners(tc.round, tc.hqc_round) \in Quorums
    BY <1>4, Zenon DEF TimeoutCertified
  <2>3. \A v \in Honest : \A t \in timeouts[v] : t.hqc_round \in Nat
    BY SafetyAssumption DEF TypeOK, Timeouts, Rounds
  <2>4. /\ TimeoutSigners(tc.round, tc.hqc_round)
             \subseteq TimeoutSigners(tc.round, RoundOf[ParentOf[b]])
        /\ TimeoutSigners(tc.round, RoundOf[ParentOf[b]]) \in SUBSET Validators
    BY <1>1, <1>2, <2>1, <2>3, HonestAndFaulty, SMTT(30) DEF TimeoutSigners
  <2>5. tc.round = RoundOf[b] - 1
    BY <1>1, <1>2, <2>1
  <2> QED BY <2>2, <2>4, <2>5, QuorumGrows, Zenon
<1> QED BY <1>3, <1>4, Zenon DEF TimeoutCerts

LEMMA RecordedKept ==
  ASSUME Steps, SignedIsRecorded
  PROVE  SignedIsRecorded'
<1> SUFFICES ASSUME NEW v \in Honest, NEW b \in Blocks, Signed(v, b)'
             PROVE  /\ b # Genesis /\ RoundOf[ParentOf[b]] < RoundOf[b]
                    /\ Certified(ParentOf[b])'
                    /\ RoundOf[b] <= stored'[v].last_voted_round
                    /\ RoundOf[ParentOf[b]] <= stored'[v].one_chain_round
  BY Zenon DEF SignedIsRecorded
<1>1. /\ stored[v].last_voted_round \in Nat /\ stored[v].one_chain_round \in Nat
      /\ stored'[v].last_voted_round \in Nat /\ stored'[v].one_chain_round \in Nat
      /\ stored'[v].last_voted_round >= stored[v].last_voted_round
      /\ stored'[v].one_chain_round >= stored[v].one_chain_round
  BY DataOf, Zenon DEF Steps, StepOf, SafetyDatas
<1>2. /\ RoundOf[b] \in Nat /\ RoundOf[ParentOf[b]] \in Nat /\ ParentOf[b] \in Blocks
  BY SafetyAssumption, Zenon
<1>3. CASE Signed(v, b)
  <2>1. /\ b # Genesis /\ RoundOf[ParentOf[b]] < RoundOf[b] /\ Certified(ParentOf[b])
        /\ RoundOf[b] <= stored[v].last_voted_round
        /\ RoundOf[ParentOf[b]] <= stored[v].one_chain_round
    BY <1>3, Zenon DEF SignedIsRecorded
  <2> QED BY <1>1, <1>2, <2>1, CertifiedGrows
<1>4. CASE SignsNow(v, b)
  BY <1>1, <1>2, <1>4, CertifiedGrows, SMTT(30) DEF SignsNow, VerifyProposal
<1> QED BY <1>3, <1>4, Zenon DEF Steps, StepOf

LEMMA OnceKept ==
  ASSUME Steps, SignedIsRecorded, SignedOncePerRound
  PROVE  SignedOncePerRound'
<1> SUFFICES ASSUME NEW v \in Honest, NEW b \in Blocks, NEW c \in Blocks,
                    Signed(v, b)', Signed(v, c)', RoundOf[b] = RoundOf[c]
             PROVE  b = c
  BY Zenon DEF SignedOncePerRound
<1>1. /\ Signed(v, b) \/ SignsNow(v, b)
      /\ Signed(v, c) \/ SignsNow(v, c)
  BY Zenon DEF Steps, StepOf
<1>2. /\ Signed(v, b) => RoundOf[b] <= stored[v].last_voted_round
      /\ Signed(v, c) => RoundOf[c] <= stored[v].last_voted_round
      /\ Signed(v, b) /\ Signed(v, c) => b = c
  BY Zenon DEF SignedIsRecorded, SignedOncePerRound
<1>3. /\ SignsNow(v, b) => RoundOf[b] > stored[v].last_voted_round /\ stored'[v].last_vote = b
      /\ SignsNow(v, c) => RoundOf[c] > stored[v].last_voted_round /\ stored'[v].last_vote = c
  BY Zenon DEF SignsNow
<1>4. RoundOf[b] \in Nat /\ RoundOf[c] \in Nat /\ stored[v].last_voted_round \in Nat
  BY SafetyAssumption, DataOf, Zenon DEF Steps
<1> QED BY <1>1, <1>2, <1>3, <1>4

LEMMA SafeKept ==
  ASSUME Steps, SignedIsSafe
  PROVE  SignedIsSafe'
<1> SUFFICES ASSUME NEW v \in Honest, NEW b \in Blocks, Signed(v, b)',
                    RoundOf[b] # RoundOf[ParentOf[b]] + 1
             PROVE  TimeoutSigners(RoundOf[b] - 1, RoundOf[ParentOf[b]])' \in Quorums
  BY Zenon DEF SignedIsSafe
<1>1. TimeoutSigners(RoundOf[b] - 1, RoundOf[ParentOf[b]]) \in Quorums
  <2>1. CASE Signed(v, b)
    BY <2>1, Zenon DEF SignedIsSafe
  <2>2. CASE SignsNow(v, b)
    BY <2>2, SafeFromCertificate, Zenon DEF SignsNow, Steps
  <2> QED BY <2>1, <2>2, Zenon DEF Steps, StepOf
<1> QED BY <1>1, TimeoutSignersGrow, Zenon

LEMMA TimeoutsKept ==
  ASSUME Steps, SignedIsRecorded, TimeoutsAreRecorded
  PROVE  TimeoutsAreRecorded'
<1> SUFFICES ASSUME NEW v \in Honest, NEW t \in timeouts'[v]
             PROVE  /\ t.round <= stored'[v].last_voted_round
                    /\ \A b \in Blocks : Signed(v, b)' /\ RoundOf[b] <= t.round
                                          => RoundOf[ParentOf[b]] <= t.hqc_round
  BY Zenon DEF TimeoutsAreRecorded
<1>1. /\ stored[v].last_voted_round \in Nat /\ stored[v].one_chain_round \in Nat
      /\ stored'[v].last_voted_round \in Nat
      /\ stored'[v].last_voted_round >= stored[v].last_voted_round
      /\ t \in Timeouts
  BY DataOf, Zenon DEF Steps, StepOf, SafetyDatas
<1>2. t.round \in Nat /\ t.hqc_round \in Nat
  BY <1>1, SafetyAssumption DEF Timeouts, Rounds
<1>3. \A b \in Blocks : RoundOf[b] \in Nat /\ RoundOf[ParentOf[b]] \in Nat
  BY SafetyAssumption, Zenon
<1>4. CASE t \in timeouts[v]
  <2>1. /\ t.round <= stored[v].last_voted_round
        /\ \A b \in Blocks : Signed(v, b) /\ RoundOf[b] <= t.round
                              => RoundOf[ParentOf[b]] <= t.hqc_round
    BY <1>4, Zenon DEF TimeoutsAreRecorded
  <2>2. \A b \in Blocks : Signed(v, b)' /\ RoundOf[b] <= t.round => Signed(v, b)
    BY <1>1, <1>2, <1>3, <2>1, SMTT(30) DEF Steps, StepOf, SignsNow
  <2> QED BY <1>1, <1>2, <2>1, <2>2
<1>5. CASE t \notin timeouts[v]
  <2>1. /\ t.round = stored'[v].last_voted_round
        /\ t.hqc_round >= stored[v].one_chain_round
        /\ \A b \in Blocks : Signed(v, b)' => Signed(v, b)
    BY <1>5, Zenon DEF Steps, StepOf
  <2>2. \A b \in Blocks : Signed(v, b) => RoundOf[ParentOf[b]] <= stored[v].one_chain_round
    BY Zenon DEF SignedIsRecorded
  <2> QED BY <1>1, <1>2, <1>3, <2>1, <2>2
<1> QED BY <1>4, <1>5, Zenon

-----------------------------------------------------------------------------
(* Certified blocks *)

\* Every certified block but genesis has been signed by an honest validator.
LEMMA CertifiedIsSigned ==
  ASSUME NEW b \in Blocks, b # Genesis, Certified(b)
  PROVE  /\ {v \in Honest : b \in votes[v]} \cup Faulty \in Quorums
         /\ \E v \in Honest : Signed(v, b)
<1>1. {v \in Honest : b \in votes[v]} \cup Faulty \in Quorums
  BY Zenon DEF Certified
<1>2. PICK v \in Honest : v \in {w \in Honest : b \in votes[w]} \cup Faulty
  BY <1>1, QuorumsMeet, Zenon
<1> QED BY <1>1, <1>2, HonestAndFaulty, Zenon DEF Signed

LEMMA OneCertified ==
  TypeOK /\ SignedIsRecorded /\ SignedOncePerRound => OneCertifiedPerRound
<1> SUFFICES ASSUME TypeOK, SignedIsRecorded, SignedOncePerRound,
                    NEW b \in Blocks, NEW c \in Blocks, Certified(b), Certified(c),
                    RoundOf[b] = RoundOf[c]
             PROVE  b = c
  BY Zenon DEF OneCertifiedPerRound
<1>1. \A a \in Blocks : a # Genesis /\ Certified(a) => RoundOf[a] > 0
  <2> SUFFICES ASSUME NEW a \in Blocks, a # Genesis, Certified(a)
               PROVE  RoundOf[a] > 0
    OBVIOUS
  <2>1. RoundOf[ParentOf[a]] < RoundOf[a]
    BY CertifiedIsSigned, Zenon DEF SignedIsRecorded
  <2> QED BY <2>1, SafetyAssumption
<1>2. CASE b = Genesis \/ c = Genesis
  BY <1>1, <1>2, SafetyAssumption
<1>3. CASE b # Genesis /\ c # Genesis
  <2>1. /\ {v \in Honest : b \in votes[v]} \cup Faulty \in Quorums
        /\ {v \in Honest : c \in votes[v]} \cup Faulty \in Quorums
    BY <1>3, CertifiedIsSigned, Zenon
  <2>2. PICK v \in Honest : /\ v \in {w \in Honest : b \in votes[w]} \cup Faulty
                            /\ v \in {w \in Honest : c \in votes[w]} \cup Faulty
    BY <2>1, QuorumsMeet, Zenon
  <2>3. Signed(v, b) /\ Signed(v, c)
    BY <2>2, HonestAndFaulty, Zenon DEF Signed
  <2> QED BY <2>3, Zenon DEF SignedOncePerRound
<1> QED BY <1>2, <1>3, Zenon

LEMMA ChoosableShrinks ==
  ASSUME Steps, NEW b \in Blocks, Choosable(b)'
  PROVE  Choosable(b)
<1> DEFINE S == {v \in Honest : Signed(v, b)' \/ stored'[v].last_voted_round < RoundOf[b]}
           T == {v \in Honest : Signed(v, b) \/ stored[v].last_voted_round < RoundOf[b]}
<1>1. ASSUME NEW v \in S
      PROVE  v \in T
  <2>1. /\ stored[v].last_voted_round \in Nat /\ stored'[v].last_voted_round \in Nat
        /\ stored'[v].last_voted_round >= stored[v].last_voted_round
        /\ RoundOf[b] \in Nat
    BY DataOf, SafetyAssumption, ZenonT(40) DEF Steps, StepOf, SafetyDatas
  <2> QED BY <2>1 DEF Steps, StepOf, SignsNow
<1>2. S \cup Faulty \subseteq T \cup Faulty /\ T \cup Faulty \in SUBSET Validators
  BY <1>1, HonestAndFaulty, Zenon
<1>3. S \cup Faulty \in Quorums
  BY Zenon DEF Choosable
<1> HIDE DEF S
<1>4. T \cup Faulty \in Quorums
  BY <1>2, <1>3, QuorumGrows, Zenon
<1> QED BY <1>4, Zenon DEF Choosable

LEMMA ExtendedKept ==
  ASSUME Steps, SignedIsRecorded, ChoosableIsExtended,
         SignedIsRecorded', SignedOncePerRound', SignedIsSafe', TimeoutsAreRecorded',
         OneCertifiedPerRound'
  PROVE  ChoosableIsExtended'
<1> SUFFICES ASSUME NEW b \in Blocks \ {Genesis}, NEW c \in Blocks,
                    RoundOf[b] = RoundOf[ParentOf[b]] + 1,
                    Certified(ParentOf[b])', Choosable(b)', Certified(c)',
                    RoundOf[c] >= RoundOf[ParentOf[b]]
             PROVE  ParentOf[b] \in Chain[c]
  BY Zenon DEF ChoosableIsExtended
<1> DEFINE p == ParentOf[b]
           k == RoundOf[p]
<1>1. /\ p \in Blocks /\ ParentOf[c] \in Blocks /\ k \in Nat /\ RoundOf[b] \in Nat
      /\ RoundOf[c] \in Nat /\ RoundOf[ParentOf[c]] \in Nat
      /\ \A w \in Honest : stored'[w].last_voted_round \in Nat
  BY SafetyAssumption, ZenonT(40) DEF Steps, StepOf, SafetyDatas
<1>2. ASSUME NEW w \in Honest, NEW e \in Blocks, Signed(w, e)'
      PROVE  Certified(ParentOf[e])
  BY <1>2, Zenon DEF Steps, StepOf, SignedIsRecorded, SignsNow, VerifyProposal
<1>3. ASSUME NEW Q \in Quorums
      PROVE  \E w \in Honest : w \in Q /\ (Signed(w, b)' \/ stored'[w].last_voted_round < RoundOf[b])
  <2>1. {v \in Honest : Signed(v, b)' \/ stored'[v].last_voted_round < RoundOf[b]} \cup Faulty
          \in Quorums
    BY Zenon DEF Choosable
  <2>2. PICK w \in Honest :
          /\ w \in Q
          /\ w \in {v \in Honest : Signed(v, b)' \/ stored'[v].last_voted_round < RoundOf[b]} \cup Faulty
    BY <2>1, QuorumsMeet, Zenon
  <2> QED BY <2>2, HonestAndFaulty, Zenon
<1>4. CASE RoundOf[c] = k
  BY <1>1, <1>4, ChainHasBlock, Zenon DEF OneCertifiedPerRound
<1>5. CASE RoundOf[c] > k
  <2>1. c # Genesis
    BY <1>1, <1>5, SafetyAssumption
  <2>2. {v \in Honest : c \in votes'[v]} \cup Faulty \in Quorums
    BY <2>1, Zenon DEF Certified
  <2>3. PICK w \in Honest : /\ w \in {v \in Honest : c \in votes'[v]} \cup Faulty
                            /\ Signed(w, b)' \/ stored'[w].last_voted_round < RoundOf[b]
    BY <2>2, <1>3, Zenon
  <2>4. Signed(w, c)'
    BY <2>3, HonestAndFaulty, Zenon DEF Signed
  <2>5. RoundOf[c] <= stored'[w].last_voted_round
    BY <2>4, Zenon DEF SignedIsRecorded
  <2>6. Signed(w, b)'
    BY <1>1, <1>5, <2>3, <2>5
  <2>7. Certified(p) /\ Certified(ParentOf[c])
    BY <1>2, <2>4, <2>6, Zenon
  <2>8. CASE RoundOf[c] = k + 1
    <3>1. c = b
      BY <2>4, <2>6, <2>8, Zenon DEF SignedOncePerRound
    <3> QED BY <1>1, <3>1, ChainHasBlock, ChainHasParents, Zenon
  <2>9. CASE RoundOf[c] > k + 1
    <3>1. RoundOf[ParentOf[c]] >= k
      <4>1. CASE RoundOf[c] = RoundOf[ParentOf[c]] + 1
        BY <1>1, <2>9, <4>1, SMTT(30)
      <4>2. CASE TimeoutSigners(RoundOf[c] - 1, RoundOf[ParentOf[c]])' \in Quorums
        <5>1. PICK u \in Honest :
                /\ u \in TimeoutSigners(RoundOf[c] - 1, RoundOf[ParentOf[c]])'
                /\ Signed(u, b)' \/ stored'[u].last_voted_round < RoundOf[b]
          BY <4>2, <1>3, Zenon
        <5>2. PICK t \in timeouts'[u] :
                t.round = RoundOf[c] - 1 /\ t.hqc_round <= RoundOf[ParentOf[c]]
          BY <5>1, HonestAndFaulty, Zenon DEF TimeoutSigners
        <5>3. t.round <= stored'[u].last_voted_round
          BY <5>2, Zenon DEF TimeoutsAreRecorded
        <5>4. Signed(u, b)' /\ RoundOf[b] <= t.round
          BY <1>1, <2>9, <5>1, <5>2, <5>3
        <5>5. k <= t.hqc_round
          BY <5>2, <5>4, ZenonT(40) DEF TimeoutsAreRecorded
        <5>6. t.hqc_round \in Nat
          BY <5>2, SafetyAssumption DEF Steps, StepOf, Timeouts, Rounds
        <5> QED BY <1>1, <5>2, <5>5, <5>6
      <4> QED BY <2>4, <4>1, <4>2, Zenon DEF SignedIsSafe
    <3>2. Choosable(b)
      BY ChoosableShrinks, Zenon
    <3>3. p \in Chain[ParentOf[c]]
      BY <1>1, <2>7, <3>1, <3>2, Zenon DEF ChoosableIsExtended
    <3> QED BY <3>3, ChainHasParents, Zenon
  <2> QED BY <1>1, <1>5, <2>8, <2>9
<1> QED BY <1>1, <1>4, <1>5

-----------------------------------------------------------------------------
(* The theorems *)

LEMMA InitInv == Init => SafetyInv
<1> SUFFICES ASSUME Init PROVE SafetyInv
  OBVIOUS
<1>1. TypeOK /\ CacheIsStored
  BY Zenon DEF Init, TypeOK, CacheIsStored, EmptyData, SafetyDatas
<1>2. \A v \in Honest, b \in Blocks : ~Signed(v, b)
  BY SafetyAssumption, Zenon DEF Init, Signed, EmptyData
<1>3. \A c \in Blocks : Certified(c) => c = Genesis
  BY <1>2, CertifiedIsSigned, Zenon
<1>4. ChoosableIsExtended
  BY <1>3, SafetyAssumption, ChainHasBlock, Zenon DEF ChoosableIsExtended
<1> QED BY <1>1, <1>2, <1>4, Zenon DEF SafetyInv, SignedIsRecorded, SignedOncePerRound,
          SignedIsSafe, TimeoutsAreRecorded, Init

LEMMA NextInv == SafetyInv /\ [Next]_vars => SafetyInv'
<1> SUFFICES ASSUME SafetyInv, [Next]_vars PROVE SafetyInv'
  OBVIOUS
<1>1. TypeOK' /\ CacheIsStored' /\ Steps
  BY TypesKept, NextStep, Zenon DEF Steps, SafetyInv
<1>2. SignedIsRecorded' /\ SignedOncePerRound' /\ SignedIsSafe' /\ TimeoutsAreRecorded'
  BY <1>1, RecordedKept, OnceKept, SafeKept, TimeoutsKept, Zenon DEF SafetyInv
<1>3. (TypeOK /\ SignedIsRecorded /\ SignedOncePerRound => OneCertifiedPerRound)'
  BY OneCertified, PTL
<1>4. ChoosableIsExtended'
  BY <1>1, <1>2, <1>3, ExtendedKept, Zenon DEF SafetyInv
<1> QED BY <1>1, <1>2, <1>4, Zenon DEF SafetyInv

\* The inductive invariant holds in every behaviour of the validators.
THEOREM SafetyInvariant == Spec => []SafetyInv
<1> QED BY InitInv, NextInv, PTL DEF Spec

\* No two blocks of one round are ever both certified (insert_quorum_cert's precondition).
THEOREM OneCertifiedAlways == Spec => []OneCertifiedPerRound
<1>1. SafetyInv => OneCertifiedPerRound
  BY OneCertified, Zenon DEF SafetyInv
<1> QED BY <1>1, SafetyInvariant, PTL

LEMMA ExtendsCommitted == SafetyInv => CertifiedExtendsCommitted
<1> SUFFICES ASSUME SafetyInv, NEW x \in Blocks \ {Genesis}, NEW c \in Blocks, Certified(x),
                    RoundOf[x] = RoundOf[ParentOf[x]] + 1,
                    Certified(c), RoundOf[c] >= RoundOf[ParentOf[x]]
             PROVE  ParentOf[x] \in Chain[c]
  BY Zenon DEF CertifiedExtendsCommitted, Committed
<1>1. /\ {v \in Honest : x \in votes[v]} \cup Faulty \in Quorums
      /\ \E v \in Honest : Signed(v, x)
  BY CertifiedIsSigned, Zenon
<1>2. Certified(ParentOf[x])
  BY <1>1, Zenon DEF SafetyInv, SignedIsRecorded
<1> DEFINE T == {v \in Honest : Signed(v, x) \/ stored[v].last_voted_round < RoundOf[x]} \cup Faulty
<1>3. {v \in Honest : x \in votes[v]} \cup Faulty \subseteq T /\ T \in SUBSET Validators
  BY HonestAndFaulty, Zenon DEF Signed
<1>4. Choosable(x)
  BY <1>1, <1>3, QuorumGrows, Zenon DEF Choosable
<1> QED BY <1>2, <1>4, Zenon DEF SafetyInv, ChoosableIsExtended

\* Once a block is committed, every certified block of its round or later extends it.
THEOREM CertifiedExtendsAlways == Spec => []CertifiedExtendsCommitted
<1> QED BY ExtendsCommitted, SafetyInvariant, PTL

\* Agreement: committed blocks are on one chain, for every validator set with less than a
\* third of the voting power faulty.
THEOREM AgreementAlways == Spec => []Agreement
<1>1. SafetyInv => Agreement
  <2> SUFFICES ASSUME SafetyInv, NEW b \in Committed, NEW c \in Committed
               PROVE  b \in Chain[c] \/ c \in Chain[b]
    BY Zenon DEF Agreement
  <2>1. \A a \in Committed : a \in Blocks /\ Certified(a)
    <3> SUFFICES ASSUME NEW x \in Blocks \ {Genesis}, Certified(x)
                 PROVE  ParentOf[x] \in Blocks /\ Certified(ParentOf[x])
      BY Zenon DEF Committed
    <3> QED BY CertifiedIsSigned, SafetyAssumption, Zenon DEF SafetyInv, SignedIsRecorded
  <2>2. RoundOf[b] \in Nat /\ RoundOf[c] \in Nat
    BY <2>1, SafetyAssumption, Zenon
  <2> QED BY <2>1, <2>2, ExtendsCommitted DEF CertifiedExtendsCommitted
<1> QED BY <1>1, SafetyInvariant, PTL

\* No timeout an honest validator signed is older than the certificate of a block it has
\* given a vote for in that round or before.
THEOREM TimeoutsHideNoVoteAlways == Spec => []TimeoutsHideNoVote
<1>1. SafetyInv => TimeoutsHideNoVote
  BY Zenon DEF SafetyInv, TypeOK, TimeoutsAreRecorded, TimeoutsHideNoVote, Signed
<1> QED BY <1>1, SafetyInvariant, PTL
=============================================================================
