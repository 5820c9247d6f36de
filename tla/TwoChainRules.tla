---------------------------- MODULE TwoChainRules ----------------------------
(***************************************************************************)
(* The rules of consensus/safety-rules for two-chain voting, as functions   *)
(* of the block or the timeout to sign, the highest timeout certificate and *)
(* the SafetyData of the validator.  A block id is the hash of the block,   *)
(* so what a block says is a constant.                                      *)
(***************************************************************************)
EXTENDS ValidatorVerifier

CONSTANTS
  RoundOf,   \* the round of each block
  ParentOf,  \* the block each block's quorum certificate is for
  NoBlock    \* SafetyData.last_vote is None

Larger(i, j) == IF i > j THEN i ELSE j

EmptyData == [last_voted_round |-> 0, preferred_round |-> 0,
              one_chain_round |-> 0, last_vote |-> NoBlock]

\* observe_qc, on the certificate b carries, and the vote's own round.
DataAfterVote(d, b) ==
  [last_voted_round |-> RoundOf[b],
   preferred_round  |-> Larger(d.preferred_round, RoundOf[ParentOf[ParentOf[b]]]),
   one_chain_round  |-> Larger(d.one_chain_round, RoundOf[ParentOf[b]]),
   last_vote        |-> b]

\* Mutant of SafeToTimeout: the timeout's certificate may be older than one voted on.
SafeToTimeoutAny(t, tc, d) == t.round = t.hqc_round + 1 \/ t.round = tc.round + 1

SafeToTimeout(t, tc, d) ==
  /\ t.round = t.hqc_round + 1 \/ t.round = tc.round + 1
  /\ t.hqc_round >= d.one_chain_round

\* Mutant of SafeToVote: the certificates of the timeouts are not looked at.
SafeToVoteAny(b, tc) ==
  RoundOf[b] = RoundOf[ParentOf[b]] + 1 \/ RoundOf[b] = tc.round + 1

SafeToVote(b, tc) ==
  LET qc_round == RoundOf[ParentOf[b]]
  IN  \/ RoundOf[b] = qc_round + 1
      \/ RoundOf[b] = tc.round + 1 /\ qc_round >= tc.hqc_round
=============================================================================
