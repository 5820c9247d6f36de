---------------------------- MODULE PendingVotes ----------------------------
(***************************************************************************)
(* The votes a validator collects for its current round                     *)
(* (consensus/src/pending_votes.rs) and the timeout certificate they add up *)
(* to (consensus-types/src/timeout_2chain.rs).  A vote for a block is a     *)
(* vote for its ledger info, so the digest of the ledger info is the block. *)
(***************************************************************************)
EXTENDS TwoChainRules

\* A vote, with the round of the certificate its two-chain timeout carries (-1 when it
\* carries no timeout).
NoVote == [block |-> NoBlock, timeout |-> -1]
VoteFor(b) == [block |-> b, timeout |-> -1]
is_timeout(vote) == vote.timeout # -1

\* A TwoChainTimeoutCertificate: its round, the round of the quorum certificate it carries
\* and the rounds its signers signed.  With none, the rules read zero for both rounds.
NoCert == [round |-> 0, hqc_round |-> 0, signed |-> <<>>]

\* TwoChainTimeoutCertificate.verify, the signatures themselves aside.
CertVerifies(tc) ==
  /\ tc.hqc_round < tc.round
  /\ DOMAIN tc.signed \in Quorums
  /\ \A v \in DOMAIN tc.signed : tc.signed[v] <= tc.hqc_round
  /\ \E v \in DOMAIN tc.signed : tc.signed[v] = tc.hqc_round

\* PendingVotes.new.  The signatures of a ledger info are those of the authors whose vote
\* is for it, so li_digest_to_votes is left to author_to_vote.
NewPendingVotes ==
  [author_to_vote |-> [v \in Validators |-> NoVote], signed |-> <<>>,
   hqc_round |-> -1, echo_timeout |-> FALSE]

\* PartialSignatures.add_signature: an author's first signature stays.
AddSignature(signed, author, hqc_round) ==
  [v \in DOMAIN signed \cup {author} |-> IF v \in DOMAIN signed THEN signed[v] ELSE hqc_round]

\* Mutant of AddTimeout: the certificate keeps the first timeout it was made of.
AddTimeoutKeepsFirst(p, author, hqc_round) ==
  [p EXCEPT !.signed = AddSignature(@, author, hqc_round),
            !.hqc_round = IF @ = -1 THEN hqc_round ELSE @]

\* TwoChainTimeoutWithPartialSignatures.add: the certificate is the highest of the
\* timeouts'.
AddTimeout(p, author, hqc_round) ==
  [p EXCEPT !.signed = AddSignature(@, author, hqc_round),
            !.hqc_round = Larger(@, hqc_round)]

\* The answer to a vote: its VoteReceptionResult, and the pending votes after it.
Received(result, p) == [result |-> result, pending |-> p]

DuplicateVote(seen, vote) ==
  seen.block = vote.block /\ ~(is_timeout(vote) /\ ~is_timeout(seen))

\* PendingVotes.insert_vote.
InsertVote(p, author, vote) ==
  LET seen == p.author_to_vote[author]
      stored == [p EXCEPT !.author_to_vote[author] = vote]
      voters == {v \in Validators : stored.author_to_vote[v].block = vote.block}
      partial == AddTimeout(stored, author, vote.timeout)
      tc_voting_power == VotingPower(DOMAIN partial.signed)
      f_plus_one == total_voting_power - quorum_voting_power + 1
  IN  IF seen # NoVote /\ seen.block # vote.block THEN Received("EquivocateVote", p)
      ELSE IF DuplicateVote(seen, vote) THEN Received("DuplicateVote", p)
      ELSE IF voters \in Quorums THEN Received("NewQuorumCertificate", stored)
      ELSE IF ~is_timeout(vote) THEN Received("VoteAdded", stored)
      ELSE IF DOMAIN partial.signed \in Quorums
           THEN Received("New2ChainTimeoutCertificate", partial)
      ELSE IF ~partial.echo_timeout /\ tc_voting_power >= f_plus_one
           THEN Received("EchoTimeout", [partial EXCEPT !.echo_timeout = TRUE])
      ELSE Received("VoteAdded", partial)

\* What the pending timeouts of a round aggregate to.
TimeoutCert(p, round) == [round |-> round, hqc_round |-> p.hqc_round, signed |-> p.signed]
=============================================================================
