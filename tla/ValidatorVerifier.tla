-------------------------- MODULE ValidatorVerifier --------------------------
(***************************************************************************)
(* The voting power arithmetic of types/src/validator_verifier.rs: which    *)
(* sets of signers make a certificate.                                      *)
(***************************************************************************)
EXTENDS Integers, FiniteSets, Functions

CONSTANTS
  Validators,  \* the validators of the epoch
  Power        \* the voting power of each

\* sum_voting_power over a set of authors; a set has each author once, as the bit vector
\* of an aggregated signature does.
VotingPower(S) == SumFunctionOnSet(Power, S)

total_voting_power == VotingPower(Validators)

quorum_voting_power ==
  IF Validators = {} THEN 0 ELSE (total_voting_power * 2) \div 3 + 1

\* check_voting_power with check_super_majority: the sets of authors that are enough for a
\* quorum certificate or for a timeout certificate.
Quorums == {Q : Q \in {S \in SUBSET Validators : VotingPower(S) >= quorum_voting_power}}

\* That voting power is a sum of natural numbers.
ASSUME VerifierAssumption ==
  /\ \A S \in SUBSET Validators : VotingPower(S) \in Nat
  /\ VotingPower({}) = 0
  /\ \A S \in SUBSET Validators, T \in SUBSET Validators :
       VotingPower(S) + VotingPower(T) = VotingPower(S \cup T) + VotingPower(S \cap T)
=============================================================================
