------------------------------ MODULE MCSubnet ------------------------------
(* An instance of Subnet with interchangeable nodes and transactions named by *)
(* sequence number.                                                            *)
EXTENDS Subnet

CONSTANT LargeSeqs   \* sequence numbers of the large transactions

MCLarge == Accounts \X LargeSeqs
Symmetry == Permutations(Nodes)
=============================================================================
