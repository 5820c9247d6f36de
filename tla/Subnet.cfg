CONSTANTS
  Nodes = {n1, n2}
  Accounts = {a}
  MaxSeq = 2
  Capacity = 4
  CapacityBytes = 4
  PerUser = 4
  MaxTxns = 2
  MaxBytes = 4
  Large <- MCLarge
  LargeSeqs = {1}
  MaxBlocks = 1
  MaxGossip = 1
  MaxProposed = 1
SPECIFICATION Spec
SYMMETRY Symmetry
INVARIANT NextIsOffered
