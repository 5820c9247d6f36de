CONSTANTS
  Accounts = {a1, a2}
  MaxSeq = 2
  MaxGas = 1
  BigSeqs = {2}
  Capacity = 3
  CapacityBytes = 4
  PerUser = 3
  MaxTxns = 3
  MaxBytes = 4
  Senders = {s1, s2, s3}
  Numbers = {0, 1}
SPECIFICATION BesideSpec
SYMMETRY Symmetry
INVARIANTS TypeOK IndexesAgree SizeIsExact NothingStranded NoStalePending NextIsReady WithinCapacity BatchIsExecutable BatchIsComplete DataInvariants
PROPERTY IsASet
