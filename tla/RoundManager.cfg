SPECIFICATION Spec
CONSTANTS
  a = a b = b c = c
  Validators <- MCValidators
  Power <- MCPower
  LastRound <- MCLastRound
  Flaky = {b}
  Links <- MCLinks
  Leader <- MCLeader
  Genesis = 0
  BlockOf <- MCBlockOf
  RoundOf <- MCRoundOf
  ParentOf <- MCParentOf
  MaxFaults = 1
  FaultRounds = {2}
  NoBlock = NoBlock
INVARIANTS CanTimeOut CertificatesVerify
PROPERTY Progress
CHECK_DEADLOCK FALSE
