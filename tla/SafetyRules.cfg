SPECIFICATION Spec
CONSTANTS
  h1 = h1 h2 = h2 h3 = h3 z = z
  g = g a = a b = b c = c c2 = c2 e = e
  Validators <- MCValidators
  Power <- MCPower
  Faulty = {z}
  Flaky = {h1}
  Blocks <- MCBlocks
  Genesis = g
  RoundOf <- MCRoundOf
  ParentOf <- MCParentOf
  MaxRound = 2
  NoBlock = NoBlock
  NoData = NoData
SYMMETRY MCSymmetry
INVARIANTS SafetyInv Agreement CertifiedExtendsCommitted OneCertifiedPerRound TimeoutsHideNoVote
CHECK_DEADLOCK FALSE
