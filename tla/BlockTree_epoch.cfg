SPECIFICATION Spec
CONSTANTS
  b1 = b1  b2 = b2  b3 = b3
  Blocks <- MCBlocks
  Size <- MCSize
  Reconfig <- MCReconfig
  Genesis = genesis
  Callers = {c1}
INVARIANT LoneCommitSucceeds
CHECK_DEADLOCK FALSE
