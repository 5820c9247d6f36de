SPECIFICATION FairSpec
CONSTANTS
  b1 = b1  b2 = b2  b3 = b3
  Blocks <- MCBlocks
  Size <- MCSize
  Reconfig <- MCReconfig
  Genesis = genesis
  Callers = {c1, c2}
INVARIANTS LedgerIsLinear LedgerUpdateFindsBlock LoneCallSucceeds
PROPERTIES NoDropUnderLock EventuallyCollected
CHECK_DEADLOCK FALSE
