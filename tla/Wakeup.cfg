CONSTANTS
  Txs = {x1}
  Handlers = {h1, h2}
  HttpLocked = FALSE
  ClockSkew = TRUE
  MaxBatch = 1
  Timeout = 0
  MaxWakes = 1
  MaxProcessing = 1
SPECIFICATION FairSpec
INVARIANT NoLostWakeup
PROPERTY EventuallyBuilt
CHECK_DEADLOCK FALSE
