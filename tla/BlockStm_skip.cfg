SPECIFICATION Spec
CONSTANTS
  x = x y = y m = m w0 = w0 w1 = w1 w2 = w2
  Threads = {w0, w1, w2}
  Coordinator = w0
  NoThread = NoThread
  Keys = {x, y, m}
  Modules = {m}
  Blocks = {"both"}
  Size <- MCSize
  Workers <- MCWorkers
  Reads <- MCReads
  Output <- MCOutput
  Gas <- MCGas
  GasLimit <- MCGasLimit
INVARIANT SkipRestIsOfSuccess
CHECK_DEADLOCK FALSE
