SPECIFICATION Spec
CONSTANTS
  x = x y = y m = m w0 = w0 w1 = w1 w2 = w2
  Threads = {w0, w1, w2}
  Coordinator = w0
  NoThread = NoThread
  Keys = {x, y, m}
  Modules = {m}
  Blocks = {"chain", "skip", "gas", "sum", "publish", "long", "hooks"}
  Size <- MCSize
  Workers <- MCWorkers
  Reads <- MCReads
  Output <- MCOutput
  Gas <- MCGas
  GasLimit <- MCGasLimit
INVARIANTS CommittedIsSequential FinishedIsComplete AssertionsHold
PROPERTY Termination
CHECK_DEADLOCK FALSE
