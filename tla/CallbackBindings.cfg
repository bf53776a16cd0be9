CONSTANTS
  Threads = {a}
  LoopThread = LoopThread
  Closures = {c1, c2}
  Regs = {r1, r2}
  None = None
SPECIFICATION Spec
INVARIANTS RefsBalance
PROPERTIES Released
CHECK_DEADLOCK FALSE
