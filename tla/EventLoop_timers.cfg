CONSTANTS
  Threads = {a}
  LoopThread = LoopThread
  Tasks = {k1}
  Timers = {t1, t2}
  Delays = {0, 1, 2}
  Repeats = {0, 1}
  PipeCap = 1
  MaxTime = 2
SPECIFICATION Spec
SYMMETRY Interchangeable
INVARIANTS NoLostWakeup TimerMemory CancelIsFinal
CHECK_DEADLOCK FALSE
