CONSTANTS
  Fds = {f1, f2}
  Ios = {i1, i2, i3}
  MaxEvents = 1
  None = None
  Threads = {a, b}
  LoopThread = LoopThread
  Tasks = {k1, k2}
  Timers = {t1}
  Delays = {1}
  Repeats = {0, 1}
  PipeCap = 1
  MaxTime = 1
SPECIFICATION RunSpec
INVARIANTS EventsAlive Registered EdgeKept
PROPERTIES Served LoopServes ImplementsTasks
CHECK_DEADLOCK FALSE
