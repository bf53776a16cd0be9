CONSTANTS
  Ops = {o1, o2}
  Workers = {w1, w2}
  Kinds = {"read", "write", "stat", "dir"}
  None = None
SPECIFICATION Spec
INVARIANTS EndsOnce LoopOutlivesWorkers ReadsLatestWrite
PROPERTIES CallbackComes
CHECK_DEADLOCK FALSE
