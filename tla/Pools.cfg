CONSTANTS
  Workers = {w1, w2, w3}
  Jobs = {j1, j2, j3, j4}
  NoJob = NoJob
  MaxThreads = 3
  MaxRows = 4
  FewRows = 2
  MaxCalls = 3
SPECIFICATION PoolsSpec
INVARIANTS NoLostWakeup OnePlace FreeDropsNothing RowsWrittenOnce
PROPERTIES ImplementsPool GemvCompletes
CHECK_DEADLOCK FALSE
