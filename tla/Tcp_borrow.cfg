CONSTANTS
  Ops = {o1}
  Socks = {s1}
  Len0 = 2
  Buffer = 1
  Overlap = FALSE
  None = None
SPECIFICATION Spec
INVARIANTS BorrowEnds
CHECK_DEADLOCK FALSE
