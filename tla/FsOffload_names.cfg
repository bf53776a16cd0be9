CONSTANTS
  Ops = {o1}
  Workers = {w1}
  Kinds = {"dir"}
  None = None
SPECIFICATION Spec
INVARIANTS NamesFreedOnce
CHECK_DEADLOCK FALSE
