CONSTANTS
  Conns = {c1}
  Accepts = {a1}
  MaxAddr = 1
  MaxPeers = 1
  MaxFailures = 1
  None = None
SPECIFICATION Spec
INVARIANTS AcceptAlive
CHECK_DEADLOCK FALSE
