CONSTANTS
  Ops = {o1, o2}
  Socks = {s1}
  Len0 = 2
  Buffer = 2
  Overlap = FALSE
  None = None
  Conns = {c1}
  Accepts = {a1}
  MaxAddr = 2
  MaxPeers = 2
  MaxFailures = 1
SPECIFICATION SockSpec
INVARIANTS NothingDangles BytesAccounted StreamInOrder ConnectionsTidy
PROPERTIES DeadlineEnds ConnectionsServed
CHECK_DEADLOCK FALSE
