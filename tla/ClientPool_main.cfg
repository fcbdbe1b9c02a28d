SPECIFICATION Spec
CONSTANTS
  NumConnections = 2
  Conns = {c1, c2, c3}
  Fds = {3, 4, 5}
  Main = TRUE
  Nobody = Nobody
INVARIANT PoolInv
PROPERTY SeatsSpec
CHECK_DEADLOCK FALSE
