SPECIFICATION FairSpec
CONSTANTS
  Peer = {p1, p2, p3}
  Reachable = {p1, p2}
  MaxConn = 2
  None = None
  MaxAttempts = 2
  MaxCmds = 2
  MaxDrops = 2
  MaxFaults = 0
PROPERTY
  BondedReconnects
CHECK_DEADLOCK FALSE
