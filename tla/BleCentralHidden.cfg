SPECIFICATION FairSpec
CONSTANTS
  Peer = {p1, p2}
  Reachable = {p1}
  MaxConn = 2
  None = None
  MaxAttempts = 2
  MaxCmds = 0
  MaxDrops = 1
  MaxFaults = 0
PROPERTY
  ReconnectsInRange
CHECK_DEADLOCK FALSE
