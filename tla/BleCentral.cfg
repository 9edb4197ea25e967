SPECIFICATION Spec
CONSTANTS
  Peer = {p1, p2, p3}
  Reachable = {p1, p2, p3}
  MaxConn = 2
  None = None
  MaxAttempts = 2
  MaxCmds = 3
  MaxDrops = 2
  MaxFaults = 1
INVARIANTS
  TypeOK
  ScannerOwned
  PendingProgress
  SingleVerdict
  ViewMatches
  NoStall
CHECK_DEADLOCK FALSE
SYMMETRY Alike
