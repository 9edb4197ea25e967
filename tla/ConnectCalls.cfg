SPECIFICATION Spec
CONSTANTS
  Peer = {p1, p2}
  MaxConn = 2
  None = None
  MaxAttempts = 2
  QueueSize = 3
  MaxCalls = 2
  MaxTroubles = 2
INVARIANTS
  TypeOK
  WaiterBacked
  AnsweredLink
  HonestScan
CHECK_DEADLOCK FALSE
SYMMETRY Alike
