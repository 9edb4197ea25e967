SPECIFICATION Spec
CONSTANTS
  Peer = {p1}
  MaxConn = 1
  None = None
  MaxAttempts = 2
  QueueSize = 3
  MaxCalls = 1
  MaxTroubles = 1
PROPERTY
  CmdErrorFailsWaiters
CHECK_DEADLOCK FALSE
