SPECIFICATION Spec
CONSTANTS
  Peer = {me, other}
  Me = me
  MaxConn = 2
  None = None
  QueueSize = 3
  MaxLinks = 2
  MaxTroubles = 1
INVARIANTS
  TypeOK
  StaleHandleNoticed
  SettledView
CHECK_DEADLOCK FALSE
