SPECIFICATION FairSpec
CONSTANTS
  Peer = {p1, p2}
  MaxConn = 2
  None = None
  QueueSize = 3
  Wdt = 3
  MaxLinkEvents = 3
  MaxResets = 2
  MaxRestarts = 1
  MaxCasts = 1
INVARIANTS
  TypeOK
  OneChain
  NoSpuriousReboot
  ViewFollows
PROPERTY
  EventuallyOperational
