SPECIFICATION FairSpec
CONSTANTS
  Size = 2
  DrainLimit = 1
  Event = {Ready, e1}
  Ready = Ready
  Junk = Junk
  MaxPushes = 2
  MaxErrors = 1
  MaxResets = 1
  MaxRestarts = 1
INVARIANTS
  TypeOK
  NoLostWakeup
  WholeEvents
PROPERTY
  ChannelSpec
  EventuallyHandled
  EventuallyDrained
CHECK_DEADLOCK FALSE
