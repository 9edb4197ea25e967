SPECIFICATION FairSpec
CONSTANTS
  desk = desk
  bed = bed
  Name = {desk, bed, typo}
  Static <- MCStatic
  Mac <- MCMac
  Address = {1, 2, 3}
  Near = {1, 2}
  HomeOf <- MCHomeOf
  None = None
  MaxCalls = 3
  MaxMoves = 1
  MaxRefresh = 1
  MaxRestarts = 1
INVARIANTS
  ScanBacked
  OrderKept
  HonestAnswers
  CacheFresh
PROPERTY
  EventuallyAnswered
CHECK_DEADLOCK FALSE
