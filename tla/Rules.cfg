SPECIFICATION Spec
CONSTANTS
  None = None
  NBulbs = 2
  Day = 8
  Offset = {4, 5}
  EveningCd = 1
  NightCd = 2
  MaxBox = 1
  MaxTime = 2
  MaxJobs = 3
  MaxTroubles = 2
INVARIANTS
  CooldownHolds
  LastFiredWins
CHECK_DEADLOCK FALSE
