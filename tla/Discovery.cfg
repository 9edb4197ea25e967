SPECIFICATION DiscoverySpec
CONSTANTS
  Address = {b1, b2, b3, b4}
  NoAddress = NoAddress
  Loaded = 2
  Numbered = 3
  MaxFound = 2
  MaxRuns = 3
  MaxRemovals = 1
  MaxFailures = 2
  MaxRestarts = 2
INVARIANTS
  TypeOK
  NumbersSound
  Remembered
CHECK_DEADLOCK FALSE
