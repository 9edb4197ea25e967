SPECIFICATION Spec
CONSTANTS
  Link = {l1, l2}
  None = None
  NChars = 1
  AttSize = 2
  QueueSize = 2
  MaxSteps = 3
SYMMETRY Alike
VIEW Live
INVARIANTS
  TypeOK
  WaiterBacked
  OwnAnswer
  HonestOutcome
PROPERTIES
  ServiceSpec
CHECK_DEADLOCK FALSE
