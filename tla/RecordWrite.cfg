SPECIFICATION FairSpec
CONSTANTS
  Modes <- Held
  MaxFragment = 1
  MaxData = 3
  HelloLength = 2
  MaxAlerts = 2
  MaxDigested = 1
CHECK_DEADLOCK FALSE
INVARIANTS TypeOK Framing AlertKept
PROPERTIES ImplementsStream EmptyFirst WriteCompletes
