SPECIFICATION Spec
CONSTANTS
  Modes <- Released
  MaxFragment = 1
  MaxData = 3
  HelloLength = 2
  MaxAlerts = 2
  MaxDigested = 1
CHECK_DEADLOCK FALSE
INVARIANTS BufferHeld
