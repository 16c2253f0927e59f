SPECIFICATION FairSpec
CONSTANTS
  Settings <- MCSettings
  AlertCount = 12
  Window = 2
INVARIANT FinishedMatch
PROPERTIES Completes ImplementsDelivery
CHECK_DEADLOCK FALSE
