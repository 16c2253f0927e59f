SPECIFICATION Spec
CONSTANTS
  Configs <- MCOrderly
  MaxData = 2
  MaxRenego = 1
CHECK_DEADLOCK FALSE
INVARIANTS TypeOK NoAlert Agreement NoDataLost NoStall ShutdownComplete
PROPERTIES DataAfterFinished CloseIsFinal ImplementsChannel
