SPECIFICATION FairSpec
CONSTANTS
  Configs <- MCLive
  MaxData = 1
  MaxRenego = 1
CHECK_DEADLOCK FALSE
INVARIANT Agreement
PROPERTIES Completes DataAfterFinished
