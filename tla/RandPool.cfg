SPECIFICATION FairSpec
CONSTANTS
  Thread = {t1, t2}
  NoThread = NoThread
  Polls = 1
  Stirs = 1
  MinBlocks = 1
  MaxBlocks = 2
  Needed = 1
  MaxCalls = 3
INVARIANTS Exclusive Unique NothingLost
PROPERTY Returns
CHECK_DEADLOCK FALSE
