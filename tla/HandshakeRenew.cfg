SPECIFICATION Spec
CONSTANTS
  Configs <- MCRenew
  MaxData = 1
  MaxRenego = 0
CHECK_DEADLOCK FALSE
INVARIANTS NoAlert
