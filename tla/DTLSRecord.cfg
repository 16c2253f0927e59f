SPECIFICATION Spec
CONSTANTS
  Bits = 2
  MaxSeq = 3
  MaxEpoch = 2
  Limit = 2
INVARIANTS NoReplay NothingRefused
