SPECIFICATION Spec
CONSTANTS
  Thread = {t1, t2}
  Sess = {x1, x2, x3}
  Id = {i1, i2, i3}
  CacheSize = 2
  AppMax = 0
  NoSess = NoSess
  NoThread = NoThread
  NoId = NoId
  ClientCache = FALSE
  Sni = FALSE
  Oom = FALSE
  AddNoId = FALSE
  SharedSsl = FALSE
SYMMETRY MCSymmetry
INVARIANTS RefCount DoubleAccess UniqueId CacheBound FailedNotCached
PROPERTY ImplementsStore
