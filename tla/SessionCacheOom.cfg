SPECIFICATION FairSpec
CONSTANTS
  Thread = {t1}
  Sess = {x1, x2, x3}
  Id = {i1, i2}
  CacheSize = 1
  AppMax = 0
  NoSess = NoSess
  NoThread = NoThread
  NoId = NoId
  ClientCache = FALSE
  Sni = TRUE
  Oom = TRUE
  AddNoId = FALSE
  SharedSsl = FALSE
INVARIANTS RefCount
PROPERTIES LockReleased
