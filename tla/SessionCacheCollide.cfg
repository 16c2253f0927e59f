SPECIFICATION Spec
CONSTANTS
  Thread = {t1, t2}
  Sess = {x1, x2}
  Id = {i1}
  CacheSize = 0
  AppMax = 1
  NoSess = NoSess
  NoThread = NoThread
  NoId = NoId
  ClientCache = TRUE
  Sni = FALSE
  Oom = FALSE
  AddNoId = TRUE
  SharedSsl = FALSE
SYMMETRY MCSymmetry
INVARIANTS RefCount UniqueId
