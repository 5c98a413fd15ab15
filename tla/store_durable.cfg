SPECIFICATION Spec
CONSTANTS
  Keys = {k1, k2}
  Contents = {c1}
  TTLs = {1, 2}
  Threads = {t1, t2}
  MaxEntries = 1
  RetryAttempts = 1
  DurableBackend = TRUE
  LockContention = TRUE
  Spill = FALSE
  NIL = NIL
  MaxTime = 2
  MaxStale = 2
SYMMETRY Symmetry
PROPERTY LossIsAccounted
