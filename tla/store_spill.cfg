SPECIFICATION FairSpec
CONSTANTS
  Keys = {k1, k2}
  Contents = {c1, c2}
  TTLs = {1, 2}
  Threads = {t1}
  MaxEntries = 1
  RetryAttempts = 1
  DurableBackend = FALSE
  LockContention = FALSE
  Spill = TRUE
  NIL = NIL
  MaxTime = 2
  MaxStale = 9
 
PROPERTY LockReleased
