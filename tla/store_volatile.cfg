SPECIFICATION Spec
CONSTANTS
  Keys = {k1, k2, k3}
  Contents = {c1, c2}
  TTLs = {1, 2}
  Threads = {t1, t2}
  MaxEntries = 2
  RetryAttempts = 1
  DurableBackend = FALSE
  LockContention = FALSE
  Spill = FALSE
  NIL = NIL
  MaxTime = 2
  MaxStale = 9
SYMMETRY Symmetry
INVARIANT CapacityBound
INVARIANT HeapSound
PROPERTY EvictsOldest
PROPERTY ReadsPreserve
 
