SPECIFICATION FairSpec
CONSTANTS
  Keys = {k1, k2, k3}
  Payloads = {a, b}
  Threads = {t1, t2}
  Capacity = 1
  TTL = 1
  NIL = NIL
  MaxTime = 2
  MaxPuts = 4
CHECK_DEADLOCK FALSE
INVARIANT QueueSound
 
PROPERTY MutexReleased
