SPECIFICATION Spec
CONSTANTS
  Procs = {p1, p2}
  Keys = {k1, k2, k3}
  TTLs = {1}
  MaxRows = 1
  PurgeEvery = 2
  NIL = NIL
  ClockStep = 2
  MaxTime = 2
  MaxKept = 1
  MaxDrift = 1
SYMMETRY Symmetry
INVARIANT FileSound
PROPERTY OwnWritesCounted
 
