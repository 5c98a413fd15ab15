SPECIFICATION Spec
CONSTANTS
  a = a  b = b  w1 = w1  w2 = w2
  NIL = NIL
  Workers = {w1, w2}
  Contents = {a, b}
  Path = a
  Owned <- MCOwned
  Requests <- MCRequests
  MaxCalls = 3
  MaxFaults = 2
SYMMETRY Symmetry
INVARIANTS ClaimsDurable PurgeVerified  
CHECK_DEADLOCK FALSE
