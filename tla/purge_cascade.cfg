SPECIFICATION Spec
CONSTANTS
  Keys = {top, a, b, c}
  Top = top
  MaxInterference = 1
SYMMETRY Symmetry
CHECK_DEADLOCK FALSE
INVARIANT TypeOK
INVARIANT ReportIsTrue
 
