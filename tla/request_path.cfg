SPECIFICATION Spec
CONSTANTS
  t1 = t1  t2 = t2
  rows = rows  diff = diff 
  Threads = {t1, t2}
  Contents = {rows, diff}
  Lossy = {rows, diff}
  Crushed = {rows}
  Blocks = {diff}
  Ratio <- MCRatio
  MinRatios = {1, 2}
  Threshold = 2
  Cooldown = 1
  CacheTTL = 1
  MaxEntries = 1
  SweepEvery = 2
  MaxMessages = 3
  MaxRequests = 3
  MaxEvents = 1
SYMMETRY Symmetry
INVARIANTS SkipJustified CallsSound
PROPERTIES ReturnsSound TripsOnStreak StragglersSwept
CHECK_DEADLOCK FALSE
