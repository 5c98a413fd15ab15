SPECIFICATION Spec
INVARIANTS TextKept   HintsHold 
CHECK_DEADLOCK FALSE
CONSTANTS
  Commands = {"a", "b"}
  OutputLines = 2
  Scenes <- Scenes2
  MaxClears = 1
  Threads = {"main", "worker"}
  Entries <- Entries3
  Lookups <- Lookups2
  WindowSeconds = 1
  HintMin = 1
  SkipMin = 2
  MaxEvents = 2
  MaxShapes = 2
  MaxClock = 2
  MaxCalls = 3
