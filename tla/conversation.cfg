SPECIFICATION Spec
CONSTANTS
  prose = prose  file = file  trace = trace  table = table  table2 = table2
  Originals = {prose, file, trace, table, table2}
  Prose = prose
  RowsOf <- MCRowsOf
  KeptRows <- MCKept
  Short = {prose}
  Code = {file}
  ErrorTexts = {trace}
  Shrinks = {file, table, table2, trace}
  CompressStale = TRUE
  CompressSuperseded = TRUE
  ExcludedTools = {"read", "edit"}
  ReadWindow = 3
  ProtectRecent = 1
  Pressured = {"search"}
  Exchanges <- MCExchanges
  MaxSources = 1
  MaxTurns = 3
  MaxVetoes = 1
INVARIANTS ScanSound FrozenUntouched    WarnsOfMovedBreakpoint
CHECK_DEADLOCK FALSE
