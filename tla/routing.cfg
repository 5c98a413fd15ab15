SPECIFICATION Spec
CONSTANTS
  ProseFloor = 1
  MinDataRows = 1
  LargeLines = 2
  Pressures = {0, 100}
  Configs <- MCConfigs
  Traits <- MCTraits
  Texts <- MCTexts
INVARIANTS RoutingSound HonestSavings SplitKeepsText
CHECK_DEADLOCK FALSE
