SPECIFICATION TabSpec
CONSTANTS
  MaxCalls = 2
  MaxOthers = 1
INVARIANT LiveIsNotAheadOfTheScreen
INVARIANT ScreenIsCurrent
CHECK_DEADLOCK FALSE
