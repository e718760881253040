SPECIFICATION Spec
CONSTANTS
  nav = nav
  links = links
  custom = custom
  none = none
  Labels <- MCLabels
  ShortLabels <- MCShortLabels
  Hosts <- MCHosts
  NoHost = none
  MaxCalls = 2
  MaxOthers = 2
INVARIANT NamesAreSound
PROPERTY DecisionsStand
PROPERTY SuccessIsShown
CHECK_DEADLOCK FALSE
