CONSTANTS
  a1 = a1
  Admins <- MCAdmins
  MaxVersion = 3
  MaxChecks = 1
  MaxCrashes = 1
SPECIFICATION Spec
INVARIANT SomeBinarySurvives
PROPERTY NoDowngrade BusyStatusClears
CHECK_DEADLOCK FALSE
