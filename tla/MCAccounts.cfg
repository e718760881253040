SPECIFICATION Spec
CONSTANTS
  ann = ann
  bob = bob
  cid = cid
  laptop = laptop
  phone = phone
  Nobody = Nobody
  Users <- MCUsers
  Members <- MCMembers
  Browsers <- MCBrowsers
  MaxUses = 1
  MaxTries = 1
  MaxCalls = 3
  MaxOthers = 2
SYMMETRY MCSymmetry
INVARIANT AdmissionsAreSpent
INVARIANT ResetEndsSessions
INVARIANT NobodyElsesData
CHECK_DEADLOCK FALSE
