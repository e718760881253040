CONSTANTS
  c1 = c1
  c2 = c2
  s1 = s1
  s2 = s2
  s3 = s3
  u1 = u1
  u2 = u2
  Cats = {c1, c2}
  Uncategorized = c1
  Sites = {s1, s2, s3}
  FirstRows <- MCFirstRows
  Urls = {u1, u2}
  MaxCalls = 2
  MaxSteps = 3
  MaxRevision = 2
  Chunk = 1
SPECIFICATION Spec
INVARIANT FormsAreCurrent
INVARIANT DeletedMeansDeleted
INVARIANT CheckIsComplete
PROPERTY BatchSettles
CHECK_DEADLOCK FALSE
