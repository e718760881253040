CONSTANTS
  n1 = n1
  n2 = n2
  n3 = n3
  u1 = u1
  u2 = u2
  u3 = u3
  t1 = t1
  k1 = k1
  a = a
  p1 = p1
  x1 = x1
  CategoryIds = {1, 2, 3}
  Uncategorized = 2
  SiteIds = {1, 2, 3, 4}
  Names = {n1, n2, n3}
  Urls = {u1, u2}
  Titles = {t1}
  Looks = {k1}
  FirstName = n1
  FirstTitle = t1
  FirstLook = k1
  Clients = {a}
  MaxCategories = 2
  MaxSites = 2
  MaxRevision = 3
  File <- MCFile
  Tokens = {p1}
  Keys = {x1}
SPECIFICATION Spec
INVARIANT TablesAreSound ImportedOnce SeenIsCurrent
PROPERTY ImportDoesWhatItSays RevisionCountsChanges
