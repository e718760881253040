CONSTANTS
  p1 = p1
  sys = sys
  c1 = c1
  c2 = c2
  alice = alice
  home = home
  System = sys
  Personal <- MCPersonal
  Slugs <- MCSlugs
  DefaultSlug <- MCDefaultSlug
  Clients <- MCClients
  MaxRequests = 4
  MaxRevision = 1
SPECIFICATION Spec
SYMMETRY MCSymmetry
INVARIANT LiveSlugUnique PrivateIsOffAir
PROPERTY SiteSpec
CHECK_DEADLOCK FALSE
