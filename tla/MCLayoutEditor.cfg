CONSTANTS
  c1 = c1
  c2 = c2
  s1 = s1
  s2 = s2
  k1 = k1
  k2 = k2
  CatIds = {c1, c2}
  SiteIds = {s1, s2}
  Templates = {k1, k2}
  OpenedPage <- MCOpenedPage
  MaxChanges = 3
  MaxEdits = 2
SPECIFICATION LayoutSpec
INVARIANT EditorIsSound
PROPERTY DragsKeepSites
PROPERTY HalvesBelongTogether
PROPERTY AutoSaveSettles
CHECK_DEADLOCK FALSE
