CONSTANTS
  o1 = o1
  o2 = o2
  s1 = s1
  s2 = s2
  c1 = c1
  c2 = c2
  r1 = r1
  r2 = r2
  Owners = {o1, o2}
  Slugs = {s1, s2}
  Contents = {c1, c2}
  Rows = {r1, r2}
  Builtins <- MCBuiltins
  Shipped <- MCShipped
  Quota = 1
  MaxLocked = 1
SPECIFICATION Spec
SYMMETRY MCSymmetry
INVARIANT PagesRender ReviewsAreSound QuotaHolds
PROPERTY NoRevival
