CONSTANTS
  h1 = h1
  h2 = h2
  h3 = h3
  k1 = k1
  k2 = k2
  Handlers <- MCHandlers
  Keys <- MCKeys
  Bodies <- MCBodies
  Answers <- MCBodies
  MaxRevision = 1
  MaxExpiries = 1
SPECIFICATION Spec
SYMMETRY MCSymmetry
INVARIANT OneTrueAnswer OncePerReservation KeyIsNotStranded
CHECK_DEADLOCK FALSE
