SPECIFICATION Spec
CHECK_DEADLOCK FALSE
CONSTANTS
  NULL = NULL
  w = w
  v = v
  n = n
  m = m
  o = o
  Workspace = {w, v}
  Name = {n, m, o}
  Installations <- Installed
  MaxEvents = 3
INVARIANTS
  ObservationIsTrue
  FindingsAreTrue
  AttachHitsOwn
