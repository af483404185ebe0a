SPECIFICATION FairSpec
CHECK_DEADLOCK FALSE
CONSTANTS
  NULL = NULL
  doctor = doctor
  rebuild = rebuild
  list = list
  open = open
  Doctors = {doctor}
  Rebuilders = {}
  Selectors = {list}
  Openers = {open}
  Supports <- TwoBuilds
  StartVersions = {0, 2}
INVARIANTS
  MigrationsInOrder
  OpenIsCurrent
  InspectionIsCurrent
PROPERTY EveryCommandEnds
