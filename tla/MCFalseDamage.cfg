SPECIFICATION Spec
CHECK_DEADLOCK FALSE
CONSTANTS
  NULL = NULL
  doctor = doctor
  rebuild = rebuild
  list = list
  open = open
  Doctors = {}
  Rebuilders = {rebuild}
  Selectors = {}
  Openers = {open}
  Supports <- TwoBuilds
  StartVersions = {2}
INVARIANT NoFalseDamage
