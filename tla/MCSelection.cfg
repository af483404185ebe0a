SPECIFICATION Spec
CHECK_DEADLOCK FALSE
CONSTANTS
  NULL = NULL
  p1 = p1
  p2 = p2
  Process = {p1, p2}
  Place <- Places
  Trees <- Files
  Roots <- Known
  Targets <- Arguments
  Cwds <- Shells
  Paths <- Given2
  Recorded <- Before
  Changes <- Replacements
  Moves <- Renames
  MaxEdits = 1
SYMMETRY Either
INVARIANTS
  OpensWhereBound
PROPERTIES
  BareSelectsDeepest
  BindClaimsDirectory
