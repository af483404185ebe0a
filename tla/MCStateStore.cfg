SPECIFICATION Spec
CONSTANTS
  NULL = NULL
  r1 = r1
  r0 = r0
  w1 = w1
  w2 = w2
  c1 = c1
  c2 = c2
  RepositoryID = {r1, r0}
  WorkspaceID = {w1, w2, r1, r0}
  Root = {"root"}
  Session = {"", "s"}
  Name = {"a", "b", "x"}
  Digest = {"d1"}
  Container = {c1, c2}
  Bind = {"dir"}
  Candidates <- MCCandidates
  Resolvable <- MCResolvable
  InitialDatabases <- MCInitialDatabases
INVARIANTS
  TypeOK
  Integrity
PROPERTIES
  RegistrationPreserves
  BindingIdentityKept
