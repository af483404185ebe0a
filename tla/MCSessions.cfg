SPECIFICATION Spec
CONSTANTS
  NULL = NULL
  r1 = r1
  r2 = r2
  w1 = w1
  w2 = w2
  w3 = w3
  c1 = c1
  c2 = c2
  p1 = p1
  p2 = p2
  Process = {p1, p2}
  RepositoryID = {r1, r2}
  WorkspaceID = {w1, w3}
  Root = {"root", "root2"}
  Session = {"", "s"}
  Name = {"a", "b", "x"}
  Digest = {"", "d1"}
  EmptyDigest = ""
  Container = {c1}
  Bind = {"dir"}
  Candidates <- MCCandidates
  Resolvable <- Namesakes
  InitialDatabases <- FromScratch
  Commands <- SessionCommands
  Containerized = {}
  OwnerOf <- Owners
  InitialSessions = {}
  ExitEmpty = FALSE
  Disturbances <- TmuxActs
  Limits <- SessionLimits
SYMMETRY Symmetric
INVARIANTS
  TypeOK
PROPERTIES
  KillHitsOwnSession
