SPECIFICATION RebuildSpec
CONSTANTS
  NULL = NULL
  r1 = r1
  r2 = r2
  r3 = r3
  w1 = w1
  w2 = w2
  p1 = p1
  p2 = p2
  Process = {p1, p2}
  Rebuilder = {p1}
  RepositoryID = {r1, r2, r3}
  WorkspaceID = {w1, w2, r1, r2, r3}
  Root = {"root", "tree", "lost", "odd"}
  Session = {"", "s"}
  Name = {"a", "b", "x"}
  Digest = {"", "d0", "d1"}
  EmptyDigest = ""
  CurrentDigest = "d1"
  Container = {}
  Bind = {}
  Candidates <- MCCandidates
  MainOf <- MCMainOf
  Resolvable <- Siblings
  InitialDatabases = {}
  InitialSessions = {}
  Scenes <- OnlyMigrated
  Commands <- OpenCommands
  Containerized = {}
  OwnerOf <- NoTable
  ExitEmpty = TRUE
  Disturbances = {"kill", "rename"}
  Limits <- RecoveryLimits
INVARIANT UpgradedSessionAdopted
