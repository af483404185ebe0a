SPECIFICATION FairSpec
CONSTANTS
  NULL = NULL
  r1 = r1
  r2 = r2
  w1 = w1
  w2 = w2
  w3 = w3
  c1 = c1
  c2 = c2
  p1 = p1
  p2 = p2
  Process = {p1, p2}
  RepositoryID = {r1}
  WorkspaceID = {w1, w2}
  Root = {"root"}
  Session = {"", "s"}
  Name = {"a", "b", "x"}
  Digest = {"", "d1"}
  EmptyDigest = ""
  Container = {c1, c2}
  Bind = {"dir"}
  Candidates <- MCCandidates
  Resolvable <- Siblings
  InitialDatabases <- FromScratch
  Commands <- CrashCommands
  Containerized = {r1}
  OwnerOf <- Owners
  InitialSessions = {}
  ExitEmpty = TRUE
  Disturbances = {}
  Limits <- CrashLimits
INVARIANTS
  RecordNamesSession
  CrashNeverWedges
PROPERTIES
  EveryCommandEnds
