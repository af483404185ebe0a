SPECIFICATION FairSpec
CONSTANTS
  Process = {p1, p2, p3}
  Repository = {r1}
  Workspace = {w1, w2}
  NULL = NULL
INVARIANTS
  TypeOK
  NoLeakedLock
  MutualExclusion
  NoCircularWait
PROPERTY EveryCommandEnds
