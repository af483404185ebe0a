---------------------------- MODULE RebuildProofs ----------------------------
(***************************************************************************)
(* Rebuild takes one lock at a time where the commands take two, from a    *)
(* loop of its own.  It obeys the protocol of FileLocks all the same, so   *)
(* that the lock theorems hold of rebuilds and commands that run together. *)
(*                                                                         *)
(* The invariant of both is Ordered: Sound of the commands, and of each    *)
(* rebuild the Task it is at and the Standing of what it writes in the     *)
(* store.  From it follow the types, that a collapse loses no repository,  *)
(* that recovery only fills in (Filling), and that a settled installation  *)
(* stays quiet (Fits, Quiet).                                              *)
(***************************************************************************)
EXTENDS Rebuild, CommandProofs

\* The calls of a rebuild that are made under a lock, or without one.
CallOfRebuild(p) ==
  \/ Lists(p) \/ ReadsRepositories(p) \/ DropsVanished(p)
  \/ RegistersParent(p) \/ DropsLinked(p) \/ PlansRetags(p)
  \/ TagsRoot(p) \/ TagsID(p) \/ ReadsRecords(p) \/ ObservesLive(p) \/ Rereads(p)
  \/ RegistersSession(p) \/ AdoptsLive(p) \/ ItemFails(p) \/ Reports(p) \/ Exits(p)

\* What a rebuild calls of the store and of the scan leaves the locks alone.
LEMMA RebuildCallsLeaveLocks ==
  ASSUME NEW p \in Rebuilder, CallOfRebuild(p)
  PROVE  UNCHANGED <<holder, phase, want>>
<1>1. CASE \/ Lists(p) \/ ReadsRepositories(p) \/ DropsVanished(p)
           \/ PlansRetags(p) \/ ReadsRecords(p) \/ Reports(p) \/ Exits(p)
  BY <1>1 DEF lockVars, Lists, ReadsRepositories, DropsVanished, PlansRetags,
              ReadsRecords, Reports, Exits
<1>2. CASE \/ RegistersParent(p) \/ DropsLinked(p) \/ TagsRoot(p) \/ TagsID(p)
           \/ ObservesLive(p) \/ Rereads(p) \/ RegistersSession(p)
           \/ AdoptsLive(p) \/ ItemFails(p)
  BY <1>2 DEF lockVars, Work, RegistersParent, DropsLinked, TagsRoot, TagsID,
              ObservesLive, Rereads, RegistersSession, AdoptsLive, ItemFails
<1> QED
  BY <1>1, <1>2 DEF CallOfRebuild

\* Each item begins, waits, gives up and ends as a command does.
LEMMA ItemsObeyLocks ==
  ASSUME NEW p \in Rebuilder,
         \/ BeginsCollapse(p) \/ BeginsRetag(p) \/ BeginsApply(p)
         \/ WaitsForItem(p) \/ SkipsItem(p) \/ ReleasesItem(p) \/ Dies(p)
  PROVE  Locks!Next \/ UNCHANGED <<holder, phase, want>>
<1> p \in Process
  BY RebuilderAssumption
<1>1. CASE BeginsCollapse(p)
  BY <1>1 DEF BeginsCollapse, Begins, lockVars, Locks!Next
<1>2. CASE BeginsRetag(p) \/ BeginsApply(p)
  BY <1>2 DEF BeginsRetag, BeginsApply, Begins, Locks!Next
<1>3. CASE WaitsForItem(p)
  BY <1>3 DEF WaitsForItem, Locks!Next, Locks!Advance
<1>4. CASE SkipsItem(p)
  BY <1>4 DEF SkipsItem, Locks!Next, Locks!Advance
<1>5. CASE ReleasesItem(p)
  BY <1>5 DEF ReleasesItem, Locks!Next, Locks!Advance
<1>6. CASE Dies(p)
  BY <1>6 DEF Dies, lockVars, Locks!Next
<1> QED
  BY <1>1, <1>2, <1>3, <1>4, <1>5, <1>6

\* Rebuilds and the commands beside them lock as FileLocks says (cli/rebuild.go
\* stateLocker, called by apply.go and migrate.go).
THEOREM RebuildsObeyLocks == RebuildSpec => Locks!Spec
<1>1. RebuildInit => Locks!Init
  BY DEF RebuildInit
<1>2. [RebuildNext]_jobVars => [Locks!Next]_<<holder, phase, want>>
  <2> SUFFICES ASSUME [RebuildNext]_jobVars
               PROVE  Locks!Next \/ UNCHANGED <<holder, phase, want>>
    OBVIOUS
  <2>1. CASE UNCHANGED jobVars
    BY <2>1 DEF jobVars, vars, lockVars
  <2>2. CASE UserDisturbs
    BY <2>2, UsersLeaveLocks DEF UserDisturbs
  <2>3. CASE Rests
    BY <2>3 DEF Rests, vars, lockVars
  <2>4. ASSUME NEW p \in Process \ Rebuilder, Runs(p)
        PROVE  Locks!Next \/ UNCHANGED <<holder, phase, want>>
    BY <2>4, CallsLeaveLocks, ProcessesObeyLocks DEF Runs
  <2>5. ASSUME NEW p \in Rebuilder, Rebuilds(p)
        PROVE  Locks!Next \/ UNCHANGED <<holder, phase, want>>
    BY <2>5, RebuildCallsLeaveLocks, ItemsObeyLocks DEF Rebuilds, CallOfRebuild
  <2> QED
    BY <2>1, <2>2, <2>3, <2>4, <2>5 DEF RebuildNext
<1> QED
  BY <1>1, <1>2, PTL DEF RebuildSpec, Locks!Spec, Locks!lockVars

\* No two of the rebuilds and commands at work share a lock key, though each
\* rebuild locks a repository alone or a workspace alone.
THEOREM RebuildsExclude == RebuildSpec => []Locks!MutualExclusion
<1>1. LocksProofs!Spec => []LocksProofs!MutualExclusion
  BY LocksProofs!LocksExclude, LockKeysAssumption DEF LocksProofs!LocksExclude
<1>2. LocksProofs!MutualExclusion => Locks!MutualExclusion
  BY DEF LocksProofs!MutualExclusion, Locks!MutualExclusion
<1> QED
  BY <1>1, <1>2, RebuildsObeyLocks, SameLocks, PTL

\* Rebuilds that take repository and workspace locks in turn never wait in a
\* circle with commands that hold both.
THEOREM RebuildsNeverDeadlock == RebuildSpec => []Locks!NoCircularWait
<1>1. LocksProofs!Spec => []LocksProofs!NoCircularWait
  BY LocksProofs!LocksNeverDeadlock, LockKeysAssumption
  DEF LocksProofs!LocksNeverDeadlock
<1>2. LocksProofs!NoCircularWait => Locks!NoCircularWait
  BY DEF LocksProofs!NoCircularWait, Locks!NoCircularWait, LocksProofs!WaitsFor,
     Locks!WaitsFor, LocksProofs!Polled, Locks!Polled
<1> QED
  BY <1>1, <1>2, RebuildsObeyLocks, SameLocks, PTL

\* The lock table is of its shape beside rebuilds, and shows who holds what.
LEMMA RebuildsLockTyped == RebuildSpec => [](Locks!TypeOK /\ Locks!NoLeakedLock)
<1>1. LocksProofs!Spec => []LocksProofs!TypeOK
  BY LocksProofs!LocksTypeOK, LockKeysAssumption DEF LocksProofs!LocksTypeOK
<1>2. LocksProofs!Spec => []LocksProofs!NoLeakedLock
  BY LocksProofs!LocksNeverLeak, LockKeysAssumption DEF LocksProofs!LocksNeverLeak
<1>3. LocksProofs!TypeOK => Locks!TypeOK
  BY DEF LocksProofs!TypeOK, Locks!TypeOK, LocksProofs!Locks, Locks!Locks,
     LocksProofs!Key, Locks!Key, LocksProofs!Phase, Locks!Phase,
     LocksProofs!Footprint, Locks!Footprint
<1>4. LocksProofs!NoLeakedLock => Locks!NoLeakedLock
  BY DEF LocksProofs!NoLeakedLock, Locks!NoLeakedLock, LocksProofs!HeldKeys,
     Locks!HeldKeys, LocksProofs!Key, Locks!Key
<1> QED
  BY <1>1, <1>2, <1>3, <1>4, RebuildsObeyLocks, SameLocks, PTL

-----------------------------------------------------------------------------
(* Resolution *)

\* A path below a main worktree, with a session, is one workspace's.
LEMMA PathsResolve ==
  ASSUME NEW path \in Root, NEW session \in Session, MainOf[path] \in Root
  PROVE  LET ws == WorkspaceAt(path, session) IN
         /\ ws \in Resolvable /\ ws \in Store!Identity
         /\ ws.repo_root = MainOf[path] /\ ws.session = session
         /\ ws.id \in LockedID /\ ws.repository_id \in RepositoryID
<1>1. \E ws \in Resolvable : ws.repo_root = MainOf[path] /\ ws.session = session
  BY WorktreesAssumption
<1>2. /\ WorkspaceAt(path, session) \in Resolvable
      /\ WorkspaceAt(path, session).repo_root = MainOf[path]
      /\ WorkspaceAt(path, session).session = session
  BY <1>1 DEF WorkspaceAt
<1>3. Resolvable \subseteq Store!Identity
  BY StoreAssumption DEF Store!IDsAreDigests
<1> QED
  BY <1>2, <1>3 DEF LockedID, Store!Identity

\* A live session that can be resolved.
Belonging(s) == s \in SessionRow /\ Resolves(s)

\* It resolves to one workspace.
LEMMA SessionsResolve ==
  ASSUME NEW s, Belonging(s)
  PROVE  LET ws == WorkspaceOf(s) IN
         /\ ws \in Resolvable /\ ws \in Store!Identity
         /\ ws.repo_root = MainOf[s.keys.place[1]] /\ ws.session = s.keys.place[2]
         /\ ws.id \in LockedID /\ ws.repository_id \in RepositoryID
<1>1. s.keys.place[1] \in Root /\ s.keys.place[2] \in Session
  BY DEF Belonging, Resolves, SessionRow
<1> QED
  BY <1>1, PathsResolve DEF Belonging, Resolves, WorkspaceOf

\* The main worktree decides, from whichever of its paths it is reached.
LEMMA MainsDecide ==
  ASSUME NEW path \in Root, NEW other \in Root, NEW session,
         MainOf[path] = MainOf[other]
  PROVE  WorkspaceAt(path, session) = WorkspaceAt(other, session)
<1> DEFINE Main(m) == CHOOSE ws \in Resolvable : ws.repo_root = m /\ ws.session = session
<1>1. WorkspaceAt(path, session) = Main(MainOf[path])
  BY DEF WorkspaceAt
<1>2. WorkspaceAt(other, session) = Main(MainOf[other])
  BY DEF WorkspaceAt
<1> HIDE DEF Main
<1> QED
  BY <1>1, <1>2

\* A session with the keys of the workspace that another resolves to resolves
\* to the same one.
LEMMA KeysResolve ==
  ASSUME NEW s, Belonging(s), NEW t \in SessionRow,
         Plan!SessionBelongsTo(t, WorkspaceOf(s))
  PROVE  Belonging(t) /\ WorkspaceOf(t) = WorkspaceOf(s)
<1> DEFINE ws == WorkspaceOf(s)
<1>1. /\ s.keys.place[1] \in Root /\ s.keys.place[2] \in Session
      /\ s.keys.place # NULL /\ MainOf[s.keys.place[1]] \in Root
  BY DEF Belonging, Resolves, SessionRow
<1>2. /\ ws \in Resolvable /\ ws.repo_root = MainOf[s.keys.place[1]]
      /\ ws.session = s.keys.place[2] /\ ws.repo_root \in Root /\ ws.session \in Session
  BY SessionsResolve DEF Store!Identity
<1>3. MainOf[ws.repo_root] = ws.repo_root
  BY <1>2, WorktreesAssumption
<1>4. t.keys.place = <<ws.repo_root, ws.session>>
  BY DEF Plan!SessionBelongsTo, Plan!KeysOf
<1>5. /\ t.keys.place[1] = ws.repo_root /\ t.keys.place[2] = ws.session
      /\ t.keys.place \in Root \X Session
  BY <1>2, <1>4
<1>6. t.keys.place # NULL
  BY <1>5, RecordsAssumption
<1>7. WorkspaceAt(ws.repo_root, ws.session) = WorkspaceAt(s.keys.place[1], ws.session)
  BY <1>1, <1>2, <1>3, MainsDecide
<1> QED
  BY <1>2, <1>3, <1>5, <1>6, <1>7 DEF Belonging, Resolves, WorkspaceOf

-----------------------------------------------------------------------------
(* The store *)

\* A repository that is no main worktree's.
StaleEntry(r) ==
  /\ r \in [id : RepositoryID, repo_root : Root]
  /\ MainOf[r.repo_root] \in (Root \ {r.repo_root}) \cup {"gone"}
  /\ \A ws \in Resolvable : ws.repository_id # r.id

\* Dropping it keeps the store sound, and takes no row of a workspace that
\* resolves and no other repository.
LEMMA DropKeepsStore ==
  ASSUME StoreSound, NEW r \in RepositoryID, Store!DropRepository(r),
         \A ws \in Resolvable : ws.repository_id # r
  PROVE  /\ StoreSound'
         /\ \A v \in Resolvable : Store!Known(v.id) =>
              Store!Known(v.id)' /\ db'.workspaces[v.id] = db.workspaces[v.id]
         /\ DOMAIN db'.repositories = DOMAIN db.repositories \ {r}
         /\ \A q \in DOMAIN db'.repositories : db'.repositories[q] = db.repositories[q]
         /\ DOMAIN db'.workspaces \subseteq DOMAIN db.workspaces
         /\ \A w \in DOMAIN db'.workspaces : db'.workspaces[w] = db.workspaces[w]
<1> USE StoreAssumed
<1>1. StoreProofs!DropRepository(r)
  BY DEF Store!DropRepository, StoreProofs!DropRepository, Store!OnRepositories,
     StoreProofs!OnRepositories, Store!Without, StoreProofs!Without
<1>2. StoreProofs!IInv
  BY SameStore DEF StoreSound, Store!TypeOK, Store!Integrity, StoreProofs!IInv,
     StoreProofs!TypeOK, StoreProofs!Integrity
<1>3. StoreProofs!IInv'
  BY <1>1, <1>2, StoreProofs!DropKeeps DEF StoreProofs!DropKeeps
<1>4. StoreSound'
  BY <1>3, SameStore DEF StoreSound, Store!TypeOK, Store!Integrity, StoreProofs!IInv,
     StoreProofs!TypeOK, StoreProofs!Integrity
<1> DEFINE dead == Store!OnRepositories({r})
           repos == Store!Without(db.repositories, {r})
           rows == Store!Without(db.workspaces, dead)
<1>5. db'.repositories = repos /\ db'.workspaces = rows
  BY DEF Store!DropRepository
<1>6. /\ DOMAIN repos = DOMAIN db.repositories \ {r}
      /\ \A q \in DOMAIN repos : repos[q] = db.repositories[q]
      /\ DOMAIN rows = DOMAIN db.workspaces \ dead
      /\ \A w \in DOMAIN rows : rows[w] = db.workspaces[w]
  BY DEF Store!Without
<1>7. ASSUME NEW v \in Resolvable, Store!Known(v.id)
      PROVE  v.id \notin Store!OnRepositories({r})
  BY <1>7 DEF StoreSound, Store!IsPlaced, Store!Known, Store!OnRepositories
<1> HIDE DEF repos, rows
<1> QED
  BY <1>4, <1>5, <1>6, <1>7 DEF Store!Known

\* A registration writes its own repository, and removes only what was recorded
\* at the same root.
LEMMA RegistrationPlaces ==
  ASSUME StoreSound, NEW ws \in Resolvable, NEW d, Store!RegisterWorkspace(ws, d)
  PROVE  /\ Store!KnownRepository(ws.repository_id)'
         /\ \A r \in DOMAIN db'.repositories :
              \/ /\ r = ws.repository_id
                 /\ db'.repositories[r].repo_root = ws.repo_root
              \/ /\ r # ws.repository_id /\ r \in DOMAIN db.repositories
                 /\ db.repositories[r].repo_root # ws.repo_root
                 /\ db'.repositories[r] = db.repositories[r]
         /\ \A r \in DOMAIN db.repositories :
              r \in DOMAIN db'.repositories \/ db.repositories[r].repo_root = ws.repo_root
         /\ \A v \in Resolvable : Store!KnownRepository(v.repository_id)
              => Store!KnownRepository(v.repository_id)'
<1> DEFINE gone == Store!StaleRepositories(ws)
           rest == Store!Without(db.repositories, gone)
           new == Store!With(rest, ws.repository_id, [repo_root |-> ws.repo_root])
<1>1. db'.repositories = new
  BY DEF Store!RegisterWorkspace
<1>2. /\ DOMAIN rest = DOMAIN db.repositories \ gone
      /\ \A r \in DOMAIN rest : rest[r] = db.repositories[r]
  BY DEF Store!Without
<1>3. /\ DOMAIN new = DOMAIN rest \cup {ws.repository_id}
      /\ new[ws.repository_id] = [repo_root |-> ws.repo_root]
      /\ \A r \in DOMAIN rest : r # ws.repository_id => new[r] = rest[r]
  BY DEF Store!With
<1>4. \A r \in DOMAIN db.repositories :
        r \in gone <=> db.repositories[r].repo_root = ws.repo_root /\ r # ws.repository_id
  BY DEF Store!StaleRepositories
<1> HIDE DEF gone, rest, new
<1>5. ASSUME NEW v \in Resolvable, v.repository_id \in DOMAIN db.repositories
      PROVE  v.repository_id \notin gone
  BY <1>4, <1>5, StoreAssumption DEF StoreSound, Store!IsPlaced, Store!IDsAreDigests
<1>6. [repo_root |-> ws.repo_root].repo_root = ws.repo_root
  OBVIOUS
<1> QED
  BY <1>1, <1>2, <1>3, <1>4, <1>5, <1>6 DEF Store!KnownRepository

\* Where nothing awaits migration, a registration writes one row.
LEMMA RegistrationWrites ==
  ASSUME NoRelics(db), NEW ws \in Resolvable, NEW d, Store!RegisterWorkspace(ws, d)
  PROVE  /\ DOMAIN db'.workspaces = DOMAIN db.workspaces \cup {ws.id}
         /\ \A w \in DOMAIN db.workspaces :
              w # ws.id => db'.workspaces[w] = db.workspaces[w]
         /\ db'.workspaces[ws.id]
              = Store!Refreshed(IF Store!Known(ws.id) THEN db.workspaces[ws.id]
                                ELSE Store!FreshRow(ws), ws, d)
<1> DEFINE dead == Store!OnRepositories(Store!StaleRepositories(ws))
           rest == Store!Without(db.workspaces, dead)
           row == IF ws.id \in DOMAIN rest THEN rest[ws.id] ELSE Store!FreshRow(ws)
           fresh == Store!Refreshed(row, ws, d)
           new == Store!With(rest, ws.id, fresh)
<1>1. dead = {}
  <2>1. Store!StaleRepositories(ws) = {}
    BY DEF NoRelics, Store!StaleRepositories
  <2> QED
    BY <2>1 DEF Store!OnRepositories
<1>2. Store!StaleIDs(ws) = {}
  BY DEF NoRelics, Store!StaleIDs
<1>3. Store!Rekeyed(rest, Store!StaleIDs(ws), ws.id) = rest
  BY <1>2 DEF Store!Rekeyed
<1>4. db'.workspaces = new
  BY <1>3 DEF Store!RegisterWorkspace
<1>5. /\ DOMAIN rest = DOMAIN db.workspaces
      /\ \A w \in DOMAIN rest : rest[w] = db.workspaces[w]
  BY <1>1 DEF Store!Without
<1>6. /\ DOMAIN new = DOMAIN rest \cup {ws.id} /\ new[ws.id] = fresh
      /\ \A w \in DOMAIN rest : w # ws.id => new[w] = rest[w]
  BY DEF Store!With
<1>7. row = IF Store!Known(ws.id) THEN db.workspaces[ws.id] ELSE Store!FreshRow(ws)
  BY <1>5 DEF Store!Known
<1> HIDE DEF rest, row, new
<1> QED
  BY <1>4, <1>5, <1>6, <1>7

\* A step that adds no repository but a main worktree's, moves none, and takes
\* no main worktree's.
RepositoriesStand ==
  /\ \A r \in DOMAIN db'.repositories :
       (\A ws \in Resolvable : ws.repository_id # r) =>
         r \in DOMAIN db.repositories /\ db'.repositories[r] = db.repositories[r]
  /\ \A ws \in Resolvable : Store!KnownRepository(ws.repository_id)
       => Store!KnownRepository(ws.repository_id)'

\* Only registrations touch the repositories, of what commands and rebuilds
\* record.
LEMMA RepositoriesChange ==
  ASSUME StoreSound, Transacts
  PROVE  \/ db'.repositories = db.repositories
         \/ \E ws \in Resolvable, d \in Digest : Store!RegisterWorkspace(ws, d)
<1>1. db = [repositories |-> db.repositories, workspaces |-> db.workspaces,
            container_bindings |-> db.container_bindings,
            last_operations |-> db.last_operations]
  BY DEF StoreSound, Store!TypeOK, Store!IsDatabase
<1>2. CASE Store!Register
  BY <1>2 DEF Store!Register
<1>3. CASE Store!Allocate \/ Store!Adopt
  <2>1. \/ UNCHANGED db
        \/ \E w, n : db' = [db EXCEPT !.workspaces[w].actual_session = n]
    BY <1>3 DEF Store!Allocate, Store!AllocateSessionName, Store!Adopt,
       Store!AdoptSessionName
  <2> QED
    BY <1>1, <2>1
<1>4. CASE Store!Observe \/ Store!Operate \/ Store!Rebind
  BY <1>1, <1>4 DEF Store!Observe, Store!RecordContainerObservation, Store!Operate,
     Store!RecordOperation, Store!Rebind, Store!SetBind
<1>5. CASE Store!Commit
  <2>1. PICK w, d, obs, op : Store!CommitReconciliation(w, d, obs, op)
    BY <1>5 DEF Store!Commit
  <2> DEFINE digest == IF d = NULL THEN db.workspaces[w].applied_digest ELSE d
             bindings == IF obs = NULL THEN db.container_bindings
                         ELSE Store!Recorded(db.container_bindings,
                                             db.workspaces[w].repository_id, obs)
             ops == Store!With(db.last_operations, w, op)
  <2>2. db' = [db EXCEPT !.workspaces[w].applied_digest = digest,
                         !.container_bindings = bindings, !.last_operations = ops]
    BY <2>1 DEF Store!CommitReconciliation
  <2> HIDE DEF digest, bindings, ops
  <2> QED
    BY <1>1, <2>2
<1> QED
  BY <1>2, <1>3, <1>4, <1>5 DEF Transacts, Notes

-----------------------------------------------------------------------------
(* A rebuild at work *)

\* What the entries of each work list are, and the entry at hand.
IsEntry(loop, e) ==
  \/ loop = "collapse" /\ StaleEntry(e)
  \/ loop = "retag" /\ Belonging(e)
  \/ loop = "apply" /\ e.case \in Candidate /\ Belonging(e.session)

\* The calls for an entry, and the lock w they are made under.
AtEntry(j, w) ==
  \/ /\ j.loop = "collapse" /\ j.at \in {"register parent", "drop", "release"}
     /\ MainOf[j.item.repo_root] \in Root
     /\ w = OfRepository(WorkspaceAt(j.item.repo_root, ""))
  \/ /\ j.loop = "retag" /\ j.at \in {"tag root", "tag id", "release"}
     /\ w = OfWorkspace(WorkspaceOf(j.item))
  \/ /\ j.loop = "apply"
     /\ j.at \in {"observe", "reread", "register", "adopt", "release"}
     /\ DOMAIN j.item = {"session", "case", "digest"}
     /\ w = OfWorkspace(WorkspaceOf(j.item.session))

\* What a rebuild in phase f that asked for the lock w remembers.
Task(j, f, w) ==
  /\ DOMAIN j = DOMAIN NoJob
  /\ j.loop \in {"off", "collapse", "retag", "apply"}
  /\ j.live \subseteq SessionRow /\ j.flaws \subseteq {"conflict", "failed"}
  /\ \A e \in j.todo : IsEntry(j.loop, e)
  /\ IF f = "idle" THEN j.at \in {"off", "repositories", "done", j.loop}
     ELSE IsEntry(j.loop, j.item) /\ AtEntry(j, w)
  /\ j.at \in {"off", "repositories"} => j.loop = "off"
  /\ j.at \in {"drop", "tag id", "reread", "register", "adopt"} => f = "held"
  /\ j.at \in {"reread", "register", "adopt"} =>
       Plan!SessionBelongsTo(j.item.session, WorkspaceOf(j.item.session))
  /\ j.at = "register" => j.item.digest = CurrentDigest

\* What it found recorded stands: an entry of the collapse is where it was, and
\* its parent is there before it is dropped.
Standing(d, j, f) ==
  /\ j.loop = "collapse" =>
       \A e \in j.todo \cup (IF f = "idle" THEN {} ELSE {j.item}) :
         e.id \in DOMAIN d.repositories => d.repositories[e.id].repo_root = e.repo_root
  /\ j.at = "drop" =>
       WorkspaceAt(j.item.repo_root, "").repository_id \in DOMAIN d.repositories

Tasked(p) ==
  /\ cmd[p] = NULL
  /\ Task(job[p], phase[p], want[p])
  /\ Standing(db, job[p], phase[p])

Jobs == /\ DOMAIN job = Process
        /\ \A p \in Process \ Rebuilder : job[p] = NoJob
        /\ \A p \in Rebuilder : Tasked(p)

\* The one call a step of a rebuild makes to the store.
LEMMA RebuildsTransact ==
  ASSUME Jobs, Locks!TypeOK, NEW p \in Rebuilder, Rebuilds(p)
  PROVE  \/ /\ RegistersParent(p) \/ RegistersSession(p)
            /\ \E ws \in Resolvable : Store!RegisterWorkspace(ws, CurrentDigest)
         \/ AdoptsLive(p) /\ (Store!Adopt \/ UNCHANGED db)
         \/ /\ DropsVanished(p) \/ DropsLinked(p)
            /\ \E e : /\ StaleEntry(e) /\ Store!DropRepository(e.id)
                      /\ Store!KnownRepository(e.id) =>
                           db.repositories[e.id].repo_root = e.repo_root
                      /\ \/ MainOf[e.repo_root] = "gone"
                         \/ \E ws \in Resolvable :
                              /\ ws.repo_root = MainOf[e.repo_root]
                              /\ Store!KnownRepository(ws.repository_id)
         \/ UNCHANGED db
<1> DEFINE j == job[p]
<1>1. Task(j, phase[p], want[p]) /\ Standing(db, j, phase[p])
  BY DEF Jobs, Tasked
<1>2. CASE RegistersParent(p)
  <2>1. j.at = "register parent" /\ phase[p] = "held"
    BY <1>2 DEF RegistersParent, Work
  <2>2. StaleEntry(j.item) /\ MainOf[j.item.repo_root] \in Root
    BY <1>1, <2>1 DEF Task, IsEntry, AtEntry
  <2>3. WorkspaceAt(j.item.repo_root, "") \in Resolvable
    BY <2>2, PathsResolve, WorktreesAssumption DEF StaleEntry
  <2> QED
    BY <1>2, <2>3 DEF RegistersParent
<1>3. CASE RegistersSession(p)
  <2>1. j.at = "register" /\ phase[p] = "held"
    BY <1>3 DEF RegistersSession, Work
  <2>2. Belonging(j.item.session) /\ j.item.digest = CurrentDigest
    BY <1>1, <2>1 DEF Task, IsEntry, AtEntry
  <2>3. WorkspaceOf(j.item.session) \in Resolvable
    BY <2>2, SessionsResolve
  <2> QED
    BY <1>3, <2>2, <2>3 DEF RegistersSession
<1>4. CASE AdoptsLive(p)
  <2>1. j.at = "adopt" /\ phase[p] = "held"
    BY <1>4 DEF AdoptsLive, Work
  <2>2. Belonging(j.item.session)
    BY <1>1, <2>1 DEF Task, IsEntry, AtEntry
  <2>3. WorkspaceOf(j.item.session).id \in WorkspaceID
    BY <2>2, SessionsResolve DEF Store!Identity
  <2>4. j.item.session.name \in Name
    BY <2>2 DEF Belonging, SessionRow
  <2> QED
    BY <1>4, <2>3, <2>4 DEF AdoptsLive, Store!Adopt
<1>5. CASE DropsVanished(p)
  <2>1. PICK e \in j.todo :
          /\ j.at = "collapse" /\ phase[p] = "idle" /\ MainOf[e.repo_root] = "gone"
          /\ Store!DropRepository(e.id) \/ UNCHANGED db
    BY <1>5 DEF DropsVanished, Remember
  <2>2. j.loop = "collapse"
    BY <1>1, <2>1 DEF Task
  <2>3. StaleEntry(e)
    BY <1>1, <2>2 DEF Task, IsEntry
  <2> QED
    BY <1>1, <1>5, <2>1, <2>2, <2>3 DEF Standing, Store!KnownRepository
<1>6. CASE DropsLinked(p)
  <2>1. /\ j.at = "drop" /\ phase[p] = "held"
        /\ Store!DropRepository(j.item.id)
    BY <1>6 DEF DropsLinked, Work
  <2>2. /\ StaleEntry(j.item) /\ MainOf[j.item.repo_root] \in Root
        /\ j.loop = "collapse"
    BY <1>1, <2>1 DEF Task, IsEntry, AtEntry
  <2>3. /\ WorkspaceAt(j.item.repo_root, "") \in Resolvable
        /\ WorkspaceAt(j.item.repo_root, "").repo_root = MainOf[j.item.repo_root]
    BY <2>2, PathsResolve, WorktreesAssumption, ZenonT(40) DEF StaleEntry
  <2> QED
    BY <1>1, <1>6, <2>1, <2>2, <2>3 DEF Standing, Store!KnownRepository
<1>7. CASE ~(RegistersParent(p) \/ RegistersSession(p) \/ AdoptsLive(p)
             \/ DropsVanished(p) \/ DropsLinked(p))
  BY <1>7 DEF Rebuilds, Lists, ReadsRepositories, BeginsCollapse, PlansRetags,
     BeginsRetag, TagsRoot, TagsID, ReadsRecords, BeginsApply, ObservesLive, Rereads,
     ItemFails, WaitsForItem, SkipsItem, ReleasesItem, Reports, Exits, Dies, Begins
<1> QED
  BY <1>2, <1>3, <1>4, <1>5, <1>6, <1>7

\* What a step keeps of the store: it is sound, no workspace that resolves loses
\* its row, and the repositories stand.
StoreKept ==
  /\ StoreSound'
  /\ \A v \in Resolvable : Store!Known(v.id) => Store!Known(v.id)'
  /\ RepositoriesStand

\* Transactions keep it so.
LEMMA TransactionsStand ==
  ASSUME StoreSound, Transacts \/ UNCHANGED db
  PROVE  StoreKept
<1>1. /\ StoreSound'
      /\ \A v \in Resolvable : Store!Known(v.id) => Store!Known(v.id)'
  BY TransactionKeeps
<1>2. CASE db'.repositories = db.repositories
  BY <1>1, <1>2 DEF StoreKept, RepositoriesStand, Store!KnownRepository
<1>3. CASE \E ws \in Resolvable, d \in Digest : Store!RegisterWorkspace(ws, d)
  <2>1. PICK ws \in Resolvable, d \in Digest : Store!RegisterWorkspace(ws, d)
    BY <1>3
  <2> QED
    BY <1>1, <2>1, RegistrationPlaces DEF StoreKept, RepositoriesStand
<1> QED
  BY <1>2, <1>3, RepositoriesChange

\* So do rebuilds.
LEMMA RebuildsStand ==
  ASSUME StoreSound, Jobs, Locks!TypeOK, NEW p \in Rebuilder, Rebuilds(p)
  PROVE  StoreKept
<1>1. CASE \E ws \in Resolvable : Store!RegisterWorkspace(ws, CurrentDigest)
  <2>1. Transacts
    BY <1>1, CurrentDigestAssumption DEF Transacts, Notes, Store!Register
  <2> QED
    BY <2>1, TransactionsStand
<1>2. CASE Store!Adopt \/ UNCHANGED db
  BY <1>2, TransactionsStand DEF Transacts
<1>3. ASSUME NEW e, StaleEntry(e), Store!DropRepository(e.id)
      PROVE  StoreKept
  <2>1. e.id \in RepositoryID /\ \A ws \in Resolvable : ws.repository_id # e.id
    BY <1>3 DEF StaleEntry
  <2> QED
    BY <1>3, <2>1, DropKeepsStore
       DEF StoreKept, RepositoriesStand, Store!KnownRepository
<1> QED
  BY <1>1, <1>2, <1>3, RebuildsTransact

\* Only the retags touch tmux: the session they name keeps its number and its
\* name.
LEMMA RebuildsOnTmux ==
  ASSUME TmuxTyped, Jobs, Locks!TypeOK, NEW p \in Rebuilder, Rebuilds(p)
  PROVE  TmuxTyped'
<1> DEFINE j == job[p]
           ws == WorkspaceOf(j.item)
<1>1. Task(j, phase[p], want[p])
  BY DEF Jobs, Tasked
<1>2. ASSUME NEW t \in tmux.sessions, NEW u \in SessionRow, u.sid = t.sid,
             u.name = t.name, Retagged(t, u)
      PROVE  TmuxTyped'
  <2>1. /\ tmux'.sessions = (tmux.sessions \ {t}) \cup {u} /\ tmux'.next = tmux.next
        /\ tmux' = [sessions |-> tmux'.sessions, next |-> tmux'.next]
    BY <1>2 DEF TmuxTyped, Retagged
  <2>2. tmux' \in [sessions : SUBSET SessionRow, next : Nat]
    BY <1>2, <2>1 DEF TmuxTyped
  <2>3. Numbered'
    BY <1>2, <2>1 DEF TmuxTyped, Numbered
  <2> QED
    BY <2>2, <2>3 DEF TmuxTyped
<1>3. ASSUME j.at \in {"tag root", "tag id"}, phase[p] = "held"
      PROVE  /\ ws.id \in WorkspaceID /\ ws.repo_root \in Root
  <2>1. Belonging(j.item)
    BY <1>1, <1>3 DEF Task, IsEntry, AtEntry
  <2> QED
    BY <2>1, SessionsResolve DEF Store!Identity
<1>4. CASE TagsRoot(p)
  <2>1. CASE UNCHANGED tmux
    BY <2>1 DEF TmuxTyped, Numbered
  <2>2. ASSUME NEW t \in tmux.sessions,
               Retagged(t, [t EXCEPT !.keys.place =
                              IF @ = NULL THEN NULL ELSE <<ws.repo_root, @[2]>>])
        PROVE  TmuxTyped'
    <3> DEFINE place == IF t.keys.place = NULL THEN NULL
                        ELSE <<ws.repo_root, t.keys.place[2]>>
               u == [t EXCEPT !.keys.place = place]
    <3>1. ws.repo_root \in Root
      BY <1>3, <1>4 DEF TagsRoot, Work
    <3>2. t \in SessionRow
      BY DEF TmuxTyped
    <3>3. place \in (Root \X Session) \cup {NULL}
      BY <3>1, <3>2 DEF SessionRow
    <3>4. u \in SessionRow /\ u.sid = t.sid /\ u.name = t.name
      <4> HIDE DEF place
      <4> QED
        BY <3>2, <3>3 DEF SessionRow
    <3> QED
      BY <1>2, <2>2, <3>4
  <2> QED
    BY <1>4, <2>1, <2>2 DEF TagsRoot, NamedAs
<1>5. CASE TagsID(p)
  <2>1. CASE UNCHANGED tmux
    BY <2>1 DEF TmuxTyped, Numbered
  <2>2. ASSUME NEW t \in tmux.sessions, Retagged(t, [t EXCEPT !.keys.id = ws.id])
        PROVE  TmuxTyped'
    <3> DEFINE u == [t EXCEPT !.keys.id = ws.id]
    <3>1. ws.id \in WorkspaceID
      BY <1>3, <1>5 DEF TagsID, Work
    <3>2. t \in SessionRow
      BY DEF TmuxTyped
    <3>3. u \in SessionRow /\ u.sid = t.sid /\ u.name = t.name
      <4> HIDE DEF ws
      <4> QED
        BY <3>1, <3>2 DEF SessionRow
    <3> QED
      BY <1>2, <2>2, <3>3
  <2> QED
    BY <1>5, <2>1, <2>2 DEF TagsID, NamedAs
<1>6. CASE ~TagsRoot(p) /\ ~TagsID(p)
  <2>1. UNCHANGED tmux
    BY <1>6 DEF Rebuilds, Lists, ReadsRepositories, DropsVanished, BeginsCollapse,
       RegistersParent, DropsLinked, PlansRetags, BeginsRetag, ReadsRecords,
       BeginsApply, ObservesLive, Rereads, RegistersSession, AdoptsLive, ItemFails,
       WaitsForItem, SkipsItem, ReleasesItem, Reports, Exits, Dies, Begins
  <2> QED
    BY <2>1 DEF TmuxTyped, Numbered
<1> QED
  BY <1>4, <1>5, <1>6

\* A rebuild touches neither the locks nor the memory of another process.
LEMMA RebuildsAlone ==
  ASSUME Jobs, Locks!TypeOK, NEW p \in Rebuilder, Rebuilds(p),
         NEW q \in Process, q # p
  PROVE  UNCHANGED <<phase[q], want[q], job[q]>>
<1>1. /\ phase \in [Process -> Locks!Phase] /\ want \in [Process -> Locks!Footprint]
      /\ DOMAIN job = Process /\ p \in Process
  BY RebuilderAssumption DEF Jobs, Locks!TypeOK
<1>2. CASE CallOfRebuild(p)
  <2>1. UNCHANGED <<phase, want>>
    BY <1>2, RebuildCallsLeaveLocks
  <2>2. job'[q] = job[q]
    BY <1>1, <1>2 DEF CallOfRebuild, Lists, ReadsRepositories, DropsVanished,
       RegistersParent, DropsLinked, PlansRetags, TagsRoot, TagsID, ReadsRecords,
       ObservesLive, Rereads, RegistersSession, AdoptsLive, ItemFails, Reports, Exits,
       Remember, Work
  <2> QED
    BY <2>1, <2>2
<1>3. ASSUME NEW e, NEW i, NEW f, NEW next, Begins(p, e, i, f, next)
      PROVE  UNCHANGED <<phase[q], want[q], job[q]>>
  BY <1>1, <1>3 DEF Begins, Locks!Begin, Locks!Enter
<1>4. CASE BeginsCollapse(p) \/ BeginsRetag(p) \/ BeginsApply(p)
  BY <1>1, <1>3, <1>4
     DEF BeginsCollapse, BeginsRetag, BeginsApply, Remember, lockVars
<1>5. CASE WaitsForItem(p) \/ SkipsItem(p) \/ ReleasesItem(p) \/ Dies(p)
  BY <1>1, <1>5 DEF WaitsForItem, SkipsItem, ReleasesItem, Dies, Resumed, lockVars,
     Locks!TakeRepository, Locks!TakeWorkspace, Locks!TimeOut, Locks!GiveUp,
     Locks!Finish, Locks!UnlockWorkspace, Locks!UnlockRepository, Locks!Crash,
     Locks!Enter
<1> QED
  BY <1>2, <1>4, <1>5 DEF Rebuilds, CallOfRebuild

\* Nor does it touch docker, or what a command remembers.
LEMMA RebuildsLeaveCommands ==
  ASSUME NEW p \in Rebuilder, Rebuilds(p)
  PROVE  UNCHANGED <<docker, cmd, at, snap>>
  BY DEF Rebuilds, Lists, ReadsRepositories, DropsVanished, BeginsCollapse,
     RegistersParent, DropsLinked, PlansRetags, BeginsRetag, TagsRoot, TagsID,
     ReadsRecords, BeginsApply, ObservesLive, Rereads, RegistersSession, AdoptsLive,
     ItemFails, WaitsForItem, SkipsItem, ReleasesItem, Reports, Exits, Dies, Begins,
     Remember, Work, Quietly

\* A rebuild leaves every command with what it needs.
LEMMA RebuildsKeepSound ==
  ASSUME Sound, Jobs, Locks!TypeOK, NEW p \in Rebuilder, Rebuilds(p)
  PROVE  Sound'
<1>1. UNCHANGED <<docker, cmd, at, snap>>
  BY RebuildsLeaveCommands
<1>2. StoreKept
  BY RebuildsStand DEF Sound
<1>3. ASSUME NEW q \in Process PROVE Prepared(q)'
  <2>1. cmd[q] # NULL => q # p
    BY DEF Jobs, Tasked
  <2>2. cmd[q] # NULL => UNCHANGED <<phase[q], want[q]>>
    BY <2>1, RebuildsAlone
  <2> QED
    BY <1>1, <1>2, <2>2, PreparedStays DEF StoreKept
<1>4. TmuxTyped'
  BY RebuildsOnTmux DEF Sound, Types, TmuxTyped
<1> QED
  BY <1>1, <1>2, <1>3, <1>4 DEF Sound, Types, TmuxTyped, StoreKept

\* The fields of what a rebuild remembers after a flaw, or an entry given up.
LEMMA FlawsKept ==
  ASSUME NEW j, DOMAIN j = DOMAIN NoJob, NEW what
  PROVE  /\ DOMAIN Flawed(j, what) = DOMAIN NoJob
         /\ \A x \in DOMAIN NoJob \ {"flaws"} : Flawed(j, what)[x] = j[x]
         /\ Flawed(j, what).flaws = j.flaws \cup {what}
         /\ DOMAIN Over(j) = DOMAIN NoJob
         /\ \A x \in DOMAIN NoJob \ {"at"} : Over(j)[x] = j[x]
         /\ Over(j).at = "release"
BY DEF Flawed, Over, NoJob

\* What a step keeps of the entries of a collapse.
Collapsing(p) ==
  /\ job'[p].loop = "collapse" /\ ~ReadsRepositories(p) =>
       /\ job[p].loop = "collapse" /\ job'[p].todo \subseteq job[p].todo
       /\ phase'[p] # "idle" =>
            job'[p].item \in job[p].todo
              \/ (phase[p] # "idle" /\ job'[p].item = job[p].item)
  /\ job'[p].at = "drop" =>
       /\ job'[p].item = job[p].item
       /\ RegistersParent(p) \/ job[p].at = "drop"

Advanced(p) == Task(job'[p], phase'[p], want'[p]) /\ Collapsing(p)

\* A flaw does not change what comes next.
LEMMA FlawsAdvance ==
  ASSUME NEW j, NEW f, NEW w, Task(j, f, w), NEW what \in {"conflict", "failed"}
  PROVE  /\ Task(Flawed(j, what), f, w)
         /\ \A x \in DOMAIN NoJob \ {"flaws"} : Flawed(j, what)[x] = j[x]
<1>1. /\ DOMAIN Flawed(j, what) = DOMAIN NoJob
      /\ \A x \in DOMAIN NoJob \ {"flaws"} : Flawed(j, what)[x] = j[x]
      /\ Flawed(j, what).flaws = j.flaws \cup {what}
  <2>1. DOMAIN j = DOMAIN NoJob
    BY DEF Task
  <2> QED
    BY <2>1, FlawsKept
<1>2. /\ Flawed(j, what).at = j.at /\ Flawed(j, what).loop = j.loop
      /\ Flawed(j, what).live = j.live /\ Flawed(j, what).todo = j.todo
      /\ Flawed(j, what).item = j.item
  BY <1>1 DEF NoJob
<1>3. IsEntry(Flawed(j, what).loop, Flawed(j, what).item) <=> IsEntry(j.loop, j.item)
  BY <1>2
<1>4. AtEntry(Flawed(j, what), w) <=> AtEntry(j, w)
  BY <1>2 DEF AtEntry
<1> QED
  BY <1>1, <1>2, <1>3, <1>4 DEF Task

\* An entry that is done with waits for the release of its lock.
LEMMA OverAdvances ==
  ASSUME NEW j, NEW f, NEW w, Task(j, f, w), f # "idle"
  PROVE  /\ Task(Over(j), f, w)
         /\ Over(j).at = "release"
         /\ \A x \in DOMAIN NoJob \ {"at"} : Over(j)[x] = j[x]
<1>1. /\ DOMAIN Over(j) = DOMAIN NoJob /\ Over(j).at = "release"
      /\ \A x \in DOMAIN NoJob \ {"at"} : Over(j)[x] = j[x]
  <2>1. DOMAIN j = DOMAIN NoJob
    BY DEF Task
  <2>2. /\ DOMAIN Over(j) = DOMAIN NoJob
        /\ \A x \in DOMAIN NoJob \ {"at"} : Over(j)[x] = j[x]
    BY <2>1, FlawsKept
  <2>3. Over(j).at = "release"
    BY <2>1 DEF Over, NoJob
  <2> QED
    BY <2>2, <2>3
<1>2. /\ Over(j).flaws = j.flaws /\ Over(j).loop = j.loop
      /\ Over(j).live = j.live /\ Over(j).todo = j.todo /\ Over(j).item = j.item
  BY <1>1 DEF NoJob
<1>3. IsEntry(Over(j).loop, Over(j).item) /\ AtEntry(Over(j), w)
  BY <1>1, <1>2 DEF Task, AtEntry
<1> QED
  BY <1>1, <1>2, <1>3 DEF Task

\* The steps a rebuild takes between its entries.
LEMMA ListsAdvance ==
  ASSUME Sound, Jobs, NEW p \in Rebuilder,
         \/ Lists(p) \/ ReadsRepositories(p) \/ DropsVanished(p) \/ PlansRetags(p)
         \/ ReadsRecords(p) \/ Reports(p) \/ Exits(p)
  PROVE  Advanced(p)
<1> DEFINE j == job[p]
<1>1. Task(j, phase[p], want[p]) /\ DOMAIN job = Process /\ p \in Process
  BY RebuilderAssumption DEF Jobs, Tasked
<1>2. DOMAIN j = DOMAIN NoJob
  BY <1>1 DEF Task
<1>3. phase[p] = "idle" /\ phase'[p] = "idle"
  BY DEF Lists, ReadsRepositories, DropsVanished, PlansRetags, ReadsRecords, Reports,
     Exits, Remember, lockVars
<1>4. ASSUME NEW k, Task(k, "idle", want'[p]), k.at # "drop", job'[p] = k,
             k.loop = "collapse" => ReadsRepositories(p)
      PROVE  Advanced(p)
  BY <1>3, <1>4 DEF Advanced, Collapsing
<1>5. CASE Lists(p)
  <2> DEFINE k == [NoJob EXCEPT !.at = "repositories", !.live = Claiming,
                                !.settled = AllSettled, !.keyed = NoRelics(db)]
  <2>1. job'[p] = k
    BY <1>1, <1>5 DEF Lists, Remember
  <2>2. Claiming \subseteq SessionRow
    BY DEF Claiming, Sound, Types
  <2>3. /\ DOMAIN k = DOMAIN NoJob /\ k.at = "repositories" /\ k.loop = "off"
        /\ k.live = Claiming /\ k.todo = {} /\ k.flaws = {}
    BY DEF NoJob
  <2> HIDE DEF k
  <2>4. Task(k, "idle", want'[p])
    BY <2>2, <2>3 DEF Task
  <2> QED
    BY <1>4, <2>1, <2>3, <2>4
<1>6. CASE ReadsRepositories(p)
  <2> DEFINE PathOf(r) == MainOf[db.repositories[r].repo_root]
             stale == {r \in DOMAIN db.repositories :
                         PathOf(r) \notin {db.repositories[r].repo_root, "unresolvable"}}
             list == {[id |-> r, repo_root |-> db.repositories[r].repo_root] :
                        r \in stale}
             start == [j EXCEPT !.loop = "collapse", !.at = "collapse"]
             flaws == IF \E r \in DOMAIN db.repositories : PathOf(r) = "unresolvable"
                      THEN {"conflict"} ELSE {}
  <2>1. j.at = "repositories" /\ j.todo = {} /\ j.live \subseteq SessionRow
        /\ j.flaws \subseteq {"conflict", "failed"}
    BY <1>1, <1>6 DEF ReadsRepositories, Task, IsEntry
  <2>2. ASSUME NEW e \in list PROVE StaleEntry(e)
    <3>1. PICK r \in stale : e = [id |-> r, repo_root |-> db.repositories[r].repo_root]
      OBVIOUS
    <3>2. r \in RepositoryID /\ db.repositories[r].repo_root \in Root
      BY DEF Sound, StoreSound, Store!TypeOK, Store!IsDatabase, Store!IsTable,
         Store!RepositoryRow
    <3>3. MainOf[e.repo_root] \in (Root \ {e.repo_root}) \cup {"gone"}
      BY <3>1, <3>2, MainOfAssumption
    <3>4. ASSUME NEW ws \in Resolvable, ws.repository_id = r PROVE FALSE
      <4>1. db.repositories[r].repo_root = ws.repo_root
        BY <3>4 DEF Sound, StoreSound, Store!IsPlaced
      <4> QED
        BY <4>1, WorktreesAssumption
    <3> QED
      BY <3>1, <3>2, <3>3, <3>4 DEF StaleEntry
  <2> HIDE DEF list, flaws
  <2>3. /\ DOMAIN start = DOMAIN NoJob /\ start.at = "collapse"
        /\ start.loop = "collapse" /\ start.live = j.live /\ start.todo = {}
        /\ start.flaws = j.flaws
    BY <1>2, <2>1 DEF NoJob
  <2>4. Task(start, "idle", want'[p])
    BY <2>1, <2>3 DEF Task
  <2>5. CASE job'[p] = [start EXCEPT !.todo = list, !.flaws = flaws]
    <3> DEFINE k == [start EXCEPT !.todo = list, !.flaws = flaws]
    <3>1. /\ DOMAIN k = DOMAIN NoJob /\ k.at = "collapse" /\ k.loop = "collapse"
          /\ k.live = j.live /\ k.todo = list /\ k.flaws = flaws
      BY <2>3 DEF NoJob
    <3>2. flaws \subseteq {"conflict", "failed"}
      BY DEF flaws
    <3> HIDE DEF k
    <3>3. Task(k, "idle", want'[p])
      BY <2>1, <2>2, <3>1, <3>2 DEF Task, IsEntry
    <3> QED
      BY <1>4, <1>6, <2>5, <3>1, <3>3 DEF k
  <2>6. CASE job'[p] = Flawed(start, "failed")
    <3>1. Task(Flawed(start, "failed"), "idle", want'[p])
          /\ Flawed(start, "failed").at = "collapse"
      BY <2>3, <2>4, FlawsAdvance DEF NoJob
    <3> QED
      BY <1>4, <1>6, <2>6, <3>1
  <2> QED
    BY <1>1, <1>6, <2>5, <2>6 DEF ReadsRepositories, Remember, list, flaws
<1>7. CASE DropsVanished(p)
  <2>1. PICK r \in j.todo :
          /\ j.at = "collapse"
          /\ \/ job'[p] = [j EXCEPT !.todo = @ \ {r}]
             \/ job'[p] = Flawed([j EXCEPT !.todo = @ \ {r}], "failed")
    BY <1>1, <1>7 DEF DropsVanished, Remember
  <2> DEFINE k == [j EXCEPT !.todo = @ \ {r}]
  <2>2. /\ DOMAIN k = DOMAIN NoJob /\ k.todo = j.todo \ {r}
        /\ k.at = "collapse" /\ k.loop = j.loop /\ k.live = j.live
        /\ k.flaws = j.flaws
    BY <1>2, <2>1 DEF NoJob
  <2> HIDE DEF k
  <2>3. j.loop = "collapse" /\ Task(k, "idle", want'[p])
    BY <1>1, <1>3, <2>1, <2>2 DEF Task
  <2>4. /\ Task(Flawed(k, "failed"), "idle", want'[p])
        /\ Flawed(k, "failed").todo = k.todo /\ Flawed(k, "failed").at = k.at
    BY <2>3, FlawsAdvance DEF NoJob
  <2>5. /\ Task(job'[p], "idle", want'[p])
        /\ job'[p].todo \subseteq j.todo /\ job'[p].at = "collapse"
    BY <2>1, <2>2, <2>3, <2>4 DEF k
  <2> QED
    BY <1>3, <2>3, <2>5 DEF Advanced, Collapsing
<1>8. CASE PlansRetags(p)
  <2> DEFINE k == [j EXCEPT !.loop = "retag", !.at = "retag", !.todo = ToRetag(j.live)]
  <2>1. job'[p] = k \/ job'[p] = Flawed(k, "conflict")
    BY <1>1, <1>8 DEF PlansRetags, Remember
  <2>2. /\ DOMAIN k = DOMAIN NoJob /\ k.todo = ToRetag(j.live)
        /\ k.at = "retag" /\ k.loop = "retag" /\ k.live = j.live /\ k.flaws = j.flaws
    BY <1>2 DEF NoJob
  <2> HIDE DEF k
  <2>3. \A s \in ToRetag(j.live) : Belonging(s)
    BY <1>1 DEF Task, ToRetag, Belonging
  <2>4. Task(k, "idle", want'[p])
    BY <1>1, <2>2, <2>3 DEF Task, IsEntry
  <2>5. /\ Task(Flawed(k, "conflict"), "idle", want'[p])
        /\ Flawed(k, "conflict").loop = k.loop /\ Flawed(k, "conflict").at = k.at
    BY <2>4, FlawsAdvance DEF NoJob
  <2> QED
    BY <1>4, <2>1, <2>2, <2>4, <2>5
<1>9. CASE ReadsRecords(p)
  <2> DEFINE Case(s) == CaseOf(s, j.live, db)
             candidates == {s \in j.live : Case(s) \in Candidate}
             sound == {s \in candidates :
                         Resolves(s) /\ Plan!SessionBelongsTo(s, WorkspaceOf(s))}
             list == {[session |-> s, case |-> Case(s)] : s \in sound}
             k == [j EXCEPT !.loop = "apply", !.at = "apply", !.todo = list]
             l == [j EXCEPT !.at = "done"]
  <2>1. /\ j.at = "retag" /\ j.todo = {}
        /\ \/ job'[p] = k \/ job'[p] = Flawed(k, "conflict")
           \/ job'[p] = Flawed(l, "failed")
    BY <1>1, <1>9 DEF ReadsRecords, Remember
  <2>2. ASSUME NEW e \in list
        PROVE  e.case \in Candidate /\ Belonging(e.session)
    <3>1. PICK s \in sound : e = [session |-> s, case |-> Case(s)]
      OBVIOUS
    <3>2. s \in j.live /\ Case(s) \in Candidate /\ Resolves(s)
      OBVIOUS
    <3> HIDE DEF Case
    <3>3. e.case \in Candidate /\ e.session = s
      BY <3>1, <3>2
    <3> QED
      BY <1>1, <3>2, <3>3 DEF Task, Belonging
  <2> HIDE DEF list
  <2>3. /\ DOMAIN k = DOMAIN NoJob /\ k.todo = list
        /\ k.at = "apply" /\ k.loop = "apply" /\ k.live = j.live /\ k.flaws = j.flaws
        /\ DOMAIN l = DOMAIN NoJob /\ l.todo = {}
        /\ l.at = "done" /\ l.loop = j.loop /\ l.live = j.live /\ l.flaws = j.flaws
    BY <1>2, <2>1 DEF NoJob
  <2> HIDE DEF k, l
  <2>4. Task(k, "idle", want'[p])
    BY <1>1, <2>2, <2>3 DEF Task, IsEntry
  <2>5. j.loop = "retag"
    BY <1>1, <1>3, <2>1 DEF Task
  <2>6. Task(l, "idle", want'[p])
    BY <1>1, <2>3 DEF Task
  <2>7. /\ Task(Flawed(k, "conflict"), "idle", want'[p])
        /\ Task(Flawed(l, "failed"), "idle", want'[p])
        /\ Flawed(k, "conflict").loop = k.loop /\ Flawed(k, "conflict").at = k.at
        /\ Flawed(l, "failed").loop = l.loop /\ Flawed(l, "failed").at = l.at
    BY <2>4, <2>6, FlawsAdvance DEF NoJob
  <2> QED
    BY <1>4, <2>1, <2>3, <2>4, <2>5, <2>7
<1>10. CASE Reports(p)
  <2> DEFINE k == [j EXCEPT !.at = "done"]
  <2>1. job'[p] = k /\ j.at = "apply"
    BY <1>1, <1>10 DEF Reports, Remember
  <2>2. /\ DOMAIN k = DOMAIN NoJob /\ k.todo = j.todo
        /\ k.at = "done" /\ k.loop = j.loop /\ k.live = j.live /\ k.flaws = j.flaws
    BY <1>2 DEF NoJob
  <2> HIDE DEF k
  <2>3. j.loop = "apply"
    BY <1>1, <1>3, <2>1 DEF Task
  <2>4. Task(k, "idle", want'[p])
    BY <1>1, <2>2, <2>3 DEF Task
  <2> QED
    BY <1>4, <2>1, <2>2, <2>3, <2>4
<1>11. CASE Exits(p)
  <2>1. job'[p] = NoJob
    BY <1>1, <1>11 DEF Exits, Remember
  <2>2. Task(NoJob, "idle", want'[p]) /\ NoJob.at = "off" /\ NoJob.loop = "off"
    BY DEF Task, NoJob
  <2> QED
    BY <1>4, <2>1, <2>2
<1> QED
  BY <1>5, <1>6, <1>7, <1>8, <1>9, <1>10, <1>11

\* Each entry asks for the lock of what it writes.
LEMMA EntriesBegin ==
  ASSUME Jobs, Locks!TypeOK, NEW p \in Rebuilder,
         BeginsCollapse(p) \/ BeginsRetag(p) \/ BeginsApply(p)
  PROVE  Advanced(p)
<1> DEFINE j == job[p]
<1>1. Task(j, phase[p], want[p]) /\ DOMAIN job = Process /\ p \in Process
  BY RebuilderAssumption DEF Jobs, Tasked
<1>2. DOMAIN j = DOMAIN NoJob
  BY <1>1 DEF Task
<1>3. /\ phase \in [Process -> Locks!Phase] /\ want \in [Process -> Locks!Footprint]
  BY DEF Locks!TypeOK
<1>4. ASSUME NEW e, NEW item, NEW footprint, NEW next,
             Begins(p, e, item, footprint, next)
      PROVE  /\ phase[p] = "idle" /\ phase'[p] # "idle" /\ want'[p] = footprint
             /\ job'[p] = [j EXCEPT !.at = next, !.item = item, !.todo = @ \ {e}]
             /\ DOMAIN job'[p] = DOMAIN NoJob /\ job'[p].at = next
             /\ job'[p].item = item /\ job'[p].todo = j.todo \ {e}
             /\ job'[p].loop = j.loop /\ job'[p].live = j.live
             /\ job'[p].flaws = j.flaws
  <2>1. phase[p] = "idle" /\ phase'[p] # "idle" /\ want'[p] = footprint
    BY <1>1, <1>3, <1>4 DEF Begins, Locks!Begin, Locks!Enter
  <2>2. job' = [job EXCEPT ![p].at = next, ![p].item = item, ![p].todo = @ \ {e}]
    BY <1>4 DEF Begins
  <2>3. job'[p] = [j EXCEPT !.at = next, !.item = item, !.todo = @ \ {e}]
    BY <1>1, <2>2
  <2> QED
    BY <1>2, <2>1, <2>3 DEF NoJob
<1>5. CASE BeginsCollapse(p)
  <2>1. PICK r \in j.todo :
          /\ j.at = "collapse" /\ MainOf[r.repo_root] \in Root
          /\ \/ Begins(p, r, r, OfRepository(WorkspaceAt(r.repo_root, "")),
                       "register parent")
             \/ Remember(p, Flawed([j EXCEPT !.todo = @ \ {r}], "failed"))
                /\ UNCHANGED lockVars
    BY <1>5 DEF BeginsCollapse
  <2>2. CASE Begins(p, r, r, OfRepository(WorkspaceAt(r.repo_root, "")),
                    "register parent")
    <3>1. j.loop = "collapse" /\ StaleEntry(r)
      BY <1>1, <1>4, <2>1, <2>2 DEF Task, IsEntry
    <3>2. /\ phase'[p] # "idle"
          /\ want'[p] = OfRepository(WorkspaceAt(r.repo_root, ""))
          /\ DOMAIN job'[p] = DOMAIN NoJob /\ job'[p].at = "register parent"
          /\ job'[p].item = r /\ job'[p].todo = j.todo \ {r}
          /\ job'[p].loop = j.loop /\ job'[p].live = j.live
          /\ job'[p].flaws = j.flaws
      BY <1>4, <2>2
    <3>3. AtEntry(job'[p], want'[p]) /\ IsEntry(job'[p].loop, job'[p].item)
      BY <2>1, <3>1, <3>2 DEF AtEntry, IsEntry
    <3>4. Task(job'[p], phase'[p], want'[p])
      BY <1>1, <3>1, <3>2, <3>3 DEF Task
    <3> QED
      BY <2>1, <3>1, <3>2, <3>4 DEF Advanced, Collapsing
  <2>3. CASE /\ Remember(p, Flawed([j EXCEPT !.todo = @ \ {r}], "failed"))
             /\ UNCHANGED lockVars
    <3> DEFINE k == [j EXCEPT !.todo = @ \ {r}]
    <3>1. /\ DOMAIN k = DOMAIN NoJob /\ k.todo = j.todo \ {r}
          /\ k.at = "collapse" /\ k.loop = j.loop /\ k.live = j.live
          /\ k.flaws = j.flaws
      BY <1>2, <2>1 DEF NoJob
    <3>2. /\ job'[p] = Flawed(k, "failed") /\ phase[p] = "idle" /\ phase'[p] = "idle"
      BY <1>1, <2>3 DEF Remember, lockVars
    <3> HIDE DEF k
    <3>3. j.loop = "collapse" /\ Task(k, "idle", want'[p])
      BY <1>1, <2>1, <3>1, <3>2 DEF Task
    <3>4. /\ Task(Flawed(k, "failed"), "idle", want'[p])
          /\ Flawed(k, "failed").todo = k.todo /\ Flawed(k, "failed").at = k.at
      BY <3>3, FlawsAdvance DEF NoJob
    <3> QED
      BY <3>1, <3>2, <3>3, <3>4 DEF Advanced, Collapsing
  <2> QED
    BY <2>1, <2>2, <2>3
<1>6. CASE BeginsRetag(p)
  <2>1. PICK s \in j.todo :
          /\ j.at = "retag"
          /\ Begins(p, s, s, OfWorkspace(WorkspaceOf(s)), "tag root")
    BY <1>6 DEF BeginsRetag
  <2>2. j.loop = "retag" /\ Belonging(s)
    BY <1>1, <1>4, <2>1 DEF Task, IsEntry
  <2>3. /\ phase'[p] # "idle" /\ want'[p] = OfWorkspace(WorkspaceOf(s))
        /\ DOMAIN job'[p] = DOMAIN NoJob /\ job'[p].at = "tag root"
        /\ job'[p].item = s /\ job'[p].todo = j.todo \ {s}
        /\ job'[p].loop = j.loop /\ job'[p].live = j.live
        /\ job'[p].flaws = j.flaws
    BY <1>4, <2>1
  <2>4. AtEntry(job'[p], want'[p]) /\ IsEntry(job'[p].loop, job'[p].item)
    BY <2>2, <2>3 DEF AtEntry, IsEntry
  <2>5. Task(job'[p], phase'[p], want'[p])
    BY <1>1, <2>2, <2>3, <2>4 DEF Task
  <2> QED
    BY <2>2, <2>3, <2>5 DEF Advanced, Collapsing
<1>7. CASE BeginsApply(p)
  <2>1. PICK c \in j.todo, digest \in {CurrentDigest, NULL} :
          /\ j.at = "apply"
          /\ Begins(p, c, [session |-> c.session, case |-> c.case, digest |-> digest],
                    OfWorkspace(WorkspaceOf(c.session)), "observe")
    BY <1>7 DEF BeginsApply
  <2> DEFINE item == [session |-> c.session, case |-> c.case, digest |-> digest]
  <2>2. j.loop = "apply" /\ c.case \in Candidate /\ Belonging(c.session)
    BY <1>1, <1>4, <2>1 DEF Task, IsEntry
  <2>3. /\ item.session = c.session /\ item.case = c.case
        /\ DOMAIN item = {"session", "case", "digest"}
    OBVIOUS
  <2> HIDE DEF item
  <2>4. /\ phase'[p] # "idle" /\ want'[p] = OfWorkspace(WorkspaceOf(c.session))
        /\ DOMAIN job'[p] = DOMAIN NoJob /\ job'[p].at = "observe"
        /\ job'[p].item = item /\ job'[p].todo = j.todo \ {c}
        /\ job'[p].loop = j.loop /\ job'[p].live = j.live
        /\ job'[p].flaws = j.flaws
    BY <1>4, <2>1 DEF item
  <2>5. AtEntry(job'[p], want'[p]) /\ IsEntry(job'[p].loop, job'[p].item)
    BY <2>2, <2>3, <2>4 DEF AtEntry, IsEntry
  <2>6. Task(job'[p], phase'[p], want'[p])
    BY <1>1, <2>2, <2>4, <2>5 DEF Task
  <2> QED
    BY <2>2, <2>4, <2>6 DEF Advanced, Collapsing
<1> QED
  BY <1>5, <1>6, <1>7

\* A second look leads to what the row's present state asks for: a session is
\* registered where it has no row, and named where its row has no name.
LEMMA RereadsTo ==
  ASSUME Sound, Jobs, NEW p \in Rebuilder, Rereads(p)
  PROVE  LET j == job[p]
             item == j.item
             id == item.session.keys.id
         IN \/ \E what \in {"conflict", "failed"} : job'[p] = Flawed(Over(j), what)
            \/ job'[p] = Over(j)
            \/ /\ job'[p] = [j EXCEPT !.at = "register", !.item.digest = CurrentDigest]
               /\ ~Store!Known(id)
            \/ /\ job'[p] = [j EXCEPT !.at = "adopt"]
               /\ Store!Known(id) => db.workspaces[id].actual_session = NULL
<1> DEFINE j == job[p]
           item == j.item
           id == item.session.keys.id
           rows == Store!Without(db.workspaces, DOMAIN db.workspaces \ {id})
           alone == [db EXCEPT !.workspaces = rows]
           case == CaseOf(item.session, {item.session}, alone)
           undigested == item.case = "register" /\ item.digest = NULL
           next == CASE case = "register" /\ undigested -> Flawed(Over(j), "failed")
                     [] case = "register" /\ ~undigested ->
                          [j EXCEPT !.at = "register", !.item.digest = CurrentDigest]
                     [] case = "adopt" -> [j EXCEPT !.at = "adopt"]
                     [] case \notin Candidate ->
                          IF IsRecorded(item.session) THEN Over(j)
                          ELSE Flawed(Over(j), "conflict")
<1>1. p \in Process /\ DOMAIN job = Process
  BY RebuilderAssumption DEF Jobs
<1>2. job'[p] = next
  BY <1>1 DEF Rereads, Work
<1>3. "workspaces" \in DOMAIN db
  BY DEF Sound, StoreSound, Store!TypeOK, Store!IsDatabase
<1>4. /\ DOMAIN rows = DOMAIN db.workspaces \cap {id}
      /\ \A w \in DOMAIN rows : rows[w] = db.workspaces[w]
  BY DEF Store!Without
<1> HIDE DEF rows
<1>5. alone.workspaces = rows
  BY <1>3
<1> HIDE DEF alone
<1>6. case = "register" => ~Store!Known(id)
  BY <1>4, <1>5 DEF CaseOf, Store!Known
<1>7. case = "adopt" => (Store!Known(id) => db.workspaces[id].actual_session = NULL)
  BY <1>4, <1>5 DEF CaseOf, Store!Known
<1> HIDE DEF case, undigested
<1> QED
  BY <1>2, <1>6, <1>7 DEF Candidate

\* Each call under the lock leads to the next, or to the release.
LEMMA WorkAdvances ==
  ASSUME Sound, Jobs, Locks!TypeOK, NEW p \in Rebuilder,
         \/ RegistersParent(p) \/ DropsLinked(p) \/ TagsRoot(p) \/ TagsID(p)
         \/ ObservesLive(p) \/ Rereads(p) \/ RegistersSession(p) \/ AdoptsLive(p)
         \/ ItemFails(p)
  PROVE  Advanced(p)
<1> DEFINE j == job[p]
           w == want[p]
<1>1. Task(j, phase[p], w) /\ DOMAIN job = Process /\ p \in Process
  BY RebuilderAssumption DEF Jobs, Tasked
<1>2. DOMAIN j = DOMAIN NoJob
  BY <1>1 DEF Task
<1>3. phase[p] = "held" /\ phase'[p] = "held" /\ want'[p] = w
  BY DEF RegistersParent, DropsLinked, TagsRoot, TagsID, ObservesLive, Rereads,
     RegistersSession, AdoptsLive, ItemFails, Work, lockVars
<1>4. Task(j, "held", w) /\ IsEntry(j.loop, j.item) /\ AtEntry(j, w)
  BY <1>1, <1>3 DEF Task
<1>5. ASSUME NEW here, NEW k, Work(p, here, k)
      PROVE  job'[p] = k /\ j.at = here
  BY <1>1, <1>5 DEF Work
<1> HIDE DEF w
<1>6. ASSUME Task(job'[p], "held", w), job'[p].at # "drop",
             job'[p].item = j.item \/ job'[p].loop # "collapse",
             job'[p].loop = j.loop, job'[p].todo = j.todo
      PROVE  Advanced(p)
  <2>1. ~ReadsRepositories(p)
    BY <1>3 DEF ReadsRepositories, Remember
  <2> QED
    BY <1>3, <1>6, <2>1 DEF Advanced, Collapsing
<1>7. ASSUME job'[p] = Over(j) PROVE Advanced(p)
  <2>1. /\ Task(Over(j), "held", w) /\ Over(j).at = "release"
        /\ Over(j).item = j.item /\ Over(j).loop = j.loop /\ Over(j).todo = j.todo
    BY <1>4, OverAdvances DEF NoJob
  <2> QED
    BY <1>6, <1>7, <2>1
<1>8. ASSUME NEW what \in {"conflict", "failed"}, job'[p] = Flawed(Over(j), what)
      PROVE  Advanced(p)
  <2> DEFINE k == Over(j)
  <2>1. /\ Task(k, "held", w) /\ k.at = "release"
        /\ k.item = j.item /\ k.loop = j.loop /\ k.todo = j.todo
    BY <1>4, OverAdvances DEF NoJob
  <2> HIDE DEF k
  <2>2. /\ Task(Flawed(k, what), "held", w) /\ Flawed(k, what).at = k.at
        /\ Flawed(k, what).item = k.item /\ Flawed(k, what).loop = k.loop
        /\ Flawed(k, what).todo = k.todo
    BY <2>1, FlawsAdvance DEF NoJob
  <2> QED
    BY <1>6, <1>8, <2>1, <2>2 DEF k
<1>9. ASSUME NEW next, job'[p] = [j EXCEPT !.at = next]
      PROVE  /\ DOMAIN job'[p] = DOMAIN NoJob /\ job'[p].at = next
             /\ job'[p].item = j.item /\ job'[p].loop = j.loop
             /\ job'[p].todo = j.todo /\ job'[p].live = j.live
             /\ job'[p].flaws = j.flaws
  BY <1>2, <1>9 DEF NoJob
<1>10. CASE RegistersParent(p)
  <2>1. job'[p] = [j EXCEPT !.at = "drop"] /\ j.at = "register parent"
    BY <1>5, <1>10 DEF RegistersParent
  <2>2. j.loop = "collapse"
    BY <1>4, <2>1 DEF AtEntry
  <2>3. AtEntry(job'[p], w) /\ IsEntry(job'[p].loop, job'[p].item)
    BY <1>4, <1>9, <2>1, <2>2 DEF AtEntry
  <2>4. Task(job'[p], "held", w)
    BY <1>4, <1>9, <2>1, <2>2, <2>3, ZenonT(40) DEF Task
  <2> QED
    BY <1>3, <1>9, <1>10, <2>1, <2>2, <2>4 DEF Advanced, Collapsing
<1>11. CASE DropsLinked(p)
  BY <1>5, <1>7, <1>11 DEF DropsLinked
<1>12. CASE TagsRoot(p)
  <2>1. /\ j.at = "tag root"
        /\ \/ job'[p] = Flawed(Over(j), "failed")
           \/ job'[p] = [j EXCEPT !.at = "tag id"]
    BY <1>5, <1>12 DEF TagsRoot
  <2>2. CASE job'[p] = [j EXCEPT !.at = "tag id"]
    <3>1. j.loop = "retag"
      BY <1>4, <2>1 DEF AtEntry
    <3>2. AtEntry(job'[p], w) /\ IsEntry(job'[p].loop, job'[p].item)
      BY <1>4, <1>9, <2>2, <3>1 DEF AtEntry
    <3>3. Task(job'[p], "held", w)
      BY <1>4, <1>9, <2>2, <3>1, <3>2, ZenonT(40) DEF Task
    <3> QED
      BY <1>6, <1>9, <2>2, <3>3
  <2> QED
    BY <1>8, <2>1, <2>2
<1>13. CASE TagsID(p)
  <2> DEFINE corrected == [j.item EXCEPT !.keys = Plan!KeysOf(WorkspaceOf(j.item))]
             k == [Over(j) EXCEPT !.live = (@ \ {j.item}) \cup {corrected}]
             l == Over(j)
  <2>1. j.at = "tag id" /\ (job'[p] = Flawed(Over(j), "failed") \/ job'[p] = k)
    BY <1>5, <1>13 DEF TagsID
  <2>2. CASE job'[p] = k
    <3>1. Belonging(j.item)
      BY <1>4, <2>1 DEF AtEntry, IsEntry
    <3>2. /\ WorkspaceOf(j.item).id \in WorkspaceID
          /\ WorkspaceOf(j.item).repo_root \in Root
          /\ WorkspaceOf(j.item).session \in Session
      BY <3>1, SessionsResolve DEF Store!Identity
    <3>3. Plan!KeysOf(WorkspaceOf(j.item))
            \in [id : WorkspaceID \cup {NULL}, place : (Root \X Session) \cup {NULL}]
      BY <3>2 DEF Plan!KeysOf
    <3>4. corrected \in SessionRow
      BY <3>1, <3>3 DEF Belonging, SessionRow
    <3> HIDE DEF corrected
    <3>5. /\ Task(l, "held", w) /\ l.at = "release"
          /\ l.item = j.item /\ l.loop = j.loop /\ l.todo = j.todo
      BY <1>4, OverAdvances DEF NoJob
    <3> HIDE DEF l
    <3>6. DOMAIN l = DOMAIN NoJob /\ k = [l EXCEPT !.live = (@ \ {j.item}) \cup {corrected}]
      BY <3>5 DEF Task, l
    <3> HIDE DEF k
    <3>7. /\ DOMAIN k = DOMAIN NoJob /\ k.at = l.at /\ k.item = l.item
          /\ k.loop = l.loop /\ k.todo = l.todo /\ k.flaws = l.flaws
          /\ k.live = (l.live \ {j.item}) \cup {corrected}
      BY <3>6 DEF NoJob
    <3>8. AtEntry(k, w) <=> AtEntry(l, w)
      BY <3>7 DEF AtEntry
    <3>9. Task(k, "held", w)
      BY <3>4, <3>5, <3>7, <3>8 DEF Task
    <3> QED
      BY <1>6, <2>2, <3>5, <3>7, <3>9
  <2> HIDE DEF k
  <2> QED
    BY <1>8, <2>1, <2>2
<1>14. CASE ObservesLive(p)
  <2> DEFINE ws == WorkspaceOf(j.item.session)
             view == TmuxView(ws.id, {j.item.session.name})
             k == [j EXCEPT !.at = "reread", !.item.session = view.live]
  <2>1. /\ j.at = "observe"
        /\ \/ job'[p] = Flawed(Over(j), "conflict")
           \/ /\ job'[p] = k /\ view.live # NULL
              /\ Plan!SessionBelongsTo(view.live, ws)
    BY <1>5, <1>14 DEF ObservesLive
  <2>2. CASE job'[p] = k /\ view.live # NULL /\ Plan!SessionBelongsTo(view.live, ws)
    <3>1. /\ j.loop = "apply" /\ j.item.case \in Candidate /\ Belonging(j.item.session)
          /\ w = OfWorkspace(ws)
      BY <1>4, <2>1 DEF AtEntry, IsEntry
    <3>2. view.live \in SessionRow
      BY <2>2, Views DEF Sound
    <3>3. Belonging(view.live) /\ WorkspaceOf(view.live) = ws
      BY <2>2, <3>1, <3>2, KeysResolve
    <3> HIDE DEF view
    <3>4. PICK item : item = [j.item EXCEPT !.session = view.live]
      OBVIOUS
    <3>5. k = [j EXCEPT !.at = "reread", !.item = item]
      BY <3>4
    <3> HIDE DEF k
    <3>6. /\ DOMAIN k = DOMAIN NoJob /\ k.at = "reread" /\ k.item = item
          /\ k.loop = j.loop /\ k.todo = j.todo /\ k.flaws = j.flaws /\ k.live = j.live
      BY <1>2, <3>5 DEF NoJob
    <3>7. /\ DOMAIN j.item = {"session", "case", "digest"}
      BY <1>4, <2>1 DEF AtEntry
    <3>8. /\ DOMAIN item = {"session", "case", "digest"}
          /\ item.session = view.live /\ item.case = j.item.case
      BY <3>4, <3>7
    <3>9. Task(k, "held", w)
      <4>1. IsEntry(k.loop, k.item)
        BY <3>1, <3>3, <3>6, <3>8 DEF IsEntry
      <4>2. AtEntry(k, w)
        BY <3>1, <3>3, <3>6, <3>8 DEF AtEntry
      <4>3. Plan!SessionBelongsTo(item.session, WorkspaceOf(item.session))
        BY <2>2, <3>3, <3>8
      <4> QED
        BY <1>4, <3>1, <3>6, <4>1, <4>2, <4>3 DEF Task
    <3> QED
      BY <1>6, <2>2, <3>1, <3>6, <3>9
  <2> HIDE DEF k
  <2> QED
    BY <1>8, <2>1, <2>2
<1>15. CASE Rereads(p)
  <2> DEFINE k == [j EXCEPT !.at = "register", !.item.digest = CurrentDigest]
  <2>1. j.at = "reread"
    BY <1>5, <1>15 DEF Rereads
  <2>2. \/ \E what \in {"conflict", "failed"} : job'[p] = Flawed(Over(j), what)
        \/ job'[p] = Over(j)
        \/ job'[p] = k
        \/ job'[p] = [j EXCEPT !.at = "adopt"]
    BY <1>15, RereadsTo DEF Jobs, Tasked
  <2>3. /\ j.loop = "apply" /\ j.item.case \in Candidate /\ Belonging(j.item.session)
        /\ w = OfWorkspace(WorkspaceOf(j.item.session))
        /\ DOMAIN j.item = {"session", "case", "digest"}
        /\ Plan!SessionBelongsTo(j.item.session, WorkspaceOf(j.item.session))
    BY <1>4, <2>1 DEF AtEntry, IsEntry, Task
  <2>4. CASE job'[p] = k
    <3>1. PICK item : item = [j.item EXCEPT !.digest = CurrentDigest]
      OBVIOUS
    <3>2. /\ DOMAIN item = {"session", "case", "digest"} /\ item.digest = CurrentDigest
          /\ item.session = j.item.session /\ item.case = j.item.case
      BY <2>3, <3>1
    <3>3. k = [j EXCEPT !.at = "register", !.item = item]
      BY <3>1
    <3> HIDE DEF k
    <3>4. /\ DOMAIN k = DOMAIN NoJob /\ k.at = "register" /\ k.item = item
          /\ k.loop = j.loop /\ k.todo = j.todo /\ k.flaws = j.flaws /\ k.live = j.live
      BY <1>2, <3>3 DEF NoJob
    <3>5. IsEntry(k.loop, k.item) /\ AtEntry(k, w)
      BY <2>3, <3>2, <3>4 DEF IsEntry, AtEntry
    <3>6. Task(k, "held", w)
      BY <1>4, <2>3, <3>2, <3>4, <3>5 DEF Task
    <3> QED
      BY <1>6, <2>3, <2>4, <3>4, <3>6
  <2>5. CASE job'[p] = [j EXCEPT !.at = "adopt"]
    <3>1. AtEntry(job'[p], w) /\ IsEntry(job'[p].loop, job'[p].item)
      BY <1>4, <1>9, <2>3, <2>5 DEF AtEntry
    <3>2. Task(job'[p], "held", w)
      BY <1>4, <1>9, <2>3, <2>5, <3>1 DEF Task
    <3> QED
      BY <1>6, <1>9, <2>5, <3>2
  <2> HIDE DEF k
  <2> QED
    BY <1>7, <1>8, <2>2, <2>4, <2>5
<1>16. CASE RegistersSession(p)
  <2>1. job'[p] = [j EXCEPT !.at = "adopt"] /\ j.at = "register"
    BY <1>5, <1>16 DEF RegistersSession
  <2>2. /\ j.loop = "apply"
        /\ Plan!SessionBelongsTo(j.item.session, WorkspaceOf(j.item.session))
    BY <1>4, <2>1 DEF AtEntry, Task
  <2>3. AtEntry(job'[p], w) /\ IsEntry(job'[p].loop, job'[p].item)
    BY <1>4, <1>9, <2>1, <2>2 DEF AtEntry
  <2>4. Task(job'[p], "held", w)
    BY <1>4, <1>9, <2>1, <2>2, <2>3 DEF Task
  <2> QED
    BY <1>6, <1>9, <2>1, <2>4
<1>17. CASE AdoptsLive(p)
  BY <1>5, <1>7, <1>8, <1>17 DEF AdoptsLive
<1>18. CASE ItemFails(p)
  BY <1>5, <1>8, <1>18 DEF ItemFails
<1> QED
  BY <1>10, <1>11, <1>12, <1>13, <1>14, <1>15, <1>16, <1>17, <1>18

\* Waiting for a lock and giving it back advance no entry but to its end.
LEMMA LocksAdvance ==
  ASSUME Jobs, Locks!TypeOK, NEW p \in Rebuilder,
         WaitsForItem(p) \/ SkipsItem(p) \/ ReleasesItem(p) \/ Dies(p)
  PROVE  Advanced(p)
<1> DEFINE j == job[p]
           Back(k) == [k EXCEPT !.at = k.loop, !.item = NULL]
<1>1. Task(j, phase[p], want[p]) /\ DOMAIN job = Process /\ p \in Process
  BY RebuilderAssumption DEF Jobs, Tasked
<1>2. /\ phase \in [Process -> Locks!Phase] /\ want \in [Process -> Locks!Footprint]
  BY DEF Locks!TypeOK
<1>3. ~ReadsRepositories(p) \/ phase[p] = "idle"
  BY DEF ReadsRepositories, Remember
<1>4. ASSUME phase[p] # "idle", NEW k, Task(k, phase[p], want[p]), k.loop = j.loop,
             k.todo = j.todo, k.item = j.item,
             \/ phase'[p] = "idle" /\ job'[p] = Back(k)
             \/ /\ phase'[p] # "idle" /\ want'[p] = want[p] /\ job'[p] = k
                /\ phase[p] # "held" \/ k.at = "release"
      PROVE  Advanced(p)
  <2>1. CASE phase'[p] = "idle" /\ job'[p] = Back(k)
    <3>1. DOMAIN k = DOMAIN NoJob
      BY <1>4 DEF Task
    <3>2. /\ DOMAIN job'[p] = DOMAIN NoJob /\ job'[p].at = k.loop
          /\ job'[p].loop = k.loop /\ job'[p].todo = k.todo /\ job'[p].live = k.live
          /\ job'[p].flaws = k.flaws
      BY <2>1, <3>1 DEF NoJob
    <3>3. Task(job'[p], "idle", want'[p])
      BY <1>4, <3>2 DEF Task
    <3>4. job'[p].at # "drop"
      BY <1>4, <3>2 DEF Task
    <3> QED
      BY <1>4, <2>1, <3>2, <3>3, <3>4 DEF Advanced, Collapsing
  <2>2. CASE /\ phase'[p] # "idle" /\ want'[p] = want[p] /\ job'[p] = k
             /\ phase[p] # "held" \/ k.at = "release"
    <3>1. k.at \notin {"drop", "tag id", "reread", "register", "adopt"}
      BY <1>4, <2>2 DEF Task
    <3>2. Task(k, phase'[p], want'[p])
      BY <1>4, <2>2, <3>1 DEF Task
    <3> QED
      BY <1>4, <2>2, <3>1, <3>2 DEF Advanced, Collapsing
  <2> QED
    BY <1>4, <2>1, <2>2
<1>5. CASE WaitsForItem(p)
  <2>1. /\ phase[p] \in {"repository", "workspace"} /\ phase'[p] # "idle"
        /\ want'[p] = want[p] /\ job'[p] = j
    BY <1>1, <1>2, <1>5 DEF WaitsForItem, Locks!TakeRepository, Locks!TakeWorkspace,
       Locks!Enter
  <2> QED
    BY <1>1, <1>4, <2>1
<1>6. CASE SkipsItem(p)
  <2> DEFINE k == Flawed(Over(j), "failed")
  <2>1. /\ phase[p] \in {"repository", "workspace"}
        /\ phase'[p] # "idle" => want'[p] = want[p]
    BY <1>1, <1>2, <1>6 DEF SkipsItem, Locks!TimeOut, Locks!GiveUp, Locks!Enter
  <2>2. job'[p] = IF phase'[p] = "idle" THEN Back(k) ELSE k
    BY <1>1, <1>6 DEF SkipsItem, Resumed
  <2>3. /\ Task(Over(j), phase[p], want[p]) /\ Over(j).at = "release"
        /\ Over(j).item = j.item /\ Over(j).loop = j.loop /\ Over(j).todo = j.todo
    BY <1>1, <2>1, OverAdvances DEF NoJob
  <2>4. /\ Task(k, phase[p], want[p]) /\ k.at = "release"
        /\ k.item = j.item /\ k.loop = j.loop /\ k.todo = j.todo
    BY <2>3, FlawsAdvance DEF NoJob
  <2> HIDE DEF k, Back
  <2> QED
    BY <1>4, <2>1, <2>2, <2>4
<1>7. CASE ReleasesItem(p)
  <2>1. /\ phase[p] # "idle"
        /\ phase'[p] # "idle" => want'[p] = want[p]
        /\ phase[p] # "held" \/ j.at = "release"
    BY <1>1, <1>2, <1>7 DEF ReleasesItem, Locks!Finish, Locks!UnlockWorkspace,
       Locks!UnlockRepository, Locks!Enter
  <2>2. job'[p] = IF phase'[p] = "idle" THEN Back(j) ELSE j
    BY <1>1, <1>7 DEF ReleasesItem, Resumed
  <2> HIDE DEF Back
  <2> QED
    BY <1>1, <1>4, <2>1, <2>2
<1>8. CASE Dies(p)
  <2>1. phase'[p] = "idle" /\ job'[p] = NoJob
    BY <1>1, <1>2, <1>8 DEF Dies, lockVars, Locks!Crash, Locks!Enter
  <2>2. Task(NoJob, "idle", want'[p])
    BY DEF Task, NoJob
  <2> QED
    BY <2>1, <2>2 DEF Advanced, Collapsing, NoJob
<1> QED
  BY <1>5, <1>6, <1>7, <1>8

\* Every step of a rebuild advances its task.
LEMMA RebuildsAdvance ==
  ASSUME Sound, Jobs, Locks!TypeOK, NEW p \in Rebuilder, Rebuilds(p)
  PROVE  Advanced(p)
<1>1. CASE Lists(p) \/ ReadsRepositories(p) \/ DropsVanished(p) \/ PlansRetags(p)
           \/ ReadsRecords(p) \/ Reports(p) \/ Exits(p)
  BY <1>1, ListsAdvance
<1>2. CASE BeginsCollapse(p) \/ BeginsRetag(p) \/ BeginsApply(p)
  BY <1>2, EntriesBegin
<1>3. CASE \/ RegistersParent(p) \/ DropsLinked(p) \/ TagsRoot(p) \/ TagsID(p)
           \/ ObservesLive(p) \/ Rereads(p) \/ RegistersSession(p) \/ AdoptsLive(p)
           \/ ItemFails(p)
  BY <1>3, WorkAdvances
<1>4. CASE WaitsForItem(p) \/ SkipsItem(p) \/ ReleasesItem(p) \/ Dies(p)
  BY <1>4, LocksAdvance
<1> QED
  BY <1>1, <1>2, <1>3, <1>4 DEF Rebuilds

\* What stands stays where repositories do.
LEMMA StandingKept ==
  ASSUME RepositoriesStand, NEW j, NEW f, NEW w, Task(j, f, w), Standing(db, j, f)
  PROVE  Standing(db', j, f)
<1>1. ASSUME j.loop = "collapse",
             NEW e \in j.todo \cup (IF f = "idle" THEN {} ELSE {j.item}),
             e.id \in DOMAIN db'.repositories
      PROVE  db'.repositories[e.id].repo_root = e.repo_root
  <2>1. StaleEntry(e)
    BY <1>1 DEF Task, IsEntry
  <2> QED
    BY <1>1, <2>1 DEF StaleEntry, RepositoriesStand, Standing
<1>2. ASSUME j.at = "drop"
      PROVE  WorkspaceAt(j.item.repo_root, "").repository_id \in DOMAIN db'.repositories
  <2>1. StaleEntry(j.item) /\ MainOf[j.item.repo_root] \in Root
    BY <1>2 DEF Task, IsEntry, AtEntry
  <2>2. WorkspaceAt(j.item.repo_root, "") \in Resolvable
    BY <2>1, PathsResolve, WorktreesAssumption DEF StaleEntry
  <2> QED
    BY <1>2, <2>2 DEF RepositoriesStand, Standing, Store!KnownRepository
<1> QED
  BY <1>1, <1>2 DEF Standing

\* It stays across the steps of the rebuild that relies on it.
LEMMA RebuildsKeepStanding ==
  ASSUME Sound, Jobs, Locks!TypeOK, NEW p \in Rebuilder, Rebuilds(p)
  PROVE  Standing(db', job'[p], phase'[p])
<1> DEFINE j == job[p]
           k == job'[p]
<1>1. /\ Task(j, phase[p], want[p]) /\ Standing(db, j, phase[p])
      /\ DOMAIN job = Process /\ p \in Process
  BY RebuilderAssumption DEF Jobs, Tasked
<1>2. Task(k, phase'[p], want'[p]) /\ Collapsing(p)
  BY RebuildsAdvance DEF Advanced
<1>3. RepositoriesStand
  BY RebuildsStand DEF Sound, StoreKept
<1>4. Standing(db', j, phase[p])
  BY <1>1, <1>3, StandingKept
<1>5. k.at = "drop" =>
        WorkspaceAt(k.item.repo_root, "").repository_id \in DOMAIN db'.repositories
  <2> SUFFICES ASSUME k.at = "drop"
               PROVE  WorkspaceAt(k.item.repo_root, "").repository_id
                        \in DOMAIN db'.repositories
    OBVIOUS
  <2>1. k.item = j.item /\ (RegistersParent(p) \/ j.at = "drop")
    BY <1>2 DEF Collapsing
  <2>2. CASE RegistersParent(p)
    <3>1. /\ StaleEntry(j.item) /\ MainOf[j.item.repo_root] \in Root
      BY <1>1, <2>2 DEF RegistersParent, Work, Task, IsEntry, AtEntry
    <3>2. WorkspaceAt(j.item.repo_root, "") \in Resolvable
      BY <3>1, PathsResolve, WorktreesAssumption DEF StaleEntry
    <3>3. \E ws \in Resolvable : /\ ws = WorkspaceAt(j.item.repo_root, "")
                                 /\ Store!RegisterWorkspace(ws, CurrentDigest)
      BY <2>2, <3>2 DEF RegistersParent
    <3>4. PICK ws \in Resolvable : /\ ws = WorkspaceAt(j.item.repo_root, "")
                                  /\ Store!RegisterWorkspace(ws, CurrentDigest)
      BY <3>3
    <3>5. Store!KnownRepository(ws.repository_id)'
      BY <3>4, RegistrationPlaces DEF Sound
    <3> QED
      BY <2>1, <3>4, <3>5 DEF Store!KnownRepository
  <2> QED
    BY <1>4, <2>1, <2>2 DEF Standing
<1>6. CASE ReadsRepositories(p)
  <2> DEFINE PathOf(r) == MainOf[db.repositories[r].repo_root]
             stale == {r \in DOMAIN db.repositories :
                         PathOf(r) \notin {db.repositories[r].repo_root, "unresolvable"}}
             list == {[id |-> r, repo_root |-> db.repositories[r].repo_root] : r \in stale}
             l == [j EXCEPT !.loop = "collapse", !.at = "collapse"]
             flaws == IF \E r \in DOMAIN db.repositories : PathOf(r) = "unresolvable"
                      THEN {"conflict"} ELSE {}
  <2>1. /\ j.at = "repositories" /\ db' = db /\ phase'[p] = "idle"
        /\ \/ k = [l EXCEPT !.todo = list, !.flaws = flaws]
           \/ k = Flawed(l, "failed")
    BY <1>1, <1>6 DEF ReadsRepositories, Remember, lockVars
  <2>2. j.loop = "off" /\ j.todo = {} /\ DOMAIN j = DOMAIN NoJob
    BY <1>1, <2>1 DEF Task, IsEntry
  <2>3. /\ DOMAIN l = DOMAIN NoJob /\ l.todo = {}
    BY <2>2 DEF NoJob
  <2>4. \A e \in list : db.repositories[e.id].repo_root = e.repo_root
    OBVIOUS
  <2> HIDE DEF list, flaws, l
  <2>5. k.todo = list \/ k.todo = {}
    BY <2>1, <2>3 DEF NoJob, Flawed
  <2> HIDE DEF k
  <2> QED
    BY <1>5, <2>1, <2>4, <2>5 DEF Standing, k
<1>7. CASE ~ReadsRepositories(p)
  <2>1. ASSUME k.loop = "collapse",
               NEW e \in k.todo \cup (IF phase'[p] = "idle" THEN {} ELSE {k.item})
        PROVE  /\ j.loop = "collapse"
               /\ e \in j.todo \cup (IF phase[p] = "idle" THEN {} ELSE {j.item})
    BY <1>2, <1>7, <2>1 DEF Collapsing
  <2> HIDE DEF k, j
  <2> QED
    BY <1>4, <1>5, <2>1 DEF Standing, k
<1> QED
  BY <1>6, <1>7

\* The jobs are kept for every process.
LEMMA JobsInPlace ==
  ASSUME Jobs, NEW p \in Rebuilder, Rebuilds(p)
  PROVE  DOMAIN job' = Process
<1>1. DOMAIN job = Process
  BY DEF Jobs
<1>2. CASE CallOfRebuild(p)
  BY <1>1, <1>2 DEF CallOfRebuild, Lists, ReadsRepositories, DropsVanished,
     RegistersParent, DropsLinked, PlansRetags, TagsRoot, TagsID, ReadsRecords,
     ObservesLive, Rereads, RegistersSession, AdoptsLive, ItemFails, Reports, Exits,
     Remember, Work
<1>3. CASE BeginsCollapse(p) \/ BeginsRetag(p) \/ BeginsApply(p)
  BY <1>1, <1>3 DEF BeginsCollapse, BeginsRetag, BeginsApply, Begins, Remember
<1>4. CASE WaitsForItem(p) \/ SkipsItem(p) \/ ReleasesItem(p) \/ Dies(p)
  BY <1>1, <1>4 DEF WaitsForItem, SkipsItem, ReleasesItem, Dies, Resumed
<1> QED
  BY <1>2, <1>3, <1>4 DEF Rebuilds, CallOfRebuild

\* A rebuild leaves every process with its job.
LEMMA RebuildsKeepJobs ==
  ASSUME Sound, Jobs, Locks!TypeOK, NEW p \in Rebuilder, Rebuilds(p)
  PROVE  Jobs'
<1>1. UNCHANGED cmd
  BY DEF Rebuilds, Lists, ReadsRepositories, DropsVanished, BeginsCollapse,
     RegistersParent, DropsLinked, PlansRetags, BeginsRetag, TagsRoot, TagsID,
     ReadsRecords, BeginsApply, ObservesLive, Rereads, RegistersSession, AdoptsLive,
     ItemFails, WaitsForItem, SkipsItem, ReleasesItem, Reports, Exits, Dies, Begins,
     Remember, Work, Quietly
<1>2. Tasked(p)'
  BY <1>1, RebuildsAdvance, RebuildsKeepStanding DEF Advanced, Jobs, Tasked
<1>3. ASSUME NEW q \in Rebuilder, q # p PROVE Tasked(q)'
  <2>1. UNCHANGED <<phase[q], want[q], job[q]>>
    BY <1>3, RebuilderAssumption, RebuildsAlone
  <2>2. /\ cmd[q] = NULL /\ Task(job[q], phase[q], want[q])
        /\ Standing(db, job[q], phase[q])
    BY DEF Jobs, Tasked
  <2>3. Standing(db', job[q], phase[q])
    BY <2>2, RebuildsStand, StandingKept DEF Sound, StoreKept
  <2> QED
    BY <1>1, <2>1, <2>2, <2>3 DEF Tasked
<1>4. ASSUME NEW q \in Process \ Rebuilder PROVE job'[q] = NoJob
  <2>1. q \in Process /\ q # p /\ job[q] = NoJob
    BY <1>4 DEF Jobs
  <2> QED
    BY <2>1, RebuildsAlone
<1> QED
  BY <1>2, <1>3, <1>4, JobsInPlace DEF Jobs

\* A command leaves every rebuild with its job.
LEMMA CommandsKeepJobs ==
  ASSUME Sound, Jobs, Locks!TypeOK, NEW p \in Process \ Rebuilder, Runs(p), UNCHANGED job
  PROVE  Jobs'
<1>1. /\ phase \in [Process -> Locks!Phase] /\ want \in [Process -> Locks!Footprint]
      /\ cmd \in [Process -> Commands \cup {NULL}]
  BY DEF Sound, Types, Locks!TypeOK
<1>2. RepositoriesStand
  <2>1. Transacts \/ UNCHANGED db
    BY CallsTransact, OthersLeaveWorld DEF Runs
  <2> QED
    BY <2>1, TransactionsStand DEF Sound, StoreKept
<1>3. ASSUME NEW q \in Rebuilder PROVE UNCHANGED <<cmd[q], phase[q], want[q]>>
  <2>1. q \in Process /\ q # p
    BY RebuilderAssumption
  <2>2. CASE Call(p) \/ CallFails(p)
    BY <2>2, CallsMove DEF Moved, lockVars
  <2>3. CASE Starts(p) \/ TakesLock(p) \/ GivesUp(p) \/ Releases(p) \/ Crashes(p)
    BY <1>1, <2>1, <2>3 DEF Starts, TakesLock, GivesUp, Releases, Crashes, Forgets,
       Goto, Locks!Begin, Locks!TakeRepository, Locks!TakeWorkspace, Locks!TimeOut,
       Locks!GiveUp, Locks!Finish, Locks!UnlockWorkspace, Locks!UnlockRepository,
       Locks!Crash, Locks!Enter
  <2> QED
    BY <2>2, <2>3 DEF Runs
<1>4. ASSUME NEW q \in Rebuilder PROVE Tasked(q)'
  <2>1. /\ cmd[q] = NULL /\ Task(job[q], phase[q], want[q])
        /\ Standing(db, job[q], phase[q])
    BY DEF Jobs, Tasked
  <2>2. Standing(db', job[q], phase[q])
    BY <1>2, <2>1, StandingKept
  <2> QED
    BY <1>3, <2>1, <2>2 DEF Tasked
<1> QED
  BY <1>4 DEF Jobs

\* So do users.
LEMMA UsersKeepJobs ==
  ASSUME Sound, Jobs, UserDisturbs
  PROVE  Jobs'
<1>1. UNCHANGED <<phase, want, cmd>>
  BY DEF UserDisturbs, User, ByHand, lockVars, UserKills, UserRenames, UserOccupies,
     UserRetags, UserActsOnDocker, UserLosesDatabase
<1>2. /\ DOMAIN job' = Process
      /\ \A q \in Process : job'[q] = [job[q] EXCEPT !.disturbed = Working(q)]
  BY DEF UserDisturbs
<1>3. ASSUME NEW q \in Process \ Rebuilder PROVE job'[q] = NoJob
  <2>1. q \in Process /\ job[q] = NoJob
    BY <1>3 DEF Jobs
  <2>2. Working(q) = FALSE
    BY <2>1 DEF Working, NoJob
  <2>3. job'[q] = [NoJob EXCEPT !.disturbed = FALSE]
    BY <1>2, <2>1, <2>2
  <2> QED
    BY <2>3 DEF NoJob
<1>4. ASSUME NEW q \in Rebuilder PROVE Tasked(q)'
  <2> DEFINE j == job[q]
             k == job'[q]
             f == phase[q]
             w == want[q]
  <2>1. cmd[q] = NULL /\ Task(j, f, w) /\ Standing(db, j, f) /\ q \in Process
    BY RebuilderAssumption DEF Jobs, Tasked
  <2>2. DOMAIN j = DOMAIN NoJob
    BY <2>1 DEF Task
  <2>3. /\ DOMAIN k = DOMAIN NoJob /\ k.at = j.at /\ k.item = j.item
        /\ k.loop = j.loop /\ k.todo = j.todo /\ k.flaws = j.flaws /\ k.live = j.live
    BY <1>2, <2>1, <2>2 DEF NoJob
  <2>4. Working(q) <=> j.at # "off"
    BY DEF Working
  <2> HIDE DEF j, k, f, w
  <2>5. AtEntry(k, w) <=> AtEntry(j, w)
    BY <2>3 DEF AtEntry
  <2>6. Task(k, f, w)
    BY <2>1, <2>3, <2>5 DEF Task
  <2>7. Standing(db', k, f)
    <3>1. CASE UNCHANGED db
      BY <2>1, <2>3, <3>1 DEF Standing
    <3>2. CASE db' # db
      <4>1. j.at = "off"
        BY <2>4, <3>2 DEF UserDisturbs
      <4> QED
        BY <2>1, <2>3, <4>1 DEF Standing, Task
    <3> QED
      BY <3>1, <3>2
  <2> QED
    BY <1>1, <2>1, <2>6, <2>7 DEF Tasked, k, f, w
<1> QED
  BY <1>2, <1>3, <1>4 DEF Jobs

\* It is so at the start.
LEMMA RebuildsAtFirst == RebuildInit => Sound /\ Jobs
<1> SUFFICES ASSUME RebuildInit PROVE Sound /\ Jobs
  OBVIOUS
<1>1. PICK scene \in Scenes :
        /\ db = scene.db
        /\ tmux = [sessions |-> scene.sessions, next |-> Cardinality(scene.sessions)]
  BY DEF RebuildInit
<1> DEFINE S == scene.sessions
<1>2. /\ Store!IsDatabase(scene.db) /\ Store!IsIntact(scene.db) /\ Store!IsPlaced(scene.db)
      /\ IsFiniteSet(S) /\ S \subseteq SessionRow
      /\ \A s \in S : s.sid < Cardinality(S)
      /\ \A s, t \in S : s.sid = t.sid \/ s.name = t.name => s = t
  BY ScenesAssumption
<1>3. Cardinality(S) \in Nat
  BY <1>2, FS_CardinalityType
<1>4. NoSnap \in SnapRow
  BY DEF NoSnap, SnapRow
<1>5. Types
  <2>1. tmux \in [sessions : SUBSET SessionRow, next : Nat]
    BY <1>1, <1>2, <1>3
  <2> QED
    BY <1>4, <2>1 DEF RebuildInit, Types, DockerState, Places
<1>6. Numbered
  BY <1>1, <1>2 DEF Numbered
<1>7. StoreSound
  BY <1>1, <1>2 DEF StoreSound, Store!TypeOK, Store!Integrity
<1>8. ASSUME NEW p \in Process PROVE Prepared(p)
  BY DEF RebuildInit, Locks!Init, Prepared, Has
<1>9. ASSUME NEW p \in Rebuilder PROVE Tasked(p)
  <2>1. p \in Process /\ job[p] = NoJob /\ cmd[p] = NULL /\ phase[p] = "idle"
    BY RebuilderAssumption DEF RebuildInit, Locks!Init
  <2>2. Task(NoJob, "idle", want[p]) /\ Standing(db, NoJob, "idle")
    BY DEF Task, Standing, NoJob
  <2> QED
    BY <2>1, <2>2 DEF Tasked
<1> QED
  BY <1>5, <1>6, <1>7, <1>8, <1>9 DEF Sound, Jobs, RebuildInit

\* The invariant of rebuilds and the commands beside them.
Ordered == Sound /\ Jobs /\ Locks!TypeOK /\ Locks!NoLeakedLock

\* Every step, of whichever process, keeps it.
LEMMA RebuildsSoundly == RebuildSpec => []Ordered
<1>1. Sound /\ Jobs /\ Locks!TypeOK /\ [RebuildNext]_jobVars => Sound' /\ Jobs'
  <2> SUFFICES ASSUME Sound, Jobs, Locks!TypeOK, [RebuildNext]_jobVars
               PROVE  Sound' /\ Jobs'
    OBVIOUS
  <2>1. ASSUME NEW p \in Rebuilder, Rebuilds(p)
        PROVE  Sound' /\ Jobs'
    BY <2>1, RebuildsKeepSound, RebuildsKeepJobs
  <2>2. ASSUME NEW p \in Process \ Rebuilder, Runs(p), UNCHANGED job
        PROVE  Sound' /\ Jobs'
    BY <2>2, SoundStays, CommandsKeepJobs DEF Next
  <2>3. CASE UserDisturbs
    BY <2>3, SoundStays, UsersKeepJobs DEF UserDisturbs, Next
  <2>4. CASE UNCHANGED jobVars
    <3>1. UNCHANGED <<vars, job, db, phase, want, cmd>>
      BY <2>4 DEF jobVars, vars, lockVars
    <3>2. Jobs'
      BY <3>1 DEF Jobs, Tasked
    <3> QED
      BY <3>1, <3>2, SoundStays
  <2>5. CASE Rests /\ UNCHANGED job
    BY <2>4, <2>5 DEF Rests, jobVars
  <2> QED
    BY <2>1, <2>2, <2>3, <2>4, <2>5 DEF RebuildNext
<1> QED
  BY <1>1, RebuildsAtFirst, RebuildsLockTyped, PTL DEF RebuildSpec, Ordered

\* A rebuild is at work on an item exactly while it has or awaits its lock, and
\* makes each call under the lock of what the call writes (rebuild/apply.go,
\* migrate.go), in any number of rebuilds and of commands beside them.
THEOREM RebuildsTyped == RebuildSpec => []RebuildTypeOK
<1>1. Ordered => RebuildTypeOK
  <2> SUFFICES ASSUME Ordered PROVE RebuildTypeOK
    OBVIOUS
  <2>1. ASSUME NEW p \in Rebuilder
        PROVE  /\ job[p].loop \in {"off", "collapse", "retag", "apply"}
               /\ job[p].flaws \subseteq {"conflict", "failed"}
               /\ job[p].at \in UnderLock \cup {"release"} <=> phase[p] # "idle"
               /\ phase[p] = "held" /\ job[p].at \in UnderLock =>
                    CASE job[p].loop = "collapse" ->
                           holder[WorkspaceAt(job[p].item.repo_root, "").repository_id] = p
                      [] job[p].loop = "retag" -> holder[WorkspaceOf(job[p].item).id] = p
                      [] OTHER -> holder[WorkspaceOf(job[p].item.session).id] = p
    <3> DEFINE j == job[p]
    <3>1. Task(j, phase[p], want[p]) /\ p \in Process
      BY <2>1, RebuilderAssumption DEF Ordered, Jobs, Tasked
    <3>2. j.at \in UnderLock \cup {"release"} <=> phase[p] # "idle"
      BY <3>1 DEF Task, AtEntry, UnderLock
    <3>3. ASSUME phase[p] = "held", NEW k \in Locks!Key,
                 k = want[p].repository \/ k = want[p].workspace
          PROVE  holder[k] = p
      <4>1. k # NULL
        BY LockKeysAssumption DEF Locks!Key
      <4>2. k \in Locks!HeldKeys(p)
        BY <3>3, <4>1 DEF Locks!HeldKeys
      <4> QED
        BY <3>1, <4>2 DEF Ordered, Locks!NoLeakedLock
    <3>4. ASSUME phase[p] = "held", j.loop = "collapse"
          PROVE  holder[WorkspaceAt(j.item.repo_root, "").repository_id] = p
      <4> DEFINE ws == WorkspaceAt(j.item.repo_root, "")
      <4>1. /\ StaleEntry(j.item) /\ MainOf[j.item.repo_root] \in Root
            /\ want[p] = OfRepository(ws)
        BY <3>1, <3>4 DEF Task, IsEntry, AtEntry
      <4>2. ws.repository_id \in RepositoryID
        BY <4>1, PathsResolve, WorktreesAssumption DEF StaleEntry
      <4>3. want[p] = OfRepository(ws)
        BY <4>1
      <4> HIDE DEF ws
      <4>4. want[p].repository = ws.repository_id
        BY <4>3 DEF OfRepository
      <4>5. ws.repository_id \in Locks!Key
        BY <4>2 DEF Locks!Key
      <4>6. holder[ws.repository_id] = p
        BY <3>3, <3>4, <4>4, <4>5
      <4> QED
        BY <4>6 DEF ws
    <3>5. ASSUME phase[p] = "held", NEW s, Belonging(s), want[p] = OfWorkspace(WorkspaceOf(s))
          PROVE  holder[WorkspaceOf(s).id] = p
      <4>1. WorkspaceOf(s).id \in LockedID
        BY <3>5, SessionsResolve
      <4>2. WorkspaceOf(s).id \in Locks!Key /\ want[p].workspace = WorkspaceOf(s).id
        BY <3>5, <4>1 DEF OfWorkspace, Locks!Key
      <4> QED
        BY <3>3, <3>5, <4>2
    <3>6. ASSUME phase[p] = "held", j.loop = "retag"
          PROVE  holder[WorkspaceOf(j.item).id] = p
      BY <3>1, <3>5, <3>6 DEF Task, IsEntry, AtEntry
    <3>7. ASSUME phase[p] = "held", j.loop \notin {"collapse", "retag"}
          PROVE  holder[WorkspaceOf(j.item.session).id] = p
      BY <3>1, <3>5, <3>7 DEF Task, IsEntry, AtEntry
    <3>8. j.loop \in {"off", "collapse", "retag", "apply"}
          /\ j.flaws \subseteq {"conflict", "failed"}
      BY <3>1 DEF Task
    <3> HIDE DEF j
    <3> QED
      BY <3>2, <3>4, <3>6, <3>7, <3>8 DEF j
  <2>2. \A p \in Process \ Rebuilder : job[p] = NoJob
    BY DEF Ordered, Jobs
  <2> QED
    BY <2>1, <2>2 DEF RebuildTypeOK, Ordered, Sound, StoreSound
<1> QED
  BY <1>1, RebuildsSoundly, PTL

\* A step that changes the store is a transaction, one of a rebuild, or the
\* user's deletion.
LEMMA RebuildSteps ==
  ASSUME Ordered, [RebuildNext]_jobVars
  PROVE  \/ Transacts \/ UNCHANGED db
         \/ UserLosesDatabase
         \/ \E p \in Rebuilder : Rebuilds(p)
<1>1. ASSUME NEW p \in Process, Runs(p)
      PROVE  Transacts \/ UNCHANGED db
  BY <1>1, CallsTransact, OthersLeaveWorld DEF Runs, Ordered
<1>2. CASE UserDisturbs
  BY <1>2, UsersKeepCommands DEF UserDisturbs, Ordered
<1>3. CASE Rests \/ UNCHANGED jobVars
  BY <1>3 DEF Rests, jobVars, vars
<1> QED
  BY <1>1, <1>2, <1>3 DEF RebuildNext

\* Where users do not delete the database, a repository whose path is not gone
\* stays recorded, itself or as its parent, through every registration, every
\* collapse, and every crash and failure in between (migrate.go, collapseInto).
THEOREM CollapseKeepsRepositories ==
  ASSUME "lose database" \notin Disturbances
  PROVE  RebuildSpec => RepositoryKept
<1> DEFINE Root1(r) == MainOf[db.repositories[r].repo_root]
           Root2(r) == MainOf[db'.repositories[r].repo_root]
           Kept == \A r \in DOMAIN db.repositories :
                     Root1(r) # "gone" => \E q \in DOMAIN db'.repositories : Root2(q) = Root1(r)
<1>1. Ordered /\ [RebuildNext]_jobVars => Kept
  <2> SUFFICES ASSUME Ordered, [RebuildNext]_jobVars PROVE Kept
    OBVIOUS
  <2>1. StoreSound /\ Sound /\ Jobs /\ Locks!TypeOK
    BY DEF Ordered, Sound
  <2>2. CASE db'.repositories = db.repositories
    BY <2>2
  <2>3. ASSUME NEW ws \in Resolvable, NEW d, Store!RegisterWorkspace(ws, d)
        PROVE  Kept
    <3>1. \A r \in DOMAIN db.repositories :
            \/ r \in DOMAIN db'.repositories
            \/ db.repositories[r].repo_root = ws.repo_root
      BY <2>1, <2>3, RegistrationPlaces
    <3>2. /\ ws.repository_id \in DOMAIN db'.repositories
          /\ db'.repositories[ws.repository_id].repo_root = ws.repo_root
          /\ \A r \in DOMAIN db'.repositories :
               r # ws.repository_id => db'.repositories[r] = db.repositories[r]
      BY <2>1, <2>3, RegistrationPlaces, ZenonT(40) DEF Store!KnownRepository
    <3>3. ws.repository_id \in DOMAIN db.repositories =>
            db.repositories[ws.repository_id].repo_root = ws.repo_root
      BY <2>1 DEF StoreSound, Store!IsPlaced
    <3>4. ASSUME NEW r \in DOMAIN db.repositories
          PROVE  \E q \in DOMAIN db'.repositories : Root2(q) = Root1(r)
      <4>1. CASE db.repositories[r].repo_root = ws.repo_root
        BY <3>2, <4>1
      <4>2. CASE db.repositories[r].repo_root # ws.repo_root
        BY <3>1, <3>2, <3>3, <3>4, <4>2
      <4> QED
        BY <4>1, <4>2
    <3> QED
      BY <3>4
  <2>4. ASSUME NEW e, StaleEntry(e), Store!DropRepository(e.id),
               Store!KnownRepository(e.id) => db.repositories[e.id].repo_root = e.repo_root,
               \/ MainOf[e.repo_root] = "gone"
               \/ \E ws \in Resolvable : /\ ws.repo_root = MainOf[e.repo_root]
                                         /\ Store!KnownRepository(ws.repository_id)
        PROVE  Kept
    <3>1. e.id \in RepositoryID /\ \A ws \in Resolvable : ws.repository_id # e.id
      BY <2>4 DEF StaleEntry
    <3>2. /\ DOMAIN db'.repositories = DOMAIN db.repositories \ {e.id}
          /\ \A q \in DOMAIN db'.repositories : db'.repositories[q] = db.repositories[q]
      BY <2>1, <2>4, <3>1, DropKeepsStore
    <3>3. ASSUME e.id \in DOMAIN db.repositories, Root1(e.id) # "gone"
          PROVE  \E q \in DOMAIN db'.repositories : Root2(q) = Root1(e.id)
      <4>1. db.repositories[e.id].repo_root = e.repo_root
        BY <2>4, <3>3 DEF Store!KnownRepository
      <4>2. PICK ws \in Resolvable : /\ ws.repo_root = MainOf[e.repo_root]
                                     /\ Store!KnownRepository(ws.repository_id)
        BY <2>4, <3>3, <4>1
      <4>3. db.repositories[ws.repository_id].repo_root = ws.repo_root
        BY <2>1, <4>2 DEF StoreSound, Store!IsPlaced, Store!KnownRepository
      <4>4. MainOf[ws.repo_root] = ws.repo_root
        BY WorktreesAssumption
      <4>5. ws.repository_id \in DOMAIN db'.repositories
        BY <3>1, <3>2, <4>2 DEF Store!KnownRepository
      <4>6. Root2(ws.repository_id) = Root1(e.id)
        BY <3>2, <4>1, <4>2, <4>3, <4>4, <4>5
      <4> QED
        BY <4>5, <4>6
    <3> QED
      BY <3>2, <3>3
  <2>5. CASE Transacts \/ UNCHANGED db
    BY <2>1, <2>2, <2>3, <2>5, RepositoriesChange
  <2>6. ASSUME NEW p \in Rebuilder, Rebuilds(p)
        PROVE  Kept
    <3>1. Store!Adopt => Transacts
      BY DEF Transacts
    <3> HIDE DEF Kept
    <3> QED
      BY <2>1, <2>3, <2>4, <2>5, <2>6, <3>1, RebuildsTransact
  <2>7. ~UserLosesDatabase
    BY DEF UserLosesDatabase, ByHand
  <2> HIDE DEF Kept
  <2> QED
    BY <2>5, <2>6, <2>7, RebuildSteps
<1>2. Ordered /\ [RebuildNext]_jobVars => [Kept]_jobVars
  BY <1>1
<1>3. [][Kept]_jobVars => RepositoryKept
  BY DEF RepositoryKept
<1> QED
  BY <1>2, <1>3, RebuildsSoundly, PTL DEF RebuildSpec

-----------------------------------------------------------------------------
(* What is filled in *)

\* Process p is at work under the lock of a workspace.
HasLock(p, w) == phase[p] = "held" /\ want[p].workspace = w

\* A path is resolved to it.
ResolvedTo(ws) ==
  \E path \in Root, session \in Session :
    MainOf[path] \in Root /\ ws = WorkspaceAt(path, session)

\* Only one process has it (rebuild/apply.go, lock).
LEMMA LocksApart ==
  ASSUME Ordered, NEW p \in Process, NEW q \in Process, NEW w \in LockedID,
         HasLock(p, w), HasLock(q, w)
  PROVE  p = q
<1>1. w \in Locks!Key
  BY DEF Locks!Key
<1>2. w # NULL
  BY <1>1, LockKeysAssumption DEF Locks!Key
<1>3. w \in Locks!HeldKeys(p) /\ w \in Locks!HeldKeys(q)
  BY <1>2 DEF HasLock, Locks!HeldKeys
<1> QED
  BY <1>1, <1>3 DEF Ordered, Locks!NoLeakedLock

\* Its ID says which workspace it is.
LEMMA OneWorkspace ==
  ASSUME NEW v, NEW ws, ResolvedTo(v), ResolvedTo(ws), v.id = ws.id
  PROVE  v = ws
<1>1. PICK path \in Root, session \in Session :
        MainOf[path] \in Root /\ v = WorkspaceAt(path, session)
  BY DEF ResolvedTo
<1>2. PICK other \in Root, second \in Session :
        MainOf[other] \in Root /\ ws = WorkspaceAt(other, second)
  BY DEF ResolvedTo
<1>3. v \in Resolvable /\ v.repo_root = MainOf[path] /\ v.session = session
  BY <1>1, PathsResolve
<1>4. ws \in Resolvable /\ ws.repo_root = MainOf[other] /\ ws.session = second
  BY <1>2, PathsResolve
<1>5. MainOf[path] = MainOf[other] /\ session = second
  BY <1>3, <1>4, StoreAssumption DEF Store!IDsAreDigests
<1> QED
  BY <1>1, <1>2, <1>5, MainsDecide

\* A session's workspace is one of those.
LEMMA SessionsResolved ==
  ASSUME NEW s, Belonging(s)
  PROVE  ResolvedTo(WorkspaceOf(s))
<1>1. s.keys.place[1] \in Root /\ s.keys.place[2] \in Session
  BY DEF Belonging, Resolves, SessionRow
<1> QED
  BY <1>1 DEF Belonging, Resolves, WorkspaceOf, ResolvedTo

\* One row is written, and no repository.
WritesRow(ws) ==
  /\ db'.repositories = db.repositories
  /\ DOMAIN db'.workspaces = DOMAIN db.workspaces
  /\ \A w \in DOMAIN db.workspaces : w # ws.id => db'.workspaces[w] = db.workspaces[w]

\* Nothing is written, though something may be dropped.
OnlyDrops ==
  /\ DOMAIN db'.repositories \subseteq DOMAIN db.repositories
  /\ \A r \in DOMAIN db'.repositories : db'.repositories[r] = db.repositories[r]
  /\ DOMAIN db'.workspaces \subseteq DOMAIN db.workspaces
  /\ \A w \in DOMAIN db'.workspaces : db'.workspaces[w] = db.workspaces[w]

\* What process p writes: it registers what a path is resolved to as the
\* configuration is now, or is at work under the lock of what it writes.
WrittenBy(p) ==
  \/ \E ws \in Resolvable, d \in Digest :
       /\ Store!RegisterWorkspace(ws, d)
       /\ (ResolvedTo(ws) /\ d = CurrentDigest) \/ HasLock(p, ws.id)
  \/ \E ws \in Resolvable : HasLock(p, ws.id) /\ WritesRow(ws)
  \/ OnlyDrops

\* So rebuilds write.
LEMMA RebuildsWrite ==
  ASSUME Ordered, NEW p \in Rebuilder, Rebuilds(p)
  PROVE  WrittenBy(p)
<1> DEFINE j == job[p]
<1>1. /\ Task(j, phase[p], want[p]) /\ p \in Process
      /\ StoreSound /\ Sound /\ Jobs /\ Locks!TypeOK
  BY RebuilderAssumption DEF Ordered, Jobs, Tasked, Sound
<1>2. CASE RegistersParent(p)
  <2>1. /\ StaleEntry(j.item) /\ MainOf[j.item.repo_root] \in Root
    BY <1>1, <1>2 DEF RegistersParent, Work, Task, IsEntry, AtEntry
  <2>2. /\ WorkspaceAt(j.item.repo_root, "") \in Resolvable
        /\ ResolvedTo(WorkspaceAt(j.item.repo_root, ""))
    BY <2>1, PathsResolve, WorktreesAssumption DEF StaleEntry, ResolvedTo
  <2> QED
    BY <1>2, <2>2, CurrentDigestAssumption DEF RegistersParent, WrittenBy
<1>3. ASSUME j.at \in {"register", "adopt"}, phase[p] = "held"
      PROVE  /\ WorkspaceOf(j.item.session) \in Resolvable
             /\ ResolvedTo(WorkspaceOf(j.item.session))
             /\ HasLock(p, WorkspaceOf(j.item.session).id)
             /\ j.at = "register" => j.item.digest = CurrentDigest
  <2>1. /\ Belonging(j.item.session)
        /\ want[p] = OfWorkspace(WorkspaceOf(j.item.session))
        /\ j.at = "register" => j.item.digest = CurrentDigest
    BY <1>1, <1>3 DEF Task, IsEntry, AtEntry
  <2>2. want[p].workspace = WorkspaceOf(j.item.session).id
    BY <2>1 DEF OfWorkspace
  <2> QED
    BY <1>3, <2>1, <2>2, SessionsResolve, SessionsResolved DEF HasLock
<1>4. CASE RegistersSession(p)
  BY <1>3, <1>4, CurrentDigestAssumption DEF RegistersSession, Work, WrittenBy
<1>5. CASE AdoptsLive(p)
  <2> DEFINE ws == WorkspaceOf(j.item.session)
             n == j.item.session.name
  <2>1. ws \in Resolvable /\ HasLock(p, ws.id)
    BY <1>3, <1>5 DEF AdoptsLive, Work
  <2>2. \/ db' = db
        \/ /\ ws.id \in DOMAIN db.workspaces
           /\ db' = [db EXCEPT !.workspaces[ws.id].actual_session = n]
    BY <1>5 DEF AdoptsLive, Store!AdoptSessionName, Store!Known
  <2> HIDE DEF ws, n
  <2>3. WritesRow(ws)
    BY <1>1, <2>2, Tables DEF WritesRow
  <2> QED
    BY <2>1, <2>3 DEF WrittenBy
<1>6. ASSUME NEW e, StaleEntry(e), Store!DropRepository(e.id)
      PROVE  OnlyDrops
  <2>1. e.id \in RepositoryID /\ \A ws \in Resolvable : ws.repository_id # e.id
    BY <1>6 DEF StaleEntry
  <2> QED
    BY <1>1, <1>6, <2>1, DropKeepsStore DEF OnlyDrops
<1>7. CASE ~RegistersParent(p) /\ ~RegistersSession(p) /\ ~AdoptsLive(p)
  <2>1. \/ \E e : StaleEntry(e) /\ Store!DropRepository(e.id)
        \/ UNCHANGED db
    BY <1>1, <1>7, RebuildsTransact
  <2>2. UNCHANGED db => OnlyDrops
    BY DEF OnlyDrops
  <2> QED
    BY <1>6, <2>1, <2>2 DEF WrittenBy
<1> QED
  BY <1>2, <1>4, <1>5, <1>7

\* So do commands.
LEMMA CommandsWrite ==
  ASSUME Ordered, NEW p \in Process, Runs(p)
  PROVE  WrittenBy(p)
<1>1. Sound
  BY DEF Ordered
<1>2. UNCHANGED db => OnlyDrops
  BY DEF OnlyDrops
<1>3. ASSUME phase[p] = "held", at[p] # "over", cmd[p].op \in {"open", "stop", "bind"}
      PROVE  cmd[p].ws \in Resolvable /\ HasLock(p, cmd[p].ws.id)
  <2>1. cmd[p].ws \in Resolvable /\ want[p] = FootprintOf(cmd[p])
    BY <1>1, <1>3, AtWork
  <2>2. cmd[p].op # "autostart"
    BY <1>3
  <2>3. want[p].workspace = cmd[p].ws.id
    BY <2>1, <2>2 DEF FootprintOf
  <2> QED
    BY <1>3, <2>1, <2>3 DEF HasLock
<1>4. CASE Registers(p)
  <2>1. \E d \in Digest : Store!RegisterWorkspace(cmd[p].ws, d)
    BY <1>1, <1>4, RegistersOwn
  <2>2. cmd[p].ws \in Resolvable /\ HasLock(p, cmd[p].ws.id)
    BY <1>1, <1>3, <1>4, RegistersOwn
  <2> QED
    BY <2>1, <2>2 DEF WrittenBy
<1>5. CASE (Call(p) \/ CallFails(p)) /\ ~Registers(p)
  <2>1. phase[p] = "held" /\ at[p] # "over"
    BY <1>1, <1>5, CallsMove DEF Moved
  <2>2. CASE db'.workspaces = db.workspaces
    BY <1>1, <1>5, <2>2, RowsChange DEF WrittenBy, OnlyDrops
  <2>3. CASE /\ cmd[p].op \in {"open", "stop", "bind"}
             /\ DOMAIN db'.workspaces = DOMAIN db.workspaces
             /\ \A w \in DOMAIN db.workspaces :
                  w # cmd[p].ws.id => db'.workspaces[w] = db.workspaces[w]
    <3>1. db'.repositories = db.repositories
      BY <1>1, <1>5, RowsChange
    <3>2. WritesRow(cmd[p].ws)
      BY <2>3, <3>1 DEF WritesRow
    <3> QED
      BY <1>3, <2>1, <2>3, <3>2 DEF WrittenBy
  <2> QED
    BY <1>1, <1>5, <2>2, <2>3, RowsChange
<1>6. CASE Starts(p) \/ TakesLock(p) \/ GivesUp(p) \/ Releases(p) \/ Crashes(p)
  BY <1>2, <1>6, OthersLeaveWorld DEF WrittenBy
<1> QED
  BY <1>4, <1>5, <1>6 DEF Runs

\* Nothing they write has to be migrated.
LEMMA NoRelicsWritten ==
  ASSUME StoreSound, StoreSound', NoRelics(db), NEW p, WrittenBy(p)
  PROVE  NoRelics(db')
<1>1. ASSUME \A r \in DOMAIN db'.repositories :
               \/ r \in DOMAIN db.repositories /\ db'.repositories[r] = db.repositories[r]
               \/ \E v \in Resolvable : r = v.repository_id,
             \A w \in DOMAIN db'.workspaces :
               \/ w \in DOMAIN db.workspaces /\ db'.workspaces[w] = db.workspaces[w]
               \/ \E v \in Resolvable : w = v.id
      PROVE  NoRelics(db')
  <2>1. \A v \in Resolvable :
          /\ v.id \in DOMAIN db'.workspaces =>
               /\ db'.workspaces[v.id].repository_id = v.repository_id
               /\ db'.workspaces[v.id].session = v.session
          /\ v.repository_id \in DOMAIN db'.repositories =>
               db'.repositories[v.repository_id].repo_root = v.repo_root
    BY DEF StoreSound, Store!IsPlaced
  <2>2. \A v, ws \in Resolvable :
          /\ v.repository_id = ws.repository_id <=> v.repo_root = ws.repo_root
          /\ v.id = ws.id <=> v.repo_root = ws.repo_root /\ v.session = ws.session
    BY StoreAssumption DEF Store!IDsAreDigests
  <2>3. ASSUME NEW ws \in Resolvable, NEW r \in DOMAIN db'.repositories,
               db'.repositories[r].repo_root = ws.repo_root
        PROVE  r = ws.repository_id
    BY <1>1, <2>1, <2>2, <2>3 DEF NoRelics
  <2>4. ASSUME NEW ws \in Resolvable, NEW w \in DOMAIN db'.workspaces,
               db'.workspaces[w].repository_id = ws.repository_id,
               db'.workspaces[w].session = ws.session
        PROVE  w = ws.id
    BY <1>1, <2>1, <2>2, <2>4 DEF NoRelics
  <2> QED
    BY <2>3, <2>4 DEF NoRelics
<1>2. ASSUME NEW ws \in Resolvable, NEW d, Store!RegisterWorkspace(ws, d)
      PROVE  NoRelics(db')
  <2>1. \A r \in DOMAIN db'.repositories :
          \/ r = ws.repository_id
          \/ r \in DOMAIN db.repositories /\ db'.repositories[r] = db.repositories[r]
    BY <1>2, RegistrationPlaces
  <2>2. \A w \in DOMAIN db'.workspaces :
          \/ w \in DOMAIN db.workspaces /\ db'.workspaces[w] = db.workspaces[w]
          \/ w = ws.id
    BY <1>2, RegistrationWrites
  <2> QED
    BY <1>1, <1>2, <2>1, <2>2
<1>3. ASSUME NEW ws \in Resolvable, WritesRow(ws)
      PROVE  NoRelics(db')
  BY <1>1, <1>3 DEF WritesRow
<1>4. CASE OnlyDrops
  BY <1>1, <1>4 DEF OnlyDrops
<1> QED
  BY <1>2, <1>3, <1>4 DEF WrittenBy

\* A run keeps its verdict on the start, and whether a user came between, until
\* it is over.
LEMMA VerdictKept ==
  ASSUME Ordered, NEW p \in Rebuilder, Rebuilds(p), ~Lists(p)
  PROVE  \/ job'[p] = NoJob
         \/ /\ job'[p].settled = job[p].settled /\ job'[p].disturbed = job[p].disturbed
            /\ job'[p].keyed = job[p].keyed /\ job'[p].at # "off"
<1> DEFINE j == job[p]
           Holds(k) == /\ DOMAIN k = DOMAIN NoJob
                       /\ k.settled = j.settled /\ k.disturbed = j.disturbed
                       /\ k.keyed = j.keyed
           Keeps(k) == Holds(k) /\ k.at # "off"
<1>1. /\ DOMAIN job = Process /\ p \in Process /\ Task(j, phase[p], want[p])
      /\ phase \in [Process -> Locks!Phase]
  BY RebuilderAssumption DEF Ordered, Jobs, Tasked, Locks!TypeOK
<1>2. Holds(j)
  BY <1>1 DEF Task
<1>3. ASSUME NEW k, Holds(k) PROVE Keeps(Over(k))
  BY <1>3 DEF Over, NoJob
<1>4. ASSUME NEW k, Keeps(k), NEW what PROVE Keeps(Flawed(k, what))
  BY <1>4 DEF Flawed, NoJob
<1>5. ASSUME NEW k, Holds(k), NEW x, x # "off" PROVE Keeps([k EXCEPT !.at = x])
  BY <1>5 DEF NoJob
<1>6. ASSUME NEW k, Keeps(k), NEW x PROVE Keeps([k EXCEPT !.todo = x])
  BY <1>6 DEF NoJob
<1>7. ASSUME NEW k, Keeps(k), NEW x PROVE Keeps([k EXCEPT !.flaws = x])
  BY <1>7 DEF NoJob
<1>8. ASSUME NEW k, Holds(k), NEW x, NEW y, y # "off"
      PROVE  Keeps([k EXCEPT !.loop = x, !.at = y])
  BY <1>8 DEF NoJob
<1>9. ASSUME NEW k, Keeps(k), NEW x PROVE Keeps([k EXCEPT !.live = x])
  BY <1>9 DEF NoJob
<1>10. ASSUME NEW k, Remember(p, k) PROVE job'[p] = k
  BY <1>1, <1>10 DEF Remember
<1>11. ASSUME NEW here, NEW k, Work(p, here, k) PROVE job'[p] = k
  BY <1>1, <1>11 DEF Work
<1> HIDE DEF Holds, Keeps
<1>12. CASE ReadsRepositories(p)
  <2> DEFINE k == [j EXCEPT !.loop = "collapse", !.at = "collapse"]
  <2>1. Keeps(k)
    BY <1>2, <1>8
  <2>2. ASSUME NEW x, NEW y PROVE Keeps([k EXCEPT !.todo = x, !.flaws = y])
    BY <2>1 DEF Keeps, Holds, NoJob
  <2> HIDE DEF k
  <2>3. PICK x, y : \/ job'[p] = Flawed(k, "failed")
                    \/ job'[p] = [k EXCEPT !.todo = x, !.flaws = y]
    BY <1>10, <1>12 DEF ReadsRepositories, k
  <2>4. Keeps(Flawed(k, "failed"))
    BY <1>4, <2>1
  <2>5. Keeps([k EXCEPT !.todo = x, !.flaws = y])
    BY <2>2 DEF k
  <2>6. Keeps(job'[p])
    BY <2>3, <2>4, <2>5
  <2> QED
    BY <2>6 DEF Keeps, Holds
<1>13. CASE DropsVanished(p)
  <2>1. Keeps(j)
    BY <1>2, <1>13 DEF DropsVanished, Keeps
  <2>2. PICK x : \/ job'[p] = [j EXCEPT !.todo = x]
                 \/ job'[p] = Flawed([j EXCEPT !.todo = x], "failed")
    BY <1>10, <1>13 DEF DropsVanished
  <2>3. Keeps([j EXCEPT !.todo = x]) /\ Keeps(Flawed([j EXCEPT !.todo = x], "failed"))
    BY <1>4, <1>6, <2>1
  <2>4. Keeps(job'[p])
    BY <2>2, <2>3
  <2> QED
    BY <2>4 DEF Keeps, Holds
<1>14. ASSUME NEW e, NEW i, NEW f, NEW next, next # "off", Begins(p, e, i, f, next)
       PROVE  Keeps(job'[p])
  <2>1. \E x : job'[p] = [j EXCEPT !.at = next, !.item = i, !.todo = x]
    BY <1>1, <1>14 DEF Begins
  <2> QED
    BY <1>2, <1>14, <2>1 DEF Keeps, Holds, NoJob
<1>15. CASE BeginsCollapse(p) \/ BeginsRetag(p) \/ BeginsApply(p)
  <2>1. CASE \E x : Remember(p, Flawed([j EXCEPT !.todo = x], "failed"))
                    /\ j.at = "collapse"
    <3>1. PICK x : /\ Remember(p, Flawed([j EXCEPT !.todo = x], "failed"))
                   /\ j.at = "collapse"
      BY <2>1
    <3>2. Keeps(j)
      BY <1>2, <3>1 DEF Keeps
    <3>3. Keeps(Flawed([j EXCEPT !.todo = x], "failed"))
      BY <1>4, <1>6, <3>2
    <3>4. Keeps(job'[p])
      BY <1>10, <3>1, <3>3
    <3> QED
      BY <3>4 DEF Keeps, Holds
  <2>2. CASE \E e, i, f : \E next \in {"register parent", "tag root", "observe"} :
               Begins(p, e, i, f, next)
    <3>1. Keeps(job'[p])
      BY <1>14, <2>2
    <3> QED
      BY <3>1 DEF Keeps, Holds
  <2> QED
    BY <1>15, <2>1, <2>2 DEF BeginsCollapse, BeginsRetag, BeginsApply
<1>16. CASE PlansRetags(p)
  <2> DEFINE k == [j EXCEPT !.loop = "retag", !.at = "retag", !.todo = ToRetag(j.live)]
  <2>1. Keeps(k)
    BY <1>2 DEF Keeps, Holds, NoJob
  <2> HIDE DEF k
  <2>2. job'[p] = k \/ job'[p] = Flawed(k, "conflict")
    BY <1>10, <1>16 DEF PlansRetags, k
  <2>3. Keeps(job'[p])
    BY <1>4, <2>1, <2>2
  <2> QED
    BY <2>3 DEF Keeps, Holds
<1>17. CASE ReadsRecords(p)
  <2>1. \/ job'[p] = Flawed([j EXCEPT !.at = "done"], "failed")
        \/ \E x : LET k == [j EXCEPT !.loop = "apply", !.at = "apply", !.todo = x]
                  IN job'[p] = k \/ job'[p] = Flawed(k, "conflict")
    BY <1>10, <1>17 DEF ReadsRecords
  <2>2. ASSUME NEW x PROVE Keeps([j EXCEPT !.loop = "apply", !.at = "apply", !.todo = x])
    BY <1>2 DEF Keeps, Holds, NoJob
  <2>3. Keeps([j EXCEPT !.at = "done"])
    BY <1>2, <1>5
  <2>4. Keeps(job'[p])
    BY <1>4, <2>1, <2>2, <2>3
  <2> QED
    BY <2>4 DEF Keeps, Holds
<1>18. CASE RegistersParent(p) \/ DropsLinked(p) \/ RegistersSession(p) \/ ItemFails(p)
  <2>1. \/ \E x \in {"drop", "adopt"} : job'[p] = [j EXCEPT !.at = x]
        \/ job'[p] = Over(j) \/ job'[p] = Flawed(Over(j), "failed")
    BY <1>11, <1>18 DEF RegistersParent, DropsLinked, RegistersSession, ItemFails
  <2>2. Keeps(job'[p])
    BY <1>2, <1>3, <1>4, <1>5, <2>1
  <2> QED
    BY <2>2 DEF Keeps, Holds
<1>19. CASE TagsRoot(p) \/ TagsID(p)
  <2>1. \/ job'[p] = [j EXCEPT !.at = "tag id"]
        \/ job'[p] = Flawed(Over(j), "failed")
        \/ \E x : job'[p] = [Over(j) EXCEPT !.live = x]
    <3>1. CASE TagsRoot(p)
      BY <1>11, <3>1 DEF TagsRoot
    <3>2. CASE TagsID(p)
      <4> DEFINE corrected == [j.item EXCEPT !.keys = Plan!KeysOf(WorkspaceOf(j.item))]
                 k == [Over(j) EXCEPT !.live = (@ \ {j.item}) \cup {corrected}]
                 l == IF NamedAs(j.item) = {} THEN Flawed(Over(j), "failed") ELSE k
      <4>1. Work(p, "tag id", l)
        BY <3>2 DEF TagsID
      <4>2. job'[p] = l
        BY <1>11, <4>1
      <4>3. \E x : k = [Over(j) EXCEPT !.live = x]
        OBVIOUS
      <4> HIDE DEF k
      <4> QED
        BY <4>2, <4>3
    <3> QED
      BY <1>19, <3>1, <3>2
  <2>2. Keeps([j EXCEPT !.at = "tag id"]) /\ Keeps(Flawed(Over(j), "failed"))
    BY <1>2, <1>3, <1>4, <1>5
  <2>3. ASSUME NEW x PROVE Keeps([Over(j) EXCEPT !.live = x])
    BY <1>2, <1>3, <1>9
  <2>4. Keeps(job'[p])
    BY <2>1, <2>2, <2>3
  <2> QED
    BY <2>4 DEF Keeps, Holds
<1>20. CASE ObservesLive(p)
  <2>1. \/ job'[p] = Flawed(Over(j), "conflict")
        \/ \E x : job'[p] = [j EXCEPT !.at = "reread", !.item.session = x]
    BY <1>11, <1>20 DEF ObservesLive
  <2>2. ASSUME NEW x PROVE Keeps([j EXCEPT !.at = "reread", !.item.session = x])
    BY <1>2 DEF Keeps, Holds, NoJob
  <2>3. Keeps(job'[p])
    BY <1>2, <1>3, <1>4, <2>1, <2>2
  <2> QED
    BY <2>3 DEF Keeps, Holds
<1>21. CASE Rereads(p)
  <2>1. \/ \E what \in {"conflict", "failed"} : job'[p] = Flawed(Over(j), what)
        \/ job'[p] = Over(j)
        \/ job'[p] = [j EXCEPT !.at = "register", !.item.digest = CurrentDigest]
        \/ job'[p] = [j EXCEPT !.at = "adopt"]
    BY <1>21, RereadsTo DEF Ordered
  <2>2. Keeps([j EXCEPT !.at = "register", !.item.digest = CurrentDigest])
    BY <1>2 DEF Keeps, Holds, NoJob
  <2>3. Keeps(job'[p])
    BY <1>2, <1>3, <1>4, <1>5, <2>1, <2>2
  <2> QED
    BY <2>3 DEF Keeps, Holds
<1>22. CASE AdoptsLive(p)
  <2>1. job'[p] = Over(j) \/ job'[p] = Flawed(Over(j), "conflict")
    BY <1>11, <1>22 DEF AdoptsLive
  <2>2. Keeps(job'[p])
    BY <1>2, <1>3, <1>4, <2>1
  <2> QED
    BY <2>2 DEF Keeps, Holds
<1>23. CASE WaitsForItem(p) \/ SkipsItem(p) \/ ReleasesItem(p)
  <2>1. phase[p] # "idle"
    BY <1>23 DEF WaitsForItem, SkipsItem, ReleasesItem, Locks!TakeRepository,
       Locks!TakeWorkspace, Locks!TimeOut, Locks!Contended, Locks!Polled, Locks!Finish,
       Locks!UnlockWorkspace, Locks!UnlockRepository
  <2>2. j.at # "off" /\ j.loop # "off"
    BY <1>1, <2>1 DEF Task, IsEntry, AtEntry
  <2>3. ASSUME NEW k, Keeps(k), k.loop = j.loop, Resumed(p, k)
        PROVE  Keeps(job'[p])
    <3>1. Keeps([k EXCEPT !.at = k.loop, !.item = NULL])
      BY <2>2, <2>3 DEF Keeps, Holds, NoJob
    <3> QED
      BY <1>1, <2>3, <3>1 DEF Resumed
  <2>4. Keeps(j) /\ Keeps(Flawed(Over(j), "failed")) /\ Flawed(Over(j), "failed").loop = j.loop
    BY <1>2, <1>3, <1>4, <2>2 DEF Keeps, Holds, Flawed, Over, NoJob
  <2>5. Keeps(job'[p])
    BY <1>23, <2>3, <2>4 DEF WaitsForItem, SkipsItem, ReleasesItem
  <2> QED
    BY <2>5 DEF Keeps, Holds
<1>24. CASE Reports(p)
  <2>1. job'[p] = [j EXCEPT !.at = "done"]
    BY <1>10, <1>24 DEF Reports
  <2>2. Keeps(job'[p])
    BY <1>2, <1>5, <2>1
  <2> QED
    BY <2>2 DEF Keeps, Holds
<1>25. CASE Exits(p) \/ Dies(p)
  BY <1>1, <1>10, <1>25 DEF Exits, Dies
<1> QED
  BY <1>12, <1>13, <1>15, <1>16, <1>17, <1>18, <1>19, <1>20, <1>21, <1>22, <1>23,
     <1>24, <1>25 DEF Rebuilds

\* A rebuild that is about to fill in a row finds nothing there that it would
\* overwrite.
Filled(d, j) ==
  LET ws == WorkspaceOf(j.item.session)
      row == d.workspaces[ws.id]
  IN j.at \in {"register", "adopt"} /\ ws.id \in DOMAIN d.workspaces =>
       /\ row.actual_session = NULL
       /\ j.at = "register" => /\ row.proposed_session = ws.session_name
                               /\ row.desired_digest = CurrentDigest

Filling ==
  \A q \in Rebuilder : job[q].keyed => NoRelics(db) /\ Filled(db, job[q])

\* What a registration leaves in its row.
LEMMA RegistrationFills ==
  ASSUME Sound, NoRelics(db), NEW ws \in Resolvable, NEW d, Store!RegisterWorkspace(ws, d)
  PROVE  /\ db'.workspaces[ws.id].proposed_session = ws.session_name
         /\ db'.workspaces[ws.id].desired_digest = d
         /\ Store!Known(ws.id) =>
              db'.workspaces[ws.id].actual_session = db.workspaces[ws.id].actual_session
         /\ ~Store!Known(ws.id) => db'.workspaces[ws.id].actual_session = NULL
<1> DEFINE row == IF Store!Known(ws.id) THEN db.workspaces[ws.id] ELSE Store!FreshRow(ws)
           Columns == {"repository_id", "session", "proposed_session", "actual_session",
                       "desired_digest", "applied_digest", "bind"}
<1>1. db'.workspaces[ws.id] = Store!Refreshed(row, ws, d)
  BY RegistrationWrites
<1>2. DOMAIN row = Columns
  <2>1. Store!Known(ws.id) => db.workspaces[ws.id] \in Store!WorkspaceRow
    BY Tables DEF Store!Known
  <2> QED
    BY <2>1 DEF Store!WorkspaceRow, Store!FreshRow
<1>3. ~Store!Known(ws.id) => row.actual_session = NULL
  BY DEF Store!FreshRow
<1>4. Store!Known(ws.id) => row = db.workspaces[ws.id]
  OBVIOUS
<1> HIDE DEF row
<1>5. /\ Store!Refreshed(row, ws, d).proposed_session = ws.session_name
      /\ Store!Refreshed(row, ws, d).desired_digest = d
      /\ Store!Refreshed(row, ws, d).actual_session = row.actual_session
  BY <1>2 DEF Store!Refreshed
<1> QED
  BY <1>1, <1>3, <1>4, <1>5

\* A rebuild finds nothing to overwrite when it gets there (rebuild/apply.go:
\* what is written is decided from what is read under the lock).
LEMMA RebuildsFill ==
  ASSUME Ordered, Ordered', NoRelics(db), NEW p \in Rebuilder, Rebuilds(p),
         Filled(db, job[p])
  PROVE  Filled(db', job'[p])
<1> DEFINE j == job[p]
           k == job'[p]
<1>1. /\ Task(j, phase[p], want[p]) /\ p \in Process /\ DOMAIN job = Process
      /\ Sound /\ Jobs /\ Locks!TypeOK
  BY RebuilderAssumption DEF Ordered, Jobs, Tasked
<1>2. DOMAIN j = DOMAIN NoJob
  BY <1>1 DEF Task
<1>3. Task(k, phase'[p], want'[p])
  BY <1>1, RebuildsAdvance DEF Advanced
<1>4. ASSUME k.at \notin {"register", "adopt"} PROVE Filled(db', k)
  BY <1>4 DEF Filled
<1>5. phase'[p] # "held" => k.at \notin {"register", "adopt"}
  BY <1>3 DEF Task
<1>6. ASSUME k = j, db' = db PROVE Filled(db', k)
  BY <1>6
<1>7. ASSUME NEW here, NEW l, Work(p, here, l) PROVE k = l /\ j.at = here
  BY <1>1, <1>7 DEF Work
<1>8. ASSUME NEW l, DOMAIN l = DOMAIN NoJob, NEW what
      PROVE  /\ Over(l).at = "release" /\ Flawed(Over(l), what).at = "release"
             /\ DOMAIN Over(l) = DOMAIN NoJob
  <2>1. DOMAIN Over(l) = DOMAIN NoJob /\ Over(l).at = "release"
    BY <1>8, FlawsKept
  <2>2. Flawed(Over(l), what).at = Over(l).at
    BY <2>1, FlawsKept DEF NoJob
  <2> QED
    BY <2>1, <2>2
<1>9. k = Over(j) \/ (\E what : k = Flawed(Over(j), what)) => Filled(db', k)
  BY <1>2, <1>4, <1>8
<1>10. ASSUME NEW next, k = [j EXCEPT !.at = next]
       PROVE  k.at = next /\ k.item = j.item
  BY <1>2, <1>10 DEF NoJob
<1>11. CASE \/ Lists(p) \/ ReadsRepositories(p) \/ DropsVanished(p) \/ PlansRetags(p)
            \/ ReadsRecords(p) \/ Reports(p) \/ Exits(p)
  <2>1. phase'[p] = "idle"
    BY <1>11 DEF Lists, ReadsRepositories, DropsVanished, PlansRetags, ReadsRecords,
       Reports, Exits, Remember, lockVars
  <2> QED
    BY <1>4, <1>5, <2>1
<1>12. CASE BeginsCollapse(p) \/ BeginsRetag(p) \/ BeginsApply(p)
  <2>1. phase'[p] # "held"
    BY <1>1, <1>12 DEF BeginsCollapse, BeginsRetag, BeginsApply, Begins, Remember,
       lockVars, Locks!Begin, Locks!Enter, Locks!TypeOK
  <2> QED
    BY <1>4, <1>5, <2>1
<1>13. CASE RegistersParent(p) \/ TagsRoot(p) \/ DropsLinked(p) \/ ItemFails(p)
  <2>1. \/ k = [j EXCEPT !.at = "drop"] \/ k = [j EXCEPT !.at = "tag id"]
        \/ k = Over(j) \/ k = Flawed(Over(j), "failed")
    BY <1>7, <1>13 DEF RegistersParent, TagsRoot, DropsLinked, ItemFails
  <2> QED
    BY <1>4, <1>9, <1>10, <2>1
<1>14. CASE TagsID(p)
  <2> DEFINE l == Over(j)
             live == (l.live \ {j.item}) \cup {[j.item EXCEPT !.keys = Plan!KeysOf(WorkspaceOf(j.item))]}
  <2>1. k = Flawed(l, "failed") \/ k = [l EXCEPT !.live = live]
    BY <1>7, <1>14 DEF TagsID
  <2>2. DOMAIN l = DOMAIN NoJob /\ l.at = "release"
    BY <1>2, <1>8
  <2> HIDE DEF l, live
  <2>3. [l EXCEPT !.live = live].at = l.at
    BY <2>2 DEF NoJob
  <2> QED
    BY <1>4, <1>9, <2>1, <2>2, <2>3 DEF l
<1>15. CASE ObservesLive(p)
  <2> DEFINE live == TmuxView(WorkspaceOf(j.item.session).id, {j.item.session.name}).live
  <2>1. \/ k = Flawed(Over(j), "conflict")
        \/ k = [j EXCEPT !.at = "reread", !.item.session = live]
    BY <1>7, <1>15 DEF ObservesLive
  <2> HIDE DEF live
  <2>2. [j EXCEPT !.at = "reread", !.item.session = live].at = "reread"
    BY <1>2 DEF NoJob
  <2> QED
    BY <1>4, <1>9, <2>1, <2>2
<1>16. CASE Rereads(p)
  <2> DEFINE s == j.item.session
             id == s.keys.id
             l == [j EXCEPT !.at = "register", !.item.digest = CurrentDigest]
  <2>1. j.at = "reread" /\ phase[p] = "held" /\ db' = db
    BY <1>7, <1>16 DEF Rereads, Work
  <2>2. /\ Plan!SessionBelongsTo(s, WorkspaceOf(s))
        /\ DOMAIN j.item = {"session", "case", "digest"}
    BY <1>1, <2>1 DEF Task, AtEntry
  <2>3. id = WorkspaceOf(s).id
    BY <2>2 DEF Plan!SessionBelongsTo, Plan!KeysOf
  <2>4. \/ \E what \in {"conflict", "failed"} : k = Flawed(Over(j), what)
        \/ k = Over(j)
        \/ k = l /\ ~Store!Known(id)
        \/ /\ k = [j EXCEPT !.at = "adopt"]
           /\ Store!Known(id) => db.workspaces[id].actual_session = NULL
    BY <1>1, <1>16, RereadsTo
  <2>5. CASE k = l /\ ~Store!Known(id)
    <3>1. PICK item : item = [j.item EXCEPT !.digest = CurrentDigest]
      OBVIOUS
    <3>2. k = [j EXCEPT !.at = "register", !.item = item]
      BY <2>5, <3>1
    <3>3. k.item.session = s
      BY <1>2, <2>2, <3>1, <3>2 DEF NoJob
    <3> QED
      BY <2>1, <2>3, <2>5, <3>3 DEF Filled, Store!Known
  <2>6. CASE /\ k = [j EXCEPT !.at = "adopt"]
             /\ Store!Known(id) => db.workspaces[id].actual_session = NULL
    <3>1. k.item = j.item /\ k.at = "adopt"
      BY <1>10, <2>6
    <3> QED
      BY <2>1, <2>3, <2>6, <3>1 DEF Filled, Store!Known
  <2> HIDE DEF l
  <2> QED
    BY <1>9, <2>4, <2>5, <2>6
<1>17. CASE RegistersSession(p)
  <2> DEFINE ws == WorkspaceOf(j.item.session)
  <2>1. /\ k = [j EXCEPT !.at = "adopt"] /\ j.at = "register" /\ phase[p] = "held"
        /\ Store!RegisterWorkspace(ws, j.item.digest)
    BY <1>7, <1>17 DEF RegistersSession, Work
  <2>2. Belonging(j.item.session)
    BY <1>1, <2>1 DEF Task, IsEntry, AtEntry
  <2>3. k.item = j.item /\ k.at = "adopt"
    BY <1>10, <2>1
  <2>4. PICK v \in Resolvable : v = ws /\ Store!RegisterWorkspace(v, j.item.digest)
    BY <2>1, <2>2, SessionsResolve
  <2>5. db'.workspaces[v.id].actual_session = NULL
    <3>1. Store!Known(v.id) => db.workspaces[v.id].actual_session = NULL
      BY <2>1, <2>4 DEF Filled, Store!Known
    <3> QED
      BY <1>1, <2>4, <3>1, RegistrationFills
  <2> QED
    BY <2>3, <2>4, <2>5 DEF Filled
<1>18. CASE AdoptsLive(p)
  <2>1. k = Over(j) \/ k = Flawed(Over(j), "conflict")
    BY <1>7, <1>18 DEF AdoptsLive
  <2> QED
    BY <1>9, <2>1
<1>19. CASE WaitsForItem(p)
  BY <1>6, <1>19 DEF WaitsForItem
<1>20. CASE SkipsItem(p) \/ ReleasesItem(p) \/ Dies(p)
  <2>1. phase'[p] # "held"
    BY <1>1, <1>20 DEF SkipsItem, ReleasesItem, Dies, lockVars, Locks!TimeOut,
       Locks!GiveUp, Locks!Finish, Locks!UnlockWorkspace, Locks!UnlockRepository,
       Locks!Crash, Locks!Enter, Locks!TypeOK
  <2> QED
    BY <1>4, <1>5, <2>1
<1> HIDE DEF j, k
<1> QED
  BY <1>11, <1>12, <1>13, <1>14, <1>15, <1>16, <1>17, <1>18, <1>19, <1>20
     DEF Rebuilds, k

\* Nothing another process does puts anything there.
LEMMA OthersSpareFilled ==
  ASSUME Ordered, NoRelics(db), NEW q \in Rebuilder, Filled(db, job[q]),
         NEW p \in Process, p # q, WrittenBy(p)
  PROVE  Filled(db', job[q])
<1> DEFINE j == job[q]
           ws == WorkspaceOf(j.item.session)
<1> SUFFICES ASSUME j.at \in {"register", "adopt"}, ws.id \in DOMAIN db'.workspaces
             PROVE  /\ db'.workspaces[ws.id].actual_session = NULL
                    /\ j.at = "register" =>
                         /\ db'.workspaces[ws.id].proposed_session = ws.session_name
                         /\ db'.workspaces[ws.id].desired_digest = CurrentDigest
  BY DEF Filled
<1>1. /\ Task(j, phase[q], want[q]) /\ q \in Process
      /\ Sound /\ StoreSound
  BY RebuilderAssumption DEF Ordered, Sound, Jobs, Tasked
<1>2. /\ Belonging(j.item.session) /\ want[q] = OfWorkspace(ws) /\ phase[q] = "held"
  BY <1>1 DEF Task, IsEntry, AtEntry
<1>3. ws \in Resolvable /\ ResolvedTo(ws) /\ ws.id \in LockedID
  BY <1>2, SessionsResolve, SessionsResolved
<1>4. HasLock(q, ws.id)
  BY <1>2 DEF HasLock, OfWorkspace
<1>5. ~HasLock(p, ws.id)
  BY <1>1, <1>3, <1>4, LocksApart
<1>6. ASSUME NEW w, w = ws.id, w \in DOMAIN db.workspaces
      PROVE  /\ db.workspaces[w].actual_session = NULL
             /\ j.at = "register" =>
                  /\ db.workspaces[w].proposed_session = ws.session_name
                  /\ db.workspaces[w].desired_digest = CurrentDigest
  BY <1>6 DEF Filled
<1> HIDE DEF ws
<1>7. ASSUME NEW v \in Resolvable, NEW d, Store!RegisterWorkspace(v, d),
             (ResolvedTo(v) /\ d = CurrentDigest) \/ HasLock(p, v.id)
      PROVE  /\ db'.workspaces[ws.id].actual_session = NULL
             /\ j.at = "register" =>
                  /\ db'.workspaces[ws.id].proposed_session = ws.session_name
                  /\ db'.workspaces[ws.id].desired_digest = CurrentDigest
  <2>1. CASE v.id # ws.id
    BY <1>6, <1>7, <2>1, RegistrationWrites
  <2>2. CASE v.id = ws.id
    <3>1. v = ws /\ d = CurrentDigest
      BY <1>3, <1>5, <1>7, <2>2, OneWorkspace
    <3>2. Store!Known(v.id) => db.workspaces[v.id].actual_session = NULL
      BY <1>6, <2>2 DEF Store!Known
    <3> QED
      BY <1>1, <1>7, <3>1, <3>2, RegistrationFills
  <2> QED
    BY <2>1, <2>2
<1>8. CASE \E v \in Resolvable : HasLock(p, v.id) /\ WritesRow(v)
  BY <1>5, <1>6, <1>8 DEF WritesRow
<1>9. CASE OnlyDrops
  BY <1>6, <1>9 DEF OnlyDrops
<1> QED
  BY <1>7, <1>8, <1>9 DEF WrittenBy

\* So it is throughout, in a run that began when nothing awaited migration: no
\* process ever leaves anything to migrate.
LEMMA RebuildsFilling ==
  RebuildSpec => []Filling
<1>1. RebuildInit => Filling
  <2> SUFFICES ASSUME RebuildInit, NEW q \in Rebuilder
               PROVE  ~job[q].keyed
    BY DEF Filling
  <2> QED
    BY RebuilderAssumption DEF RebuildInit, NoJob
<1>2. Ordered /\ Ordered' /\ Filling /\ [RebuildNext]_jobVars => Filling'
  <2> SUFFICES ASSUME Ordered, Ordered', Filling, [RebuildNext]_jobVars
               PROVE  Filling'
    OBVIOUS
  <2>1. StoreSound /\ StoreSound' /\ Jobs /\ Locks!TypeOK
    BY DEF Ordered, Sound
  <2>2. ASSUME NEW p \in Process, WrittenBy(p),
               \A q \in Rebuilder : q # p => job'[q] = job[q],
               p \in Rebuilder /\ job'[p].keyed => NoRelics(db) /\ Filled(db', job'[p])
        PROVE  Filling'
    <3> SUFFICES ASSUME NEW q \in Rebuilder, job'[q].keyed
                 PROVE  NoRelics(db') /\ Filled(db', job'[q])
      BY DEF Filling
    <3>1. CASE q = p
      BY <2>1, <2>2, <3>1, NoRelicsWritten
    <3>2. CASE q # p
      <4>1. job'[q] = job[q]
        BY <2>2, <3>2
      <4>2. NoRelics(db) /\ Filled(db, job[q])
        BY <4>1 DEF Filling
      <4> QED
        BY <2>1, <2>2, <3>2, <4>1, <4>2, NoRelicsWritten, OthersSpareFilled
    <3> QED
      BY <3>1, <3>2
  <2>3. ASSUME NEW p \in Rebuilder, Rebuilds(p)
        PROVE  Filling'
    <3>1. p \in Process /\ WrittenBy(p)
      BY <2>1, <2>3, RebuilderAssumption, RebuildsWrite
    <3>2. \A q \in Rebuilder : q # p => job'[q] = job[q]
      BY <2>1, <2>3, RebuilderAssumption, RebuildsAlone
    <3>3. ASSUME job'[p].keyed
          PROVE  NoRelics(db) /\ Filled(db', job'[p])
      <4>1. CASE Lists(p)
        <5>1. job'[p] = [NoJob EXCEPT !.at = "repositories", !.live = Claiming,
                                      !.settled = AllSettled, !.keyed = NoRelics(db)]
          BY <2>1, <3>1, <4>1 DEF Lists, Remember, Jobs
        <5>2. job'[p].at = "repositories" /\ job'[p].keyed = NoRelics(db)
          BY <5>1 DEF NoJob
        <5> QED
          BY <3>3, <5>2 DEF Filled
      <4>2. CASE ~Lists(p)
        <5>1. job'[p] # NoJob
          BY <3>3 DEF NoJob
        <5>2. job[p].keyed
          BY <2>3, <3>3, <4>2, <5>1, VerdictKept
        <5>3. NoRelics(db) /\ Filled(db, job[p])
          BY <5>2 DEF Filling
        <5> QED
          BY <2>3, <5>3, RebuildsFill
      <4> QED
        BY <4>1, <4>2
    <3> QED
      BY <2>2, <3>1, <3>2, <3>3
  <2>4. ASSUME NEW p \in Process \ Rebuilder, Runs(p), UNCHANGED job
        PROVE  Filling'
    BY <2>2, <2>4, CommandsWrite
  <2>5. CASE UserDisturbs
    <3> SUFFICES ASSUME NEW q \in Rebuilder, job'[q].keyed
                 PROVE  NoRelics(db') /\ Filled(db', job'[q])
      BY DEF Filling
    <3>1. /\ job'[q].at = job[q].at /\ job'[q].item = job[q].item
          /\ job'[q].keyed = job[q].keyed
      <4>1. DOMAIN job[q] = DOMAIN NoJob /\ q \in Process
        BY <2>1, RebuilderAssumption DEF Jobs, Tasked, Task
      <4>2. job'[q] = [job[q] EXCEPT !.disturbed = Working(q)]
        BY <2>5, <4>1 DEF UserDisturbs
      <4> QED
        BY <4>1, <4>2 DEF NoJob
    <3>2. CASE UNCHANGED db
      BY <3>1, <3>2 DEF Filling, Filled
    <3>3. CASE db' # db
      <4>1. UserLosesDatabase
        BY <2>5, <3>3, UsersKeepCommands DEF UserDisturbs, Ordered
      <4>2. NoRelics(db')
        BY <4>1 DEF UserLosesDatabase, Store!EmptyDatabase, Store!NoRows, NoRelics
      <4>3. job'[q].at = "off"
        BY <2>5, <3>1, <3>3 DEF UserDisturbs, Working
      <4> QED
        BY <4>2, <4>3 DEF Filled
    <3> QED
      BY <3>2, <3>3
  <2>6. CASE (Rests /\ UNCHANGED job) \/ UNCHANGED jobVars
    <3>1. UNCHANGED <<db, job>>
      BY <2>6 DEF Rests, jobVars, vars
    <3> QED
      BY <3>1 DEF Filling
  <2> QED
    BY <2>3, <2>4, <2>5, <2>6 DEF RebuildNext
<1> QED
  BY <1>1, <1>2, RebuildsSoundly, PTL DEF RebuildSpec

\* A recovery that began when no row awaited re-keying changes none but to give
\* it a name it had not, whatever is opened, stopped, registered or collapsed
\* between its second look and its writes (rebuild/apply.go).
THEOREM RecoveryOnlyFills ==
  RebuildSpec => FillOnly
<1> DEFINE Fills(p) ==
             Writes(p, {"register", "adopt"}) /\ job[p].keyed =>
               \A w \in DOMAIN db.workspaces :
                 /\ w \in DOMAIN db'.workspaces
                 /\ \/ db'.workspaces[w] = db.workspaces[w]
                    \/ /\ db.workspaces[w].actual_session = NULL
                       /\ db'.workspaces[w] = [db.workspaces[w] EXCEPT
                            !.actual_session = db'.workspaces[w].actual_session]
<1>1. ASSUME Ordered, Filling, [RebuildNext]_jobVars, NEW p \in Rebuilder
      PROVE  Fills(p)
  <2> SUFFICES ASSUME Writes(p, {"register", "adopt"}), job[p].keyed
               PROVE  Fills(p)
    OBVIOUS
  <2> DEFINE j == job[p]
             ws == WorkspaceOf(j.item.session)
  <2>1. /\ NoRelics(db) /\ Filled(db, j) /\ Sound /\ StoreSound /\ Jobs /\ Locks!TypeOK
        /\ Task(j, phase[p], want[p]) /\ p \in Process /\ DOMAIN job = Process
    BY <1>1, RebuilderAssumption DEF Filling, Ordered, Sound, Jobs, Tasked
  <2>2. j.at \in {"register", "adopt"} /\ job'[p].at # j.at
    BY DEF Writes
  <2>3. CASE UNCHANGED db
    BY <2>3
  <2>4. Belonging(j.item.session) /\ phase[p] = "held"
    BY <2>1, <2>2 DEF Task, IsEntry, AtEntry
  <2>5. ws \in Resolvable
    BY <2>4, SessionsResolve
  <2>6. Rebuilds(p) \/ UNCHANGED db
    <3>1. ASSUME NEW q \in Rebuilder, Rebuilds(q) PROVE Rebuilds(p)
      BY <2>1, <2>2, <3>1, RebuilderAssumption, RebuildsAlone
    <3>2. CASE UserDisturbs
      <4>1. job'[p] = [j EXCEPT !.disturbed = Working(p)]
        BY <2>1, <3>2 DEF UserDisturbs
      <4>2. DOMAIN j = DOMAIN NoJob
        BY <2>1 DEF Task
      <4> QED
        BY <2>2, <4>1, <4>2 DEF NoJob
    <3>3. CASE UNCHANGED job
      BY <2>2, <3>3
    <3> QED
      BY <1>1, <3>1, <3>2, <3>3 DEF RebuildNext, jobVars
  <2>7. CASE RegistersSession(p)
    <3>1. j.at = "register" /\ Store!RegisterWorkspace(ws, j.item.digest)
      BY <2>7 DEF RegistersSession, Work
    <3>2. PICK v \in Resolvable :
            v = ws /\ Store!RegisterWorkspace(v, j.item.digest)
      BY <2>5, <3>1
    <3>3. /\ DOMAIN db'.workspaces = DOMAIN db.workspaces \cup {v.id}
          /\ \A w \in DOMAIN db.workspaces :
               w # v.id => db'.workspaces[w] = db.workspaces[w]
      BY <2>1, <3>2, RegistrationWrites
    <3>4. ASSUME v.id \in DOMAIN db.workspaces
          PROVE  db'.workspaces[v.id] = db.workspaces[v.id]
      <4> DEFINE row == db.workspaces[v.id]
      <4>1. /\ row.proposed_session = v.session_name /\ row.desired_digest = CurrentDigest
        BY <2>1, <3>1, <3>2, <3>4 DEF Filled
      <4>2. row.repository_id = v.repository_id /\ row.session = v.session
        BY <2>1, <3>4 DEF StoreSound, Store!IsPlaced
      <4>3. j.item.digest = CurrentDigest
        BY <2>1, <3>1 DEF Task
      <4>4. db'.workspaces[v.id] = Store!Refreshed(row, v, CurrentDigest)
        BY <2>1, <3>2, <3>4, <4>3, RegistrationWrites DEF Store!Known
      <4>5. row \in Store!WorkspaceRow
        BY <2>1, <3>4, Tables
      <4> HIDE DEF row
      <4>6. Store!Refreshed(row, v, CurrentDigest) = row
        BY <4>1, <4>2, <4>5 DEF Store!Refreshed, Store!WorkspaceRow
      <4> QED
        BY <4>4, <4>6 DEF row
    <3> QED
      BY <3>3, <3>4
  <2>8. CASE AdoptsLive(p)
    <3> DEFINE n == j.item.session.name
    <3>1. j.at = "adopt"
      BY <2>8 DEF AdoptsLive, Work
    <3>2. \/ UNCHANGED db
          \/ /\ ws.id \in DOMAIN db.workspaces
             /\ db' = [db EXCEPT !.workspaces[ws.id].actual_session = n]
      BY <2>8 DEF AdoptsLive, Store!AdoptSessionName, Store!Known
    <3>3. CASE /\ ws.id \in DOMAIN db.workspaces
               /\ db' = [db EXCEPT !.workspaces[ws.id].actual_session = n]
      <4>1. db.workspaces[ws.id].actual_session = NULL
        BY <2>1, <3>1, <3>3 DEF Filled
      <4> HIDE DEF ws, n
      <4>2. /\ DOMAIN db'.workspaces = DOMAIN db.workspaces
            /\ \A w \in DOMAIN db.workspaces :
                 w # ws.id => db'.workspaces[w] = db.workspaces[w]
            /\ db'.workspaces[ws.id] = [db.workspaces[ws.id] EXCEPT !.actual_session = n]
        BY <2>1, <3>3, Tables
      <4>3. db.workspaces[ws.id] \in Store!WorkspaceRow
        BY <2>1, <3>3, Tables
      <4>4. db'.workspaces[ws.id].actual_session = n
        BY <4>2, <4>3 DEF Store!WorkspaceRow
      <4> QED
        BY <4>1, <4>2, <4>4
    <3> QED
      BY <2>3, <3>2, <3>3
  <2>9. CASE Rebuilds(p) /\ ~RegistersSession(p) /\ ~AdoptsLive(p)
    <3>1. ~RegistersParent(p) /\ ~DropsVanished(p) /\ ~DropsLinked(p)
      BY <2>2, <2>4 DEF RegistersParent, DropsVanished, DropsLinked, Work
    <3> QED
      BY <2>1, <2>3, <2>9, <3>1, RebuildsTransact
  <2> HIDE DEF Fills
  <2> QED
    BY <2>3, <2>6, <2>7, <2>8, <2>9
<1>2. Ordered /\ Filling /\ [RebuildNext]_jobVars => [\A p \in Rebuilder : Fills(p)]_jobVars
  BY <1>1
<1>3. [][\A p \in Rebuilder : Fills(p)]_jobVars => FillOnly
  BY DEF FillOnly
<1> QED
  BY <1>2, <1>3, RebuildsSoundly, RebuildsFilling, PTL DEF RebuildSpec

-----------------------------------------------------------------------------
(* A settled installation *)

\* A server has finitely many sessions: their numbers are below the next one.
LEMMA FinitelyMany ==
  ASSUME TmuxTyped
  PROVE  IsFiniteSet(tmux.sessions)
<1> DEFINE number == [s \in tmux.sessions |-> s.sid]
<1>1. tmux.next \in Nat /\ \A s \in tmux.sessions : s.sid \in 0 .. tmux.next - 1
  BY DEF TmuxTyped, Numbered, SessionRow
<1>2. number \in Injection(tmux.sessions, 0 .. tmux.next - 1)
  BY <1>1 DEF TmuxTyped, Numbered, Injection, IsInjective
<1>3. IsFiniteSet(0 .. tmux.next - 1)
  BY <1>1, FS_Interval
<1> QED
  BY <1>2, <1>3, FS_Injection

\* A step of a rebuild gives a workspace no session of another name, but for the
\* one it retags under the workspace's lock (internal/tmux, RetagSession).
LEMMA RebuildsClaim ==
  ASSUME Ordered, NEW p \in Rebuilder, Rebuilds(p), NEW w \in LockedID,
         NEW t \in ClaimantsOf(w)'
  PROVE  HasLock(p, w) \/ \E s \in ClaimantsOf(w) : s.name = t.name
<1> DEFINE j == job[p]
           ws == WorkspaceOf(j.item)
<1>1. /\ TmuxTyped /\ Task(j, phase[p], want[p]) /\ p \in Process
  BY RebuilderAssumption DEF Ordered, Sound, Types, TmuxTyped, Jobs, Tasked
<1>2. t \in tmux'.sessions /\ t.keys.id = w
  BY DEF ClaimantsOf, Plan!Claims
<1>3. CASE t \in tmux.sessions
  BY <1>2, <1>3 DEF ClaimantsOf, Plan!Claims
<1>4. CASE TagsRoot(p)
  <2>1. ASSUME NEW s \in tmux.sessions,
               Retagged(s, [s EXCEPT !.keys.place =
                              IF @ = NULL THEN NULL ELSE <<ws.repo_root, @[2]>>])
        PROVE  \E r \in ClaimantsOf(w) : r.name = t.name
    <3> DEFINE place == IF s.keys.place = NULL THEN NULL
                        ELSE <<ws.repo_root, s.keys.place[2]>>
               u == [s EXCEPT !.keys.place = place]
    <3>1. s \in SessionRow
      BY <1>1 DEF TmuxTyped
    <3>2. u.name = s.name /\ u.keys.id = s.keys.id
      <4> HIDE DEF place
      <4> QED
        BY <3>1 DEF SessionRow
    <3>3. tmux'.sessions = (tmux.sessions \ {s}) \cup {u}
      BY <1>1, <2>1 DEF Retagged, TmuxTyped
    <3> HIDE DEF u
    <3>4. t \in tmux.sessions \/ t = u
      BY <1>2, <3>3
    <3> QED
      BY <1>2, <1>3, <3>2, <3>4 DEF ClaimantsOf, Plan!Claims
  <2> QED
    BY <1>2, <1>3, <1>4, <2>1 DEF TagsRoot, NamedAs
<1>5. CASE TagsID(p)
  <2>1. j.at = "tag id" /\ phase[p] = "held"
    BY <1>5 DEF TagsID, Work
  <2>2. want[p] = OfWorkspace(ws)
    BY <1>1, <2>1 DEF Task, AtEntry
  <2>3. ASSUME NEW s \in tmux.sessions, Retagged(s, [s EXCEPT !.keys.id = ws.id])
        PROVE  t \in tmux.sessions \/ ws.id = w
    <3> DEFINE u == [s EXCEPT !.keys.id = ws.id]
    <3>1. s \in SessionRow
      BY <1>1 DEF TmuxTyped
    <3>2. u.keys.id = ws.id
      <4> HIDE DEF ws
      <4> QED
        BY <3>1 DEF SessionRow
    <3>3. tmux'.sessions = (tmux.sessions \ {s}) \cup {u}
      BY <1>1, <2>3 DEF Retagged, TmuxTyped
    <3> HIDE DEF u
    <3>4. t \in tmux.sessions \/ t = u
      BY <1>2, <3>3
    <3> QED
      BY <1>2, <3>2, <3>4
  <2>4. t \in tmux.sessions \/ ws.id = w
    BY <1>2, <1>5, <2>3 DEF TagsID, NamedAs
  <2> HIDE DEF ws
  <2>5. want[p].workspace = ws.id
    BY <2>2 DEF OfWorkspace
  <2> QED
    BY <1>3, <2>1, <2>4, <2>5 DEF HasLock
<1>6. CASE ~TagsRoot(p) /\ ~TagsID(p)
  <2>1. UNCHANGED tmux
    BY <1>6 DEF Rebuilds, Lists, ReadsRepositories, DropsVanished, BeginsCollapse,
       RegistersParent, DropsLinked, PlansRetags, BeginsRetag, ReadsRecords,
       BeginsApply, ObservesLive, Rereads, RegistersSession, AdoptsLive, ItemFails,
       WaitsForItem, SkipsItem, ReleasesItem, Reports, Exits, Dies, Begins
  <2> QED
    BY <1>2, <1>3, <2>1
<1> QED
  BY <1>4, <1>5, <1>6

\* Nor does a command, but for the session an open creates under the allocated
\* name (internal/controller/ensure.go, createSession).
LEMMA CommandsClaim ==
  ASSUME Ordered, NEW p \in Process, Runs(p), NEW w \in LockedID,
         NEW t \in ClaimantsOf(w)'
  PROVE  \/ \E s \in ClaimantsOf(w) : s.name = t.name
         \/ /\ at[p] = "create" /\ cmd[p].op = "open" /\ phase[p] = "held"
            /\ cmd[p].ws.id = w /\ t.name = snap[p].name
<1>1. /\ TmuxTyped /\ Sound
  BY DEF Ordered, Sound, Types, TmuxTyped
<1>2. t \in tmux'.sessions /\ t.keys.id = w
  BY DEF ClaimantsOf, Plan!Claims
<1>3. CASE t \in tmux.sessions
  BY <1>2, <1>3 DEF ClaimantsOf, Plan!Claims
<1>4. CASE Call(p) \/ CallFails(p)
  <2>1. CASE UNCHANGED tmux
    BY <1>2, <1>3, <2>1
  <2>2. ASSUME NEW s, Removed(s)
        PROVE  t \in tmux.sessions
    BY <1>1, <1>2, <2>2, RemovedTyped
  <2>3. CASE /\ Creates(p) /\ cmd[p].op = "open" /\ at[p] = "create"
             /\ Plan!KeysOf(cmd[p].ws) \in SessionKeys
             /\ Added(snap[p].name, Plan!KeysOf(cmd[p].ws))
    <3>1. tmux'.sessions = tmux.sessions
            \cup {[sid |-> tmux.next, name |-> snap[p].name,
                   keys |-> Plan!KeysOf(cmd[p].ws)]}
      BY <1>1, <2>3, AddedTyped
    <3>2. phase[p] = "held"
      BY <2>3 DEF Creates, Answers, Step
    <3> QED
      BY <1>2, <1>3, <2>3, <3>1, <3>2 DEF Plan!KeysOf
  <2> QED
    BY <1>1, <1>3, <1>4, <2>1, <2>2, <2>3, CallsOnTmux
<1>5. CASE Starts(p) \/ TakesLock(p) \/ GivesUp(p) \/ Releases(p) \/ Crashes(p)
  <2>1. UNCHANGED tmux
    BY <1>5, OthersLeaveWorld
  <2> QED
    BY <1>2, <1>3, <2>1
<1> QED
  BY <1>4, <1>5 DEF Runs

\* Nor does a user who renames no session.
LEMMA UsersClaim ==
  ASSUME Ordered, User, "rename" \notin Disturbances, NEW w \in LockedID,
         NEW t \in ClaimantsOf(w)'
  PROVE  \E s \in ClaimantsOf(w) : s.name = t.name
<1>1. TmuxTyped /\ w # NULL
  BY LockKeysAssumption DEF Ordered, Sound, Types, TmuxTyped
<1>2. t \in tmux'.sessions /\ t.keys.id = w
  BY DEF ClaimantsOf, Plan!Claims
<1>3. CASE t \in tmux.sessions
  BY <1>2, <1>3 DEF ClaimantsOf, Plan!Claims
<1>4. CASE UserKills
  <2>1. PICK s \in tmux.sessions : tmux' = WithoutSession(s)
    BY <1>4 DEF UserKills
  <2> QED
    BY <1>2, <1>3, <2>1 DEF WithoutSession
<1>5. CASE UserOccupies
  <2>1. PICK n \in Name : tmux' = WithSession(n, Plan!NoKeys)
    BY <1>5 DEF UserOccupies
  <2>2. tmux'.sessions = tmux.sessions
          \cup {[sid |-> tmux.next, name |-> n, keys |-> Plan!NoKeys]}
    BY <2>1 DEF WithSession
  <2> QED
    BY <1>1, <1>2, <1>3, <2>2 DEF Plan!NoKeys
<1>6. CASE UserRetags
  <2>1. PICK s \in tmux.sessions :
          tmux' = [tmux EXCEPT !.sessions =
                     (@ \ {s}) \cup {[s EXCEPT !.keys.place = NULL]}]
    BY <1>6 DEF UserRetags
  <2> DEFINE u == [s EXCEPT !.keys.place = NULL]
  <2>2. u.name = s.name /\ u.keys.id = s.keys.id
    BY <1>1 DEF TmuxTyped, SessionRow
  <2>3. t \in tmux.sessions \/ t = u
    BY <1>1, <1>2, <2>1 DEF TmuxTyped
  <2> HIDE DEF u
  <2> QED
    BY <1>2, <1>3, <2>2, <2>3 DEF ClaimantsOf, Plan!Claims
<1>7. CASE UserActsOnDocker \/ UserLosesDatabase
  BY <1>2, <1>3, <1>7 DEF UserActsOnDocker, UserLosesDatabase
<1> QED
  BY <1>4, <1>5, <1>6, <1>7 DEF User, UserRenames, ByHand

\* The open that p runs goes on to adopt the live session it saw.
Adopting(p) ==
  /\ cmd[p] # NULL /\ cmd[p].op = "open" /\ snap[p].live # NULL
  /\ \/ at[p] = "probe" /\ snap[p].state = "live"
     \/ at[p] \in {"reprobe", "up", "upping", "adopt"}

\* Whatever claims the open's workspace has the name it saw; and the name it is
\* about to create a session under is recorded.
Fits(p) ==
  /\ Adopting(p) => \A s \in ClaimantsOf(cmd[p].ws.id) : s.name = snap[p].live.name
  /\ cmd[p] # NULL /\ cmd[p].op = "open" /\ at[p] \in {"occupant", "create"}
       => RowOf(cmd[p].ws).actual_session = snap[p].name

\* An open past its registration has the lock of its workspace, and a row.
LEMMA OpensHoldTheirs ==
  ASSUME Sound, NEW p \in Process, cmd[p] # NULL, cmd[p].op = "open",
         at[p] \notin {"register", "read", "ok", "error"}
  PROVE  /\ at[p] # "over" /\ cmd[p].ws \in Resolvable /\ cmd[p].ws.id \in LockedID
         /\ Store!Known(cmd[p].ws.id) /\ HasLock(p, cmd[p].ws.id)
<1>1. Prepared(p)
  BY DEF Sound
<1>2. at[p] # "over"
  BY <1>1 DEF Prepared
<1>3. cmd[p].ws \in Resolvable /\ want[p] = FootprintOf(cmd[p])
  BY <1>2, AtWork
<1>4. want[p].workspace = cmd[p].ws.id
  BY <1>3 DEF FootprintOf
<1> QED
  BY <1>1, <1>2, <1>3, <1>4 DEF Prepared, HasLock, LockedID

\* An open comes to adopt what it has just seen, which alone claims its
\* workspace, and keeps to it (ensure.go, plan.go).
LEMMA OpensAdopt ==
  ASSUME Sound, NEW p \in Process, Call(p) \/ CallFails(p), Adopting(p)'
  PROVE  /\ UNCHANGED <<db, tmux, cmd>>
         /\ \/ /\ snap'[p].live \in ClaimantsOf(cmd[p].ws.id)
               /\ ~(Cardinality(ClaimantsOf(cmd[p].ws.id)) > 1)
            \/ Adopting(p) /\ snap'[p].live = snap[p].live
<1>1. Moved(p) /\ at[p] # "over" /\ cmd[p] # NULL
  BY CallsMove, AtWork DEF Moved
<1>2. /\ cmd' = cmd /\ cmd[p].op = "open" /\ snap'[p].live # NULL
      /\ \/ at'[p] = "probe" /\ snap'[p].state = "live"
         \/ at'[p] \in {"reprobe", "up", "upping", "adopt"}
  BY <1>1 DEF Moved, Adopting
<1>3. CASE OpenLooks(p)
  <2> DEFINE view == TmuxView(cmd[p].ws.id, CandidateNames(cmd[p].ws, snap[p].stored))
  <2>1. /\ UNCHANGED <<db, tmux>>
        /\ snap'[p].live = view.live /\ view.state = "live"
    BY <1>2, <1>3, OpenLooksMove
  <2>2. /\ view.live \in ClaimantsOf(cmd[p].ws.id)
        /\ ~(Cardinality(ClaimantsOf(cmd[p].ws.id)) > 1)
    BY <2>1, Views DEF Sound
  <2> QED
    BY <1>2, <2>1, <2>2
<1>4. CASE Reprobes(p) \/ BeginsUp(p) \/ EndsUp(p)
  <2>1. /\ snap'[p].live = snap[p].live /\ at[p] \in {"reprobe", "up", "upping"}
        /\ UNCHANGED <<db, tmux>>
    BY <1>4, ReprobesMove, BeginsUpMove, EndsUpMove DEF BeginsUp
  <2> QED
    BY <1>1, <1>2, <2>1 DEF Adopting
<1>5. CASE Probes(p)
  <2>1. /\ at[p] = "probe" /\ snap[p] \in SnapRow /\ UNCHANGED <<db, tmux>>
        /\ snap'[p].session = Plan!SessionAction(snap[p], cmd[p].ws)
        /\ snap'[p].live = IF snap'[p].session = "adopt" THEN snap[p].live ELSE NULL
    BY <1>1, <1>2, <1>5, ProbesMove, AtWork
  <2>2. snap'[p].session = "adopt" /\ snap'[p].live = snap[p].live
    BY <1>2, <2>1
  <2>3. snap[p].state = "live"
    BY <2>1, <2>2 DEF Plan!SessionAction
  <2> QED
    BY <1>1, <1>2, <2>1, <2>2, <2>3 DEF Adopting
<1>6. CASE Allocates(p)
  BY <1>2, <1>6, AllocatesMove
<1>7. CASE \/ Registers(p) \/ Binds(p) \/ Reads(p) \/ Adopts(p) \/ Creates(p)
           \/ LooksForOccupant(p) \/ Confirms(p) \/ Commits(p) \/ RecordsFailure(p)
           \/ CallFails(p)
  <2>1. at'[p] \in {"read", "bind", "ok", "fail", "error", "look", "siblings",
                    "register", "commit", "create", "confirm"}
    BY <1>7, StoreCallsMove, ReadsMove, SessionCallsMove
  <2> QED
    BY <1>2, <2>1
<1>8. CASE \/ ReadsRepository(p) \/ ChecksSiblings(p) \/ StopLooks(p) \/ Kills(p)
           \/ StopsContainer(p) \/ RecordsBinding(p)
  BY <1>2, <1>8 DEF ReadsRepository, ChecksSiblings, StopLooks, Kills, StopsContainer,
     RecordsBinding, Step, Answers
<1> QED
  BY <1>3, <1>4, <1>5, <1>6, <1>7, <1>8 DEF Call

\* It comes to create under what it has just recorded (ensure.go, createSession).
LEMMA OpensName ==
  ASSUME Sound, NEW p \in Process, Call(p) \/ CallFails(p), Fits(p),
         cmd[p].op = "open", at'[p] \in {"occupant", "create"}
  PROVE  RowOf(cmd[p].ws)'.actual_session = snap'[p].name
<1>1. Moved(p) /\ at[p] # "over" /\ cmd[p] # NULL
  BY CallsMove, AtWork DEF Moved
<1>2. cmd' = cmd /\ cmd[p].ws \in Resolvable
  BY <1>1, AtWork DEF Moved
<1>3. CASE Allocates(p)
  <2> DEFINE id == cmd[p].ws.id
             name == snap'[p].name
  <2>1. Store!AllocateSessionName(id, name) /\ name # NULL
    BY <1>3, AllocatesMove
  <2>2. CASE UNCHANGED db /\ name = db.workspaces[id].actual_session
    BY <1>2, <2>2 DEF RowOf
  <2>3. CASE db' = [db EXCEPT !.workspaces[id].actual_session = name]
    <3>1. id \in DOMAIN db.workspaces
      BY <2>1 DEF Store!AllocateSessionName, Store!Known
    <3> HIDE DEF id, name
    <3>2. db'.workspaces[id] = [db.workspaces[id] EXCEPT !.actual_session = name]
      BY <2>3, <3>1, Tables
    <3>3. db.workspaces[id] \in Store!WorkspaceRow
      BY <3>1, Tables
    <3>4. db'.workspaces[id].actual_session = name
      BY <3>2, <3>3 DEF Store!WorkspaceRow
    <3> QED
      BY <1>2, <3>4 DEF RowOf, id, name
  <2> QED
    BY <2>1, <2>2, <2>3 DEF Store!AllocateSessionName
<1>4. CASE LooksForOccupant(p)
  <2>1. at[p] = "occupant" /\ UNCHANGED <<db, snap>>
    BY <1>4, Stepped DEF LooksForOccupant
  <2> QED
    BY <1>1, <1>2, <2>1 DEF Fits, RowOf
<1>5. CASE Probes(p) \/ Reprobes(p) \/ BeginsUp(p) \/ EndsUp(p) \/ OpenLooks(p)
  <2>1. at'[p] \notin {"occupant", "create"}
    <3>1. CASE Probes(p)
      BY <3>1, ProbesMove DEF ProbePlaces
    <3>2. CASE Reprobes(p)
      BY <3>2, ReprobesMove DEF ProbePlaces
    <3>3. CASE BeginsUp(p) \/ OpenLooks(p)
      BY <3>3, BeginsUpMove, OpenLooksMove
    <3>4. CASE EndsUp(p)
      BY <3>4, EndsUpMove DEF ProbePlaces
    <3> QED
      BY <1>5, <3>1, <3>2, <3>3, <3>4
  <2> QED
    BY <2>1
<1>6. CASE \/ Registers(p) \/ Binds(p) \/ Reads(p) \/ Adopts(p) \/ Creates(p)
           \/ Confirms(p) \/ Commits(p) \/ RecordsFailure(p) \/ CallFails(p)
  <2>1. at'[p] \notin {"occupant", "create"}
    BY <1>6, StoreCallsMove, ReadsMove, SessionCallsMove
       DEF Adopts, Creates, Confirms, Step, Answers
  <2> QED
    BY <2>1
<1>7. CASE \/ ReadsRepository(p) \/ ChecksSiblings(p) \/ StopLooks(p) \/ Kills(p)
           \/ StopsContainer(p) \/ RecordsBinding(p)
  BY <1>7 DEF ReadsRepository, ChecksSiblings, StopLooks, Kills, StopsContainer,
     RecordsBinding, Step, Answers
<1> QED
  BY <1>3, <1>4, <1>5, <1>6, <1>7 DEF Call

\* So what it relies on is there when it comes to rely on it.
LEMMA OpensFit ==
  ASSUME Sound, NEW p \in Process, Call(p) \/ CallFails(p), Fits(p)
  PROVE  Fits(p)'
<1>1. Moved(p) /\ TmuxTyped /\ cmd' = cmd
  BY CallsMove DEF Moved, Sound, Types, TmuxTyped
<1>2. ASSUME Adopting(p)', NEW s \in ClaimantsOf(cmd[p].ws.id)'
      PROVE  s.name = snap'[p].live.name
  <2>1. /\ UNCHANGED <<db, tmux, cmd>>
        /\ \/ /\ snap'[p].live \in ClaimantsOf(cmd[p].ws.id)
              /\ ~(Cardinality(ClaimantsOf(cmd[p].ws.id)) > 1)
           \/ Adopting(p) /\ snap'[p].live = snap[p].live
    BY <1>2, OpensAdopt
  <2>2. s \in ClaimantsOf(cmd[p].ws.id)
    BY <1>2, <2>1 DEF ClaimantsOf
  <2>3. IsFiniteSet(ClaimantsOf(cmd[p].ws.id))
    BY <1>1, FinitelyMany, FS_Subset DEF ClaimantsOf
  <2> QED
    BY <2>1, <2>2, <2>3, NotTwo DEF Fits
<1>3. cmd[p].op = "open" /\ at'[p] \in {"occupant", "create"}
        => RowOf(cmd[p].ws)'.actual_session = snap'[p].name
  BY OpensName
<1> QED
  BY <1>1, <1>2, <1>3 DEF Fits

\* A recorded name survives whoever has no lock on it (internal/state, the
\* upsert of RegisterWorkspace leaves actual_session out).
LEMMA WritersSpareNames ==
  ASSUME Ordered, NEW p \in Process, WrittenBy(p), NEW v \in Resolvable,
         Store!Known(v.id), Store!Known(v.id)', ~HasLock(p, v.id),
         RowOf(v).actual_session # NULL
  PROVE  RowOf(v)'.actual_session = RowOf(v).actual_session
<1>1. CASE \E ws \in Resolvable, d \in Digest : Store!RegisterWorkspace(ws, d)
  <2>1. Notes
    BY <1>1 DEF Notes, Store!Register
  <2> QED
    BY <2>1, TransactionNames DEF Ordered, Sound
<1>2. CASE \E ws \in Resolvable : HasLock(p, ws.id) /\ WritesRow(ws)
  <2>1. PICK ws \in Resolvable : HasLock(p, ws.id) /\ WritesRow(ws)
    BY <1>2
  <2>2. v.id # ws.id
    BY <2>1
  <2> QED
    BY <2>1, <2>2 DEF WritesRow, RowOf, Store!Known
<1>3. CASE OnlyDrops
  BY <1>3 DEF OnlyDrops, RowOf, Store!Known
<1> QED
  BY <1>1, <1>2, <1>3 DEF WrittenBy

\* What an open came to rely on outlasts a step that changes nothing of it.
LEMMA FitsKept ==
  ASSUME NEW q, Fits(q), UNCHANGED <<cmd[q], at[q], snap[q]>>,
         NEW w, Adopting(q) /\ cmd[q].ws.id = w =>
                  \A t \in ClaimantsOf(w)' : \E s \in ClaimantsOf(w) : s.name = t.name,
         Adopting(q) => cmd[q].ws.id = w,
         NEW v, cmd[q] # NULL /\ cmd[q].op = "open" /\ at[q] \in {"occupant", "create"}
                  => /\ cmd[q].ws = v
                     /\ RowOf(v)'.actual_session = RowOf(v).actual_session
  PROVE  Fits(q)'
<1>1. Adopting(q)' <=> Adopting(q)
  BY DEF Adopting
<1>2. ASSUME Adopting(q)
      PROVE  \A t \in ClaimantsOf(cmd[q].ws.id)' : t.name = snap'[q].live.name
  <2>1. cmd'[q].ws.id = w /\ cmd[q].ws.id = w
    BY <1>2
  <2>2. ClaimantsOf(cmd[q].ws.id)' = ClaimantsOf(w)'
    BY <2>1 DEF ClaimantsOf
  <2> QED
    BY <1>2, <2>1, <2>2 DEF Fits
<1>3. ASSUME cmd[q] # NULL, cmd[q].op = "open", at[q] \in {"occupant", "create"}
      PROVE  RowOf(cmd[q].ws)'.actual_session = snap'[q].name
  <2>1. RowOf(v).actual_session = snap[q].name
    BY <1>3 DEF Fits
  <2>2. RowOf(cmd[q].ws)' = RowOf(v)'
    BY <1>3 DEF RowOf
  <2> QED
    BY <1>3, <2>1, <2>2
<1> QED
  BY <1>1, <1>2, <1>3 DEF Fits

\* No other process, of a command or of a rebuild, comes between an open's look
\* and what it does about it (ensure.go, rebuild/apply.go: both hold the lock of
\* the workspace).
LEMMA OthersFit ==
  ASSUME Ordered, Ordered', NEW q \in Process, Fits(q), NEW p \in Process, p # q,
         \/ p \in Rebuilder /\ Rebuilds(p)
         \/ p \notin Rebuilder /\ Runs(p)
  PROVE  Fits(q)'
<1> DEFINE Relies == /\ cmd[q] # NULL /\ cmd[q].op = "open"
                     /\ Adopting(q) \/ at[q] \in {"occupant", "create"}
<1>1. Sound /\ Sound' /\ Jobs /\ Locks!TypeOK
  BY DEF Ordered
<1>2. UNCHANGED <<cmd[q], at[q], snap[q]>>
  <2>1. CASE p \in Rebuilder /\ Rebuilds(p)
    BY <2>1, RebuildsLeaveCommands
  <2>2. CASE Call(p) \/ CallFails(p)
    <3>1. Moved(p)
      BY <1>1, <2>2, CallsMove
    <3>2. /\ at' = [at EXCEPT ![p] = at'[p]] /\ snap' = [snap EXCEPT ![p] = snap'[p]]
          /\ cmd' = cmd
      BY <3>1 DEF Moved
    <3> QED
      BY <1>1, <3>2 DEF Sound, Types
  <2>3. CASE Starts(p) \/ TakesLock(p) \/ GivesUp(p) \/ Releases(p) \/ Crashes(p)
    BY <1>1, <2>3 DEF Starts, TakesLock, GivesUp, Releases, Crashes, Forgets, Goto,
       Sound, Types
  <2> QED
    BY <2>1, <2>2, <2>3 DEF Runs
<1>3. ASSUME Relies
      PROVE  /\ cmd[q].ws \in Resolvable /\ cmd[q].ws.id \in LockedID
             /\ Store!Known(cmd[q].ws.id) /\ ~HasLock(p, cmd[q].ws.id)
             /\ \A t : HasLock(t, cmd[q].ws.id) /\ t \in Process => t = q
  <2>1. at[q] \notin {"register", "read", "ok", "error"}
    BY <1>3 DEF Adopting
  <2>2. /\ cmd[q].ws \in Resolvable /\ cmd[q].ws.id \in LockedID
        /\ Store!Known(cmd[q].ws.id) /\ HasLock(q, cmd[q].ws.id)
    BY <1>1, <1>3, <2>1, OpensHoldTheirs
  <2> QED
    BY <2>2, LocksApart
<1>4. ASSUME NEW w \in LockedID, Adopting(q), cmd[q].ws.id = w, NEW t \in ClaimantsOf(w)'
      PROVE  \E s \in ClaimantsOf(w) : s.name = t.name
  <2>1. ~HasLock(p, w)
    BY <1>3, <1>4 DEF Adopting
  <2>2. CASE p \in Rebuilder /\ Rebuilds(p)
    BY <1>4, <2>1, <2>2, RebuildsClaim
  <2>3. CASE Runs(p)
    <3>1. CASE at[p] = "create" /\ cmd[p].op = "open" /\ cmd[p].ws.id = w
      <4>1. cmd[p] # NULL
        BY <1>1, <3>1 DEF Sound, Prepared
      <4> QED
        BY <1>1, <2>1, <3>1, <4>1, OpensHoldTheirs
    <3> QED
      BY <1>4, <2>3, <3>1, CommandsClaim
  <2> QED
    BY <2>2, <2>3
<1>5. ASSUME NEW v \in Resolvable, cmd[q] # NULL, cmd[q].op = "open",
             at[q] \in {"occupant", "create"}, cmd[q].ws = v
      PROVE  RowOf(v)'.actual_session = RowOf(v).actual_session
  <2>1. WrittenBy(p)
    BY RebuildsWrite, CommandsWrite
  <2>2. Store!Known(v.id) /\ ~HasLock(p, v.id)
    BY <1>3, <1>5
  <2>3. Store!Known(v.id)'
    <3>1. Prepared(q)'
      BY <1>1 DEF Sound
    <3>2. cmd'[q].ws.id \in DOMAIN db'.workspaces
      BY <1>2, <1>5, <3>1 DEF Prepared, Store!Known
    <3> QED
      BY <1>2, <1>5, <3>2 DEF Store!Known
  <2>4. snap[q].name \in Name
    BY <1>1, <1>5, AtWork DEF Has
  <2>5. RowOf(v).actual_session # NULL
    BY <1>5, <2>4, StoreAssumption DEF Fits, Store!NullIsNoValue
  <2> QED
    BY <2>1, <2>2, <2>3, <2>5, WritersSpareNames
<1>6. CASE Relies
  <2>1. PICK v \in Resolvable : v = cmd[q].ws
    BY <1>3, <1>6
  <2>2. PICK w \in LockedID : w = cmd[q].ws.id
    BY <1>3, <1>6
  <2> QED
    BY <1>2, <1>4, <1>5, <2>1, <2>2, FitsKept
<1>7. CASE ~Relies
  BY <1>2, <1>7 DEF Fits, Adopting
<1> QED
  BY <1>6, <1>7

\* Nor does a user, who may kill the session but renames none.
LEMMA UsersFit ==
  ASSUME Ordered, NEW q \in Process, Fits(q), User, "rename" \notin Disturbances
  PROVE  Fits(q)'
<1>1. UNCHANGED <<cmd, at, snap>> /\ Sound
  BY DEF Ordered, User, UserKills, UserRenames, UserOccupies, UserRetags,
     UserActsOnDocker, UserLosesDatabase, ByHand
<1>2. CASE /\ cmd[q] # NULL /\ cmd[q].op = "open"
           /\ Adopting(q) \/ at[q] \in {"occupant", "create"}
  <2>1. at[q] \notin {"register", "read", "ok", "error"}
    BY <1>2 DEF Adopting
  <2>2. /\ cmd[q].ws \in Resolvable /\ cmd[q].ws.id \in LockedID
        /\ HasLock(q, cmd[q].ws.id)
    BY <1>1, <1>2, <2>1, OpensHoldTheirs
  <2>3. PICK v \in Resolvable : v = cmd[q].ws
    BY <2>2
  <2>4. PICK w \in LockedID : w = cmd[q].ws.id
    BY <2>2
  <2>5. \A t \in ClaimantsOf(w)' : \E s \in ClaimantsOf(w) : s.name = t.name
    BY UsersClaim
  <2>6. UNCHANGED db
    BY <1>1, <2>2, UsersKeepCommands DEF UserLosesDatabase, Active, HasLock
  <2>7. RowOf(v)' = RowOf(v)
    BY <2>6 DEF RowOf
  <2> QED
    BY <1>1, <2>3, <2>4, <2>5, <2>7, FitsKept
<1>3. CASE ~(/\ cmd[q] # NULL /\ cmd[q].op = "open"
             /\ Adopting(q) \/ at[q] \in {"occupant", "create"})
  BY <1>1, <1>3 DEF Fits, Adopting
<1> QED
  BY <1>2, <1>3

\* What a process itself does next keeps to it.
LEMMA RunsFit ==
  ASSUME Ordered, NEW p \in Process, Fits(p), Runs(p)
  PROVE  Fits(p)'
<1>1. /\ Sound /\ cmd \in [Process -> Commands \cup {NULL}]
      /\ at \in [Process -> Places] /\ snap \in [Process -> SnapRow]
  BY DEF Ordered, Sound, Types
<1>2. CASE Call(p) \/ CallFails(p)
  BY <1>1, <1>2, OpensFit
<1>3. CASE UNCHANGED <<db, tmux, cmd, at, snap>>
  BY <1>3 DEF Fits, Adopting, ClaimantsOf, RowOf
<1>4. CASE Starts(p)
  <2>1. at'[p] \in {"register", "read"}
    BY <1>1, <1>4 DEF Starts, Goto, Entry
  <2> QED
    BY <2>1 DEF Fits, Adopting
<1>5. CASE Forgets(p)
  <2>1. cmd'[p] = NULL
    BY <1>1, <1>5 DEF Forgets
  <2> QED
    BY <2>1 DEF Fits, Adopting
<1>6. CASE TakesLock(p) \/ GivesUp(p) \/ Releases(p) \/ Crashes(p)
  BY <1>3, <1>5, <1>6 DEF TakesLock, GivesUp, Releases, Crashes
<1> QED
  BY <1>2, <1>4, <1>6 DEF Runs

\* So it is of every open, while no session is renamed.
LEMMA FitStays ==
  ASSUME Ordered, Ordered', [RebuildNext]_jobVars, "rename" \notin Disturbances,
         \A q \in Process : Fits(q)
  PROVE  \A q \in Process : Fits(q)'
<1> SUFFICES ASSUME NEW q \in Process PROVE Fits(q)'
  OBVIOUS
<1>1. ASSUME NEW p \in Rebuilder, Rebuilds(p)
      PROVE  Fits(q)'
  <2>1. CASE q = p
    <3>1. cmd[q] = NULL /\ cmd' = cmd
      BY <1>1, <2>1, RebuildsLeaveCommands DEF Ordered, Jobs, Tasked
    <3> QED
      BY <3>1 DEF Fits, Adopting
  <2>2. CASE q # p
    BY <1>1, <2>2, RebuilderAssumption, OthersFit
  <2> QED
    BY <2>1, <2>2
<1>2. ASSUME NEW p \in Process \ Rebuilder, Runs(p)
      PROVE  Fits(q)'
  BY <1>2, OthersFit, RunsFit
<1>3. CASE UserDisturbs
  BY <1>3, UsersFit DEF UserDisturbs
<1>4. CASE Rests \/ UNCHANGED jobVars
  BY <1>4 DEF Rests, jobVars, vars, Fits, Adopting, ClaimantsOf, RowOf
<1> QED
  BY <1>1, <1>2, <1>3, <1>4 DEF RebuildNext

\* Session s is the recorded one of the workspace it resolves to, the only one
\* that claims it, and no open is about to record another.
IsSettled(s) ==
  LET ws == WorkspaceOf(s)
  IN /\ Belonging(s) /\ Plan!SessionBelongsTo(s, ws) /\ IsRecorded(s)
     /\ \A t \in ClaimantsOf(ws.id) : t.name = s.name
     /\ \A q \in Process : Adopting(q) /\ cmd[q].ws.id = ws.id
          => snap[q].live.name = s.name

AtMains ==
  \A r \in DOMAIN db.repositories :
    MainOf[db.repositories[r].repo_root] = db.repositories[r].repo_root

\* A rebuild that found nothing to do has found nothing since.
Calm(j) ==
  /\ "conflict" \notin j.flaws /\ j.todo = {}
  /\ j.at \in {"repositories", "collapse", "retag", "apply", "done"}
  /\ \A s \in j.live : IsSettled(s)
  /\ \A s, t \in j.live : s.name = t.name => s = t
  /\ AtMains

Quiet(p) ==
  /\ job[p].at = "off" => ~job[p].settled
  /\ job[p].settled /\ ~job[p].disturbed => Calm(job[p])

\* An installation where there is nothing to do lists as settled.
LEMMA ListsSettled ==
  ASSUME Ordered, AllSettled, \A q \in Process : Fits(q), NEW s \in Claiming
  PROVE  IsSettled(s)
<1> DEFINE ws == WorkspaceOf(s)
<1>1. s \in SessionRow /\ s \in tmux.sessions
  BY DEF Ordered, Sound, Types, Claiming
<1>2. Belonging(s) /\ Plan!SessionBelongsTo(s, ws) /\ IsRecorded(s)
  BY <1>1 DEF AllSettled, Belonging
<1>3. s.keys.id = ws.id /\ ws.id # NULL
  BY <1>2 DEF Claiming, Plan!SessionBelongsTo, Plan!KeysOf
<1>4. ASSUME NEW t \in ClaimantsOf(ws.id)
      PROVE  t.name = s.name
  <2>1. t \in Claiming /\ t.keys.id = ws.id
    BY <1>3 DEF ClaimantsOf, Claiming, Plan!Claims
  <2>2. Plan!SessionBelongsTo(t, WorkspaceOf(t)) /\ IsRecorded(t)
    BY <2>1 DEF AllSettled
  <2>3. WorkspaceOf(t).id = ws.id
    BY <2>1, <2>2 DEF Plan!SessionBelongsTo, Plan!KeysOf
  <2> HIDE DEF ws
  <2> QED
    BY <1>2, <2>2, <2>3 DEF IsRecorded, RowOf, ws
<1>5. ASSUME NEW q \in Process, Adopting(q), cmd[q].ws.id = ws.id
      PROVE  snap[q].live.name = s.name
  <2>1. s \in ClaimantsOf(cmd[q].ws.id)
    BY <1>1, <1>3, <1>5 DEF ClaimantsOf, Plan!Claims
  <2> QED
    BY <1>5, <2>1 DEF Fits
<1> QED
  BY <1>2, <1>4, <1>5 DEF IsSettled

\* Two sessions of a settled list have different workspaces and different IDs.
LEMMA SettledApart ==
  ASSUME NEW j, Calm(j), NEW s \in j.live, NEW t \in j.live,
         s.keys.id = t.keys.id \/ WorkspaceOf(s) = WorkspaceOf(t)
  PROVE  s = t
<1>1. ASSUME NEW r \in j.live
      PROVE  /\ r.keys.id = WorkspaceOf(r).id
             /\ RowOf(WorkspaceOf(r)).actual_session = r.name
  <2>1. IsSettled(r)
    BY DEF Calm
  <2> QED
    BY <2>1 DEF IsSettled, IsRecorded, Plan!SessionBelongsTo, Plan!KeysOf
<1>2. WorkspaceOf(s).id = WorkspaceOf(t).id
  BY <1>1
<1>3. s.name = t.name
  BY <1>1, <1>2 DEF RowOf
<1> QED
  BY <1>3 DEF Calm

\* The records agree with each of them (rebuild/classify.go).
LEMMA SettledCases ==
  ASSUME Ordered, NEW j, Calm(j), NEW s \in j.live
  PROVE  CaseOf(s, j.live, db) = "settled"
<1> DEFINE ws == WorkspaceOf(s)
           id == s.keys.id
           row == db.workspaces[id]
           owners == {w \in DOMAIN db.workspaces : db.workspaces[w].actual_session = s.name}
<1>1. StoreSound
  BY DEF Ordered, Sound
<1>2. Belonging(s) /\ s.keys = Plan!KeysOf(ws) /\ IsRecorded(s)
  BY DEF Calm, IsSettled, Plan!SessionBelongsTo
<1>3. /\ id = ws.id /\ s.keys.place = <<ws.repo_root, ws.session>> /\ ws \in Resolvable
  BY <1>2, SessionsResolve DEF Plan!KeysOf
<1>4. id \in DOMAIN db.workspaces /\ row.actual_session = s.name
  BY <1>2, <1>3 DEF IsRecorded, RowOf, Store!Known
<1>5. \A t \in j.live \ {s} : t.keys.id # id
  BY SettledApart
<1>6. s.name # NULL
  <2>1. s.name \in Name
    BY <1>2 DEF Belonging, SessionRow
  <2> QED
    BY <2>1, StoreAssumption DEF Store!NullIsNoValue
<1>7. owners \ {id} = {}
  BY <1>1, <1>4, <1>6 DEF StoreSound, Store!Integrity, Store!IsIntact
<1>8. PlaceOf(db, row) = s.keys.place
  <2>1. row.repository_id = ws.repository_id /\ row.session = ws.session
    BY <1>1, <1>3, <1>4 DEF StoreSound, Store!IsPlaced
  <2>2. ws.repository_id \in DOMAIN db.repositories
    BY <1>1, <1>4, <2>1 DEF StoreSound, Store!Integrity, Store!IsIntact
  <2>3. db.repositories[ws.repository_id].repo_root = ws.repo_root
    BY <1>1, <1>3, <2>2 DEF StoreSound, Store!IsPlaced
  <2> HIDE DEF row, ws
  <2> QED
    BY <1>3, <2>1, <2>3 DEF PlaceOf
<1> HIDE DEF ws
<1> QED
  BY <1>4, <1>5, <1>7, <1>8 DEF CaseOf

\* A settled run goes through its three lists without an item: whatever it finds
\* at a call, its lists stay empty and it declines nothing.
LEMMA CalmGoesOn ==
  ASSUME Ordered, NEW p \in Rebuilder, Calm(job[p]), Rebuilds(p)
  PROVE  \/ job'[p] = NoJob
         \/ /\ UNCHANGED <<db, tmux>>
            /\ job'[p].live = job[p].live /\ job'[p].todo = {}
            /\ "conflict" \notin job'[p].flaws
            /\ job'[p].at \in {"repositories", "collapse", "retag", "apply", "done"}
<1> DEFINE j == job[p]
           Goes(k) == /\ k.live = j.live /\ k.todo = {} /\ "conflict" \notin k.flaws
                      /\ k.at \in {"repositories", "collapse", "retag", "apply", "done"}
<1>1. /\ DOMAIN job = Process /\ p \in Process /\ Task(j, phase[p], want[p])
      /\ DOMAIN j = DOMAIN NoJob /\ StoreSound
  BY RebuilderAssumption DEF Ordered, Sound, Jobs, Tasked, Task
<1>2. /\ j.todo = {} /\ "conflict" \notin j.flaws
      /\ j.at \in {"repositories", "collapse", "retag", "apply", "done"}
      /\ j.at \notin UnderLock \cup {"off", "release"}
  BY DEF Calm, UnderLock
<1>3. phase[p] = "idle"
  BY <1>1, <1>2 DEF Task, AtEntry
<1>4. ASSUME NEW k, Remember(p, k) PROVE job'[p] = k
  BY <1>1, <1>4 DEF Remember
<1>5. CASE ReadsRepositories(p)
  <2> DEFINE PathOf(r) == MainOf[db.repositories[r].repo_root]
             stale == {r \in DOMAIN db.repositories :
                         PathOf(r) \notin {db.repositories[r].repo_root, "unresolvable"}}
             entries == {[id |-> r, repo_root |-> db.repositories[r].repo_root] : r \in stale}
             k == [j EXCEPT !.loop = "collapse", !.at = "collapse"]
  <2>1. ASSUME NEW r \in DOMAIN db.repositories
        PROVE  PathOf(r) = db.repositories[r].repo_root /\ PathOf(r) # "unresolvable"
    <3>1. db.repositories[r].repo_root \in Root
      BY <1>1 DEF StoreSound, Store!TypeOK, Store!IsDatabase, Store!IsTable,
         Store!RepositoryRow
    <3> QED
      BY <3>1, MainOfAssumption DEF Calm, AtMains
  <2>2. entries = {} /\ ~(\E r \in DOMAIN db.repositories : PathOf(r) = "unresolvable")
    BY <2>1
  <2>3. \/ Remember(p, [k EXCEPT !.todo = entries,
              !.flaws = IF \E r \in DOMAIN db.repositories : PathOf(r) = "unresolvable"
                        THEN {"conflict"} ELSE {}])
        \/ Remember(p, Flawed(k, "failed"))
    BY <1>5 DEF ReadsRepositories
  <2> HIDE DEF PathOf, stale, entries
  <2>4. \/ job'[p] = [k EXCEPT !.todo = {}, !.flaws = {}]
        \/ job'[p] = Flawed(k, "failed")
    BY <1>4, <2>2, <2>3
  <2>5. /\ k.live = j.live /\ k.todo = {} /\ k.flaws = j.flaws /\ k.at = "collapse"
        /\ DOMAIN k = DOMAIN NoJob
    BY <1>1, <1>2 DEF NoJob
  <2> HIDE DEF k
  <2>6. Goes([k EXCEPT !.todo = {}, !.flaws = {}])
    BY <2>5 DEF NoJob
  <2>7. Goes(Flawed(k, "failed"))
    BY <1>2, <2>5 DEF Flawed, NoJob
  <2>8. Goes(job'[p])
    BY <2>4, <2>6, <2>7
  <2> QED
    BY <1>5, <2>8 DEF ReadsRepositories
<1>6. CASE PlansRetags(p)
  <2> DEFINE k == [j EXCEPT !.loop = "retag", !.at = "retag", !.todo = ToRetag(j.live)]
  <2>1. ToRetag(j.live) = {}
    BY DEF ToRetag, Calm, IsSettled
  <2>2. ~(\E s \in j.live : Resolves(s) /\ Colliding(s, j.live) # {})
    BY SettledApart DEF Colliding
  <2>3. job'[p] = k
    BY <1>4, <1>6, <2>2 DEF PlansRetags
  <2>4. Goes(job'[p])
    BY <1>1, <1>2, <2>1, <2>3 DEF NoJob
  <2> QED
    BY <1>6, <2>4 DEF PlansRetags
<1>7. CASE ReadsRecords(p)
  <2> DEFINE live == j.live
             Case(s) == CaseOf(s, live, db)
             candidates == {s \in live : Case(s) \in Candidate}
             sound == {s \in candidates :
                         Resolves(s) /\ Plan!SessionBelongsTo(s, WorkspaceOf(s))}
             entries == {[session |-> s, case |-> Case(s)] : s \in sound}
             k == [j EXCEPT !.loop = "apply", !.at = "apply", !.todo = entries]
  <2>1. \A s \in live : Case(s) = "settled"
    BY SettledCases
  <2>2. candidates = {} /\ sound = {}
    BY <2>1 DEF Candidate
  <2>3. entries = {} /\ ~(\/ sound # candidates
                          \/ \E s \in live : Case(s) \notin Candidate \cup {"settled"})
    BY <2>1, <2>2
  <2>4. \/ Remember(p, IF \/ sound # candidates
                          \/ \E s \in live : Case(s) \notin Candidate \cup {"settled"}
                       THEN Flawed(k, "conflict") ELSE k)
        \/ Remember(p, Flawed([j EXCEPT !.at = "done"], "failed"))
    BY <1>7 DEF ReadsRecords
  <2> HIDE DEF entries, sound, candidates, Case
  <2>5. job'[p] = k \/ job'[p] = Flawed([j EXCEPT !.at = "done"], "failed")
    BY <1>4, <2>3, <2>4
  <2> DEFINE l == [j EXCEPT !.at = "done"]
  <2>6. /\ k.live = j.live /\ k.todo = {} /\ k.flaws = j.flaws /\ k.at = "apply"
        /\ l.live = j.live /\ l.todo = {} /\ l.flaws = j.flaws /\ l.at = "done"
        /\ DOMAIN l = DOMAIN NoJob
    BY <1>1, <1>2, <2>3 DEF NoJob
  <2> HIDE DEF k, l
  <2>7. Goes(k)
    BY <1>2, <2>6
  <2>8. Goes(Flawed(l, "failed"))
    BY <1>2, <2>6 DEF Flawed, NoJob
  <2>9. Goes(job'[p])
    BY <2>5, <2>7, <2>8 DEF l
  <2> QED
    BY <1>7, <2>9 DEF ReadsRecords
<1>8. CASE Reports(p)
  <2>1. job'[p] = [j EXCEPT !.at = "done"]
    BY <1>4, <1>8 DEF Reports
  <2>2. Goes(job'[p])
    BY <1>1, <1>2, <2>1 DEF NoJob
  <2> QED
    BY <1>8, <2>2 DEF Reports
<1>9. CASE Exits(p) \/ Dies(p)
  BY <1>1, <1>4, <1>9 DEF Exits, Dies
<1>10. ~(\/ Lists(p) \/ DropsVanished(p) \/ BeginsCollapse(p) \/ BeginsRetag(p)
         \/ BeginsApply(p))
  BY <1>2 DEF Lists, DropsVanished, BeginsCollapse, BeginsRetag, BeginsApply
<1>11. ~(\/ RegistersParent(p) \/ DropsLinked(p) \/ TagsRoot(p) \/ TagsID(p)
         \/ ObservesLive(p) \/ Rereads(p) \/ RegistersSession(p) \/ AdoptsLive(p)
         \/ ItemFails(p))
  BY <1>3 DEF RegistersParent, DropsLinked, TagsRoot, TagsID, ObservesLive, Rereads,
     RegistersSession, AdoptsLive, ItemFails, Work
<1>12. ~(WaitsForItem(p) \/ SkipsItem(p) \/ ReleasesItem(p))
  BY <1>3 DEF WaitsForItem, SkipsItem, ReleasesItem, Locks!TakeRepository,
     Locks!TakeWorkspace, Locks!TimeOut, Locks!Contended, Locks!Polled, Locks!Finish,
     Locks!UnlockWorkspace, Locks!UnlockRepository
<1> QED
  BY <1>5, <1>6, <1>7, <1>8, <1>9, <1>10, <1>11, <1>12 DEF Rebuilds

\* A session stays settled while nothing it rests on moves.
LEMMA SettledStill ==
  ASSUME NEW s, IsSettled(s), UNCHANGED <<db, tmux, cmd, at, snap>>
  PROVE  IsSettled(s)'
<1>1. PICK v : v = WorkspaceOf(s)
  OBVIOUS
<1>2. ClaimantsOf(v.id)' = ClaimantsOf(v.id)
  BY DEF ClaimantsOf
<1>3. \A q \in Process : Adopting(q)' <=> Adopting(q)
  BY DEF Adopting
<1> QED
  BY <1>1, <1>2, <1>3 DEF IsSettled, IsRecorded, RowOf, Store!Known

\* What is open beside it cannot unsettle it: an open creates no second session
\* of the workspace, and adopts none but this one (ensure.go).
LEMMA SettledBeside ==
  ASSUME Ordered, \A r \in Process : Fits(r), NEW q \in Process, Runs(q),
         NEW s, IsSettled(s)
  PROVE  IsSettled(s)'
<1>1. Sound /\ StoreSound
  BY DEF Ordered, Sound
<1>2. PICK v \in Resolvable : v = WorkspaceOf(s) /\ v.id \in LockedID
  BY SessionsResolve DEF IsSettled
<1>3. /\ Belonging(s) /\ Plan!SessionBelongsTo(s, v)
      /\ Store!Known(v.id) /\ RowOf(v).actual_session = s.name
      /\ \A t \in ClaimantsOf(v.id) : t.name = s.name
      /\ \A r \in Process : Adopting(r) /\ cmd[r].ws.id = v.id
           => snap[r].live.name = s.name
  BY <1>2 DEF IsSettled, IsRecorded
<1>4. s.name # NULL
  BY <1>3, StoreAssumption DEF Belonging, SessionRow, Store!NullIsNoValue
<1>5. ASSUME Store!Known(v.id)', RowOf(v)'.actual_session = s.name,
             \A t \in ClaimantsOf(v.id)' : t.name = s.name,
             \A r \in Process : Adopting(r)' /\ cmd'[r].ws.id = v.id
               => snap'[r].live.name = s.name
      PROVE  IsSettled(s)'
  BY <1>2, <1>3, <1>5 DEF IsSettled, IsRecorded
<1>6. CASE Call(q) \/ CallFails(q)
  <2>1. /\ phase[q] = "held" /\ at[q] # "over" /\ cmd' = cmd
        /\ at' = [at EXCEPT ![q] = at'[q]] /\ snap' = [snap EXCEPT ![q] = snap'[q]]
    BY <1>1, <1>6, CallsMove DEF Moved
  <2>2. cmd[q] # NULL
    BY <1>1, <2>1, AtWork
  <2>3. ASSUME NEW r \in Process, Adopting(r)', cmd'[r].ws.id = v.id
        PROVE  snap'[r].live.name = s.name
    <3>1. CASE r = q
      <4>1. \/ snap'[q].live \in ClaimantsOf(cmd[q].ws.id)
            \/ Adopting(q) /\ snap'[q].live = snap[q].live
        BY <1>1, <1>6, <2>3, <3>1, OpensAdopt
      <4> QED
        BY <1>3, <2>1, <2>3, <3>1, <4>1
    <3>2. CASE r # q
      <4>1. at'[r] = at[r] /\ snap'[r] = snap[r] /\ cmd'[r] = cmd[r]
        BY <1>1, <2>1, <3>2 DEF Sound, Types
      <4> QED
        BY <1>3, <2>3, <4>1 DEF Adopting
    <3> QED
      BY <3>1, <3>2
  <2>4. ASSUME NEW t \in ClaimantsOf(v.id)'
        PROVE  t.name = s.name
    <3>1. PICK w \in LockedID : w = v.id
      BY <1>2
    <3>2. t \in ClaimantsOf(w)'
      BY <2>4, <3>1 DEF ClaimantsOf
    <3>3. \/ \E u \in ClaimantsOf(w) : u.name = t.name
          \/ /\ at[q] = "create" /\ cmd[q].op = "open"
             /\ cmd[q].ws.id = w /\ t.name = snap[q].name
      BY <1>6, <3>2, CommandsClaim DEF Runs
    <3>4. CASE \E u \in ClaimantsOf(w) : u.name = t.name
      BY <1>3, <3>1, <3>4
    <3>5. CASE /\ at[q] = "create" /\ cmd[q].op = "open"
               /\ cmd[q].ws.id = w /\ t.name = snap[q].name
      <4>1. RowOf(cmd[q].ws).actual_session = snap[q].name
        BY <2>2, <3>5 DEF Fits
      <4> QED
        BY <1>3, <3>1, <3>5, <4>1 DEF RowOf
    <3> QED
      BY <3>3, <3>4, <3>5
  <2>5. Store!Known(v.id)' /\ RowOf(v)'.actual_session = s.name
    <3>1. (Transacts \/ UNCHANGED db) /\ (Notes \/ Adopts(q) \/ UNCHANGED db)
      BY <1>1, <1>6, CallsTransact
    <3>2. Store!Known(v.id)'
      BY <1>1, <1>3, <3>1, TransactionKeeps
    <3>3. CASE Notes \/ UNCHANGED db
      BY <1>1, <1>3, <1>4, <3>2, <3>3, TransactionNames
    <3>4. CASE Adopts(q)
      <4>1. /\ at[q] = "adopt" /\ cmd[q].op = "open"
        BY <3>4 DEF Adopts, Step, Answers
      <4>2. snap[q].live # NULL
        BY <1>1, <4>1 DEF Sound, Prepared, Has
      <4>3. Adopting(q)
        BY <2>2, <4>1, <4>2 DEF Adopting
      <4>4. RowOf(v)'.actual_session = IF v.id = cmd[q].ws.id /\ db' # db
                                       THEN snap[q].live.name
                                       ELSE RowOf(v).actual_session
        BY <1>1, <1>3, <3>4, AdoptionNames
      <4> QED
        BY <1>3, <3>2, <4>3, <4>4
    <3> QED
      BY <3>1, <3>3, <3>4
  <2> QED
    BY <1>5, <2>3, <2>4, <2>5
<1>7. CASE Starts(q) \/ TakesLock(q) \/ GivesUp(q) \/ Releases(q) \/ Crashes(q)
  <2>1. UNCHANGED <<db, tmux>>
    BY <1>7, OthersLeaveWorld
  <2>2. ASSUME NEW r \in Process, Adopting(r)'
        PROVE  /\ Adopting(r) /\ cmd'[r] = cmd[r] /\ snap'[r] = snap[r]
    <3>1. CASE UNCHANGED <<cmd, at, snap>>
      BY <2>2, <3>1 DEF Adopting
    <3>2. CASE Starts(q)
      <4>1. at'[q] \in {"register", "read"}
        BY <1>1, <3>2 DEF Starts, Goto, Entry, Sound, Types
      <4>2. r # q => at'[r] = at[r] /\ cmd'[r] = cmd[r]
        BY <1>1, <3>2 DEF Starts, Goto, Sound, Types
      <4>3. snap' = snap
        BY <3>2 DEF Starts
      <4> QED
        BY <2>2, <4>1, <4>2, <4>3 DEF Adopting
    <3>3. CASE Forgets(q)
      <4>1. cmd'[q] = NULL
        BY <1>1, <3>3 DEF Forgets, Sound, Types
      <4>2. r # q => at'[r] = at[r] /\ cmd'[r] = cmd[r] /\ snap'[r] = snap[r]
        BY <1>1, <3>3 DEF Forgets, Goto, Sound, Types
      <4> QED
        BY <2>2, <4>1, <4>2 DEF Adopting
    <3> QED
      BY <1>7, <3>1, <3>2, <3>3 DEF TakesLock, GivesUp, Releases, Crashes
  <2>3. \A r \in Process : Adopting(r)' /\ cmd'[r].ws.id = v.id
          => snap'[r].live.name = s.name
    BY <1>3, <2>2
  <2>4. Store!Known(v.id)' /\ RowOf(v)'.actual_session = s.name
    BY <1>3, <2>1 DEF Store!Known, RowOf
  <2>5. \A t \in ClaimantsOf(v.id)' : t.name = s.name
    BY <1>3, <2>1 DEF ClaimantsOf
  <2> QED
    BY <1>5, <2>3, <2>4, <2>5
<1> QED
  BY <1>6, <1>7 DEF Runs

\* Nor does a registration record a linked worktree (internal/workspace: a
\* workspace is at a main one).
LEMMA MainsBeside ==
  ASSUME Ordered, NEW q \in Process, Runs(q), AtMains
  PROVE  AtMains'
<1>1. Sound /\ StoreSound
  BY DEF Ordered, Sound
<1>2. Transacts \/ UNCHANGED db
  BY <1>1, CallsTransact, OthersLeaveWorld DEF Runs
<1>3. CASE db'.repositories = db.repositories
  BY <1>3 DEF AtMains
<1>4. ASSUME NEW ws \in Resolvable, NEW d \in Digest, Store!RegisterWorkspace(ws, d)
      PROVE  AtMains'
  <2>1. \A r \in DOMAIN db'.repositories :
          \/ db'.repositories[r].repo_root = ws.repo_root
          \/ r \in DOMAIN db.repositories /\ db'.repositories[r] = db.repositories[r]
    BY <1>1, <1>4, RegistrationPlaces
  <2>2. MainOf[ws.repo_root] = ws.repo_root
    BY WorktreesAssumption
  <2> QED
    BY <2>1, <2>2 DEF AtMains
<1> QED
  BY <1>1, <1>2, <1>3, <1>4, RepositoriesChange

\* A run's own step keeps it to what it found.
LEMMA QuietAlong ==
  ASSUME Ordered, \A q \in Process : Fits(q), NEW p \in Rebuilder, Quiet(p),
         Rebuilds(p)
  PROVE  Quiet(p)'
<1>1. /\ DOMAIN job = Process /\ p \in Process
      /\ \A s, t \in tmux.sessions : s.name = t.name => s = t
  BY RebuilderAssumption DEF Ordered, Sound, Jobs, Numbered
<1>2. UNCHANGED <<cmd, at, snap>>
  BY RebuildsLeaveCommands
<1>3. ASSUME NEW s, IsSettled(s), UNCHANGED <<db, tmux>>
      PROVE  IsSettled(s)'
  BY <1>2, <1>3, SettledStill
<1>4. CASE Lists(p)
  <2>1. UNCHANGED <<db, tmux>>
    BY <1>4 DEF Lists
  <2>2. job'[p] = [NoJob EXCEPT !.at = "repositories", !.live = Claiming,
                                !.settled = AllSettled, !.keyed = NoRelics(db)]
    BY <1>1, <1>4 DEF Lists, Remember
  <2>3. /\ job'[p].at = "repositories" /\ job'[p].live = Claiming
        /\ job'[p].todo = {} /\ job'[p].flaws = {}
    BY <2>2 DEF NoJob
  <2>4. job'[p].settled = AllSettled
    BY <2>2 DEF NoJob
  <2>5. CASE AllSettled
    <3>1. \A s \in Claiming : IsSettled(s)
      BY <2>5, ListsSettled
    <3>2. \A s \in job'[p].live : IsSettled(s)'
      BY <1>3, <2>1, <2>3, <3>1
    <3>3. \A s, t \in job'[p].live : s.name = t.name => s = t
      BY <1>1, <2>3 DEF Claiming
    <3>4. AtMains'
      BY <2>1, <2>5 DEF AllSettled, AtMains
    <3> QED
      BY <2>3, <3>2, <3>3, <3>4 DEF Quiet, Calm
  <2>6. CASE ~AllSettled
    BY <2>3, <2>4, <2>6 DEF Quiet
  <2> QED
    BY <2>5, <2>6
<1>5. CASE ~Lists(p)
  <2>1. CASE job'[p] = NoJob
    BY <2>1 DEF Quiet, NoJob
  <2>2. CASE job'[p] # NoJob
    <3>1. /\ job'[p].settled = job[p].settled /\ job'[p].disturbed = job[p].disturbed
          /\ job'[p].at # "off"
      BY <1>5, <2>2, VerdictKept
    <3>2. CASE job[p].settled /\ ~job[p].disturbed
      <4>1. Calm(job[p])
        BY <3>2 DEF Quiet
      <4>2. /\ UNCHANGED <<db, tmux>>
            /\ job'[p].live = job[p].live /\ job'[p].todo = {}
            /\ "conflict" \notin job'[p].flaws
            /\ job'[p].at \in {"repositories", "collapse", "retag", "apply", "done"}
        BY <2>2, <4>1, CalmGoesOn
      <4>3. \A s \in job'[p].live : IsSettled(s)'
        BY <1>3, <4>1, <4>2 DEF Calm
      <4>4. AtMains'
        BY <4>1, <4>2 DEF Calm, AtMains
      <4>5. \A s, t \in job'[p].live : s.name = t.name => s = t
        BY <4>1, <4>2 DEF Calm
      <4> QED
        BY <3>1, <4>2, <4>3, <4>4, <4>5 DEF Quiet, Calm
    <3>3. CASE ~(job[p].settled /\ ~job[p].disturbed)
      BY <3>1, <3>3 DEF Quiet
    <3> QED
      BY <3>2, <3>3
  <2> QED
    BY <2>1, <2>2
<1> QED
  BY <1>4, <1>5

\* Commands beside it take nothing of that away.
LEMMA QuietBeside ==
  ASSUME Ordered, \A r \in Process : Fits(r), NEW p \in Rebuilder, Quiet(p),
         NEW q \in Process, Runs(q), UNCHANGED job
  PROVE  Quiet(p)'
<1>1. CASE Calm(job[p])
  <2>1. \A s \in job[p].live : IsSettled(s)'
    BY <1>1, SettledBeside DEF Calm
  <2>2. AtMains'
    BY <1>1, MainsBeside DEF Calm
  <2>3. Calm(job[p])'
    BY <1>1, <2>1, <2>2 DEF Calm
  <2> QED
    BY <2>3 DEF Quiet
<1>2. CASE ~Calm(job[p])
  BY <1>2 DEF Quiet
<1> QED
  BY <1>1, <1>2

\* A settled installation stays quiet to the end of a run, whatever is opened,
\* bound or stopped beside it, where one rebuild runs at a time and no user
\* renames a session (docs/commands.md: "Running it a second time over a
\* recovered installation reports nothing and exits 0").
THEOREM SettledRunsReportNothing ==
  ASSUME "rename" \notin Disturbances, \A p, q \in Rebuilder : p = q
  PROVE  RebuildSpec => []SettledStaysQuiet
<1> DEFINE Fitting == (\A q \in Process : Fits(q)) /\ \A p \in Rebuilder : Quiet(p)
<1>1. RebuildInit => Fitting
  <2> SUFFICES ASSUME RebuildInit PROVE Fitting
    OBVIOUS
  <2>1. \A q \in Process : Fits(q)
    BY DEF RebuildInit, Fits, Adopting
  <2>2. \A p \in Rebuilder : job[p] = NoJob
    BY RebuilderAssumption DEF RebuildInit
  <2> QED
    BY <2>1, <2>2 DEF Quiet, NoJob
<1>2. Ordered /\ Ordered' /\ Fitting /\ [RebuildNext]_jobVars => Fitting'
  <2> SUFFICES ASSUME Ordered, Ordered', Fitting, [RebuildNext]_jobVars
               PROVE  Fitting'
    OBVIOUS
  <2>1. \A q \in Process : Fits(q)'
    BY FitStays
  <2>2. ASSUME NEW p \in Rebuilder
        PROVE  Quiet(p)'
    <3>1. ASSUME NEW q \in Rebuilder, Rebuilds(q)
          PROVE  Quiet(p)'
      BY <3>1, QuietAlong
    <3>2. ASSUME NEW q \in Process \ Rebuilder, Runs(q), UNCHANGED job
          PROVE  Quiet(p)'
      BY <3>2, QuietBeside
    <3>3. CASE UserDisturbs
      <4>1. p \in Process /\ DOMAIN job[p] = DOMAIN NoJob
        BY RebuilderAssumption DEF Ordered, Jobs, Tasked, Task
      <4>2. job'[p] = [job[p] EXCEPT !.disturbed = Working(p)]
        BY <3>3, <4>1 DEF UserDisturbs
      <4>3. /\ job'[p].at = job[p].at /\ job'[p].settled = job[p].settled
            /\ job[p].at # "off" => job'[p].disturbed
        BY <4>1, <4>2 DEF NoJob, Working
      <4> QED
        BY <4>3 DEF Quiet
    <3>4. CASE (Rests /\ UNCHANGED job) \/ UNCHANGED jobVars
      <4>1. UNCHANGED <<db, tmux, cmd, at, snap, job>>
        BY <3>4 DEF Rests, jobVars, vars
      <4>2. \A s : IsSettled(s) => IsSettled(s)'
        BY <4>1, SettledStill
      <4>3. Calm(job[p]) => Calm(job[p])'
        BY <4>1, <4>2 DEF Calm, AtMains
      <4> QED
        BY <4>1, <4>3 DEF Quiet
    <3> QED
      BY <3>1, <3>2, <3>3, <3>4 DEF RebuildNext
  <2> QED
    BY <2>1, <2>2
<1>3. Fitting => SettledStaysQuiet
  BY DEF Quiet, Calm, SettledStaysQuiet
<1> HIDE DEF Fitting
<1> QED
  BY <1>1, <1>2, <1>3, RebuildsSoundly, PTL DEF RebuildSpec
=============================================================================
