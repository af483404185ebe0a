------------------------------- MODULE Rebuild -------------------------------
(***************************************************************************)
(* projectmux rebuild (internal/rebuild, internal/cli/rebuild.go): recover *)
(* what the database has lost from the sessions that are still live, and   *)
(* complete what migration 0002 could not decide.  A run lists the live    *)
(* sessions once, then goes through three work lists:                      *)
(*                                                                         *)
(*   collapse   recorded repositories that are linked worktrees or gone    *)
(*   retag      sessions that carry the keys of an older release           *)
(*   apply      sessions without a row, or whose row has no name           *)
(*                                                                         *)
(* and takes one lock for each item.  Its processes share the locks, the   *)
(* database and tmux with the commands of Controller.                      *)
(*                                                                         *)
(* The lists are worked in any order, where the code sorts them.           *)
(***************************************************************************)
EXTENDS Controller

CONSTANTS
  Rebuilder,     \* the processes that rebuild; the others run commands
  MainOf,        \* what git answers for each path: its main worktree, or
                 \* "gone" or "unresolvable"
  CurrentDigest, \* of the configuration as it is now
  Scenes         \* a database and the live sessions it is found with

VARIABLE job     \* what each rebuild remembers

jobVars == <<vars, job>>

ASSUME RebuilderAssumption == Rebuilder \subseteq Process

ASSUME MainOfAssumption ==
  /\ MainOf \in [Root -> Root \cup {"gone", "unresolvable"}]
  /\ {"gone", "unresolvable"} \cap Root = {}
  /\ \A path \in Root : MainOf[path] \in Root => MainOf[MainOf[path]] = MainOf[path]

\* A workspace is at a main worktree, and each of those has the default and any
\* named session.
ASSUME WorktreesAssumption ==
  /\ "" \in Session
  /\ \A ws \in Resolvable : MainOf[ws.repo_root] = ws.repo_root
  /\ \A path \in Root, session \in Session :
       MainOf[path] \in Root =>
         \E ws \in Resolvable : ws.repo_root = MainOf[path] /\ ws.session = session

\* What is found is a database of its schema, and the sessions of one server.
ASSUME ScenesAssumption ==
  \A scene \in Scenes :
    LET S == scene.sessions IN
    /\ Store!IsDatabase(scene.db) /\ Store!IsIntact(scene.db) /\ Store!IsPlaced(scene.db)
    /\ IsFiniteSet(S) /\ S \subseteq SessionRow
    /\ \A s \in S : s.sid < Cardinality(S)
    /\ \A s, t \in S : s.sid = t.sid \/ s.name = t.name => s = t

ASSUME CurrentDigestAssumption == CurrentDigest \in Digest

\* loop: the work list being worked on; at: the call made next; todo: what is
\* left of the list; item: the entry at hand; flaws: "conflict" for what the
\* run declined to do, "failed" for a call that did not succeed; settled and
\* keyed: whether there was nothing to do, and no row under an old ID, when it
\* listed the sessions.
NoJob == [at |-> "off", loop |-> "off", live |-> {}, todo |-> {}, item |-> NULL,
          flaws |-> {}, settled |-> FALSE, keyed |-> FALSE, disturbed |-> FALSE]

RebuildInit ==
  /\ docker = [c \in Container |-> "absent"]
  /\ Locks!Init
  /\ cmd = [p \in Process |-> NULL]
  /\ at = [p \in Process |-> "over"]
  /\ snap = [p \in Process |-> NoSnap]
  /\ disturbed = {}
  /\ left = Limits
  /\ job = [p \in Process |-> NoJob]
  /\ \E scene \in Scenes :
       /\ db = scene.db
       /\ tmux = [sessions |-> scene.sessions, next |-> Cardinality(scene.sessions)]

-----------------------------------------------------------------------------
(* Resolution and classification *)

\* Resolve: a session belongs where its path and its session component say.
WorkspaceAt(path, session) ==
  CHOOSE ws \in Resolvable : ws.repo_root = MainOf[path] /\ ws.session = session

Resolves(s) == s.keys.place # NULL /\ MainOf[s.keys.place[1]] \in Root

WorkspaceOf(s) == WorkspaceAt(s.keys.place[1], s.keys.place[2])

\* Sessions without a workspace ID belong to someone else.
Claiming == {s \in tmux.sessions : s.keys.id # NULL}

PlaceOf(d, row) == <<d.repositories[row.repository_id].repo_root, row.session>>

\* Mutant: a recorded name is no reason to leave a row alone.
CaseOfFilling(s, live, d) ==
  LET id == s.keys.id
  IN CASE \E t \in live \ {s} : t.keys.id = id -> "duplicate id"
       [] \A t \in live \ {s} : t.keys.id # id ->
          IF id \in DOMAIN d.workspaces THEN "adopt" ELSE "register"

\* Mutant: the owner of a name is not told from the session's own row.
CaseOfOwner(s, live, d) ==
  IF \E w \in DOMAIN d.workspaces : d.workspaces[w].actual_session = s.name
  THEN "name taken"
  ELSE CaseOfFilling(s, live, d)

\* Classify, for one of the live sessions: uncertainty before action.
CaseOf(s, live, d) ==
  LET id == s.keys.id
      row == d.workspaces[id]
      owners == {w \in DOMAIN d.workspaces : d.workspaces[w].actual_session = s.name}
  IN CASE \E t \in live \ {s} : t.keys.id = id -> "duplicate id"
       [] \A t \in live \ {s} : t.keys.id # id ->
          IF owners \ {id} # {} THEN "name taken"
          ELSE IF id \notin DOMAIN d.workspaces THEN "register"
          ELSE IF PlaceOf(d, row) # s.keys.place THEN "identity mismatch"
          ELSE IF row.actual_session = s.name THEN "settled"
          ELSE IF row.actual_session = NULL THEN "adopt"
          ELSE "session mismatch"

Candidate == {"register", "adopt"}

\* The session has a row under the workspace it resolves to, and its name is on it.
IsRecorded(s) ==
  /\ Store!Known(WorkspaceOf(s).id)
  /\ RowOf(WorkspaceOf(s)).actual_session = s.name

\* Nothing is left to do: what a run over a recovered installation finds.
AllSettled ==
  /\ \A s \in Claiming :
       Resolves(s) /\ Plan!SessionBelongsTo(s, WorkspaceOf(s)) /\ IsRecorded(s)
  /\ \A r \in DOMAIN db.repositories :
       MainOf[db.repositories[r].repo_root] = db.repositories[r].repo_root

\* Nothing recorded awaits migration: what is recorded at the root of a
\* workspace that resolves, or as its session, is under its present ID.
NoRelics(d) ==
  \A ws \in Resolvable :
    /\ \A r \in DOMAIN d.repositories :
         d.repositories[r].repo_root = ws.repo_root => r = ws.repository_id
    /\ \A w \in DOMAIN d.workspaces :
         /\ d.workspaces[w].repository_id = ws.repository_id
         /\ d.workspaces[w].session = ws.session
         => w = ws.id

-----------------------------------------------------------------------------
(* Steps *)

\* A rebuild process never runs a command of Controller.
Quietly(p) == UNCHANGED <<docker, cmd, at, snap>> /\ disturbed' = disturbed \ {p}

\* Process p makes a call without a lock, and remembers this.
Remember(p, j) ==
  /\ phase[p] = "idle"
  /\ job' = [job EXCEPT ![p] = j]
  /\ Quietly(p)

Flawed(j, what) == [j EXCEPT !.flaws = @ \cup {what}]

\* The item at hand is done with, one way or the other.
Over(j) == [j EXCEPT !.at = "release"]

\* A call of process p under the lock of its item.
Work(p, here, j) ==
  /\ phase[p] = "held"
  /\ job[p].at = here
  /\ job' = [job EXCEPT ![p] = j]
  /\ Quietly(p)
  /\ UNCHANGED lockVars

\* An item is taken from the list, and its lock asked for.
Begins(p, entry, item, footprint, next) ==
  /\ Locks!Begin(p)
  /\ want'[p] = footprint
  /\ job' = [job EXCEPT ![p].at = next, ![p].item = item,
                        ![p].todo = @ \ {entry}]
  /\ Quietly(p)
  /\ UNCHANGED <<db, tmux>>

OfWorkspace(ws) == [repository |-> NULL, workspace |-> ws.id]

\* Mutant: the collapse takes the lock every other item takes.
OfParentWorkspace(ws) == [repository |-> NULL, workspace |-> ws.id]

OfRepository(ws) == [repository |-> ws.repository_id, workspace |-> NULL]

\* The database is opened and the live sessions are listed.  A run that
\* cannot list them does nothing.
Lists(p) ==
  /\ job[p].at = "off"
  /\ Spend("commands")
  /\ Remember(p, [NoJob EXCEPT !.at = "repositories", !.live = Claiming,
                               !.settled = AllSettled, !.keyed = NoRelics(db)])
  /\ UNCHANGED <<db, tmux, lockVars>>

-----------------------------------------------------------------------------
(* Migrate: repositories *)

\* Rows at a main worktree are left alone, and one that git does not answer
\* for is a conflict.
ReadsRepositories(p) ==
  LET PathOf(r) == MainOf[db.repositories[r].repo_root]
      stale == {r \in DOMAIN db.repositories :
                  PathOf(r) \notin {db.repositories[r].repo_root, "unresolvable"}}
      j == [job[p] EXCEPT !.loop = "collapse", !.at = "collapse"]
  IN /\ job[p].at = "repositories"
     /\ \/ /\ Remember(p, [j EXCEPT
                !.todo = {[id |-> r, repo_root |-> db.repositories[r].repo_root] :
                            r \in stale},
                !.flaws = IF \E r \in DOMAIN db.repositories : PathOf(r) = "unresolvable"
                          THEN {"conflict"} ELSE {}])
           /\ UNCHANGED left
        \/ /\ Remember(p, Flawed(j, "failed"))
           /\ Spend("faults")
     /\ UNCHANGED <<db, tmux, lockVars>>

\* A repository whose path is gone is dropped, under no lock.
DropsVanished(p) ==
  \E r \in job[p].todo :
    LET j == [job[p] EXCEPT !.todo = @ \ {r}]
    IN /\ job[p].at = "collapse"
       /\ MainOf[r.repo_root] = "gone"
       /\ \/ Remember(p, j) /\ Store!DropRepository(r.id) /\ UNCHANGED left
          \/ Remember(p, Flawed(j, "failed")) /\ Spend("faults") /\ UNCHANGED db
       /\ UNCHANGED <<tmux, lockVars>>

\* A linked worktree collapses into its main one, if the latter's
\* configuration loads.
BeginsCollapse(p) ==
  \E r \in job[p].todo :
    LET ws == WorkspaceAt(r.repo_root, "")
    IN /\ job[p].at = "collapse"
       /\ MainOf[r.repo_root] \in Root
       /\ \/ /\ Begins(p, r, r, OfRepository(ws), "register parent")
             /\ UNCHANGED left
          \/ /\ Remember(p, Flawed([job[p] EXCEPT !.todo = @ \ {r}], "failed"))
             /\ Spend("faults")
             /\ UNCHANGED <<db, tmux, lockVars>>

\* Mutant: the stale row is dropped before its parent is registered.
RegistersParentLate(p) ==
  /\ Work(p, "register parent", [job[p] EXCEPT !.at = "drop"])
  /\ Store!DropRepository(job[p].item.id)
  /\ UNCHANGED <<tmux, left>>

RegistersParent(p) ==
  /\ Work(p, "register parent", [job[p] EXCEPT !.at = "drop"])
  /\ Store!RegisterWorkspace(WorkspaceAt(job[p].item.repo_root, ""), CurrentDigest)
  /\ UNCHANGED <<tmux, left>>

DropsLinked(p) ==
  /\ Work(p, "drop", Over(job[p]))
  /\ Store!DropRepository(job[p].item.id)
  /\ UNCHANGED <<tmux, left>>

-----------------------------------------------------------------------------
(* Migrate: sessions *)

\* The listed sessions that resolve to the same workspace as s.
Colliding(s, live) ==
  {t \in live \ {s} : Resolves(t) /\ WorkspaceOf(t) = WorkspaceOf(s)}

\* Mutant: sessions of one repository are retagged one by one.
ToRetagEach(live) ==
  {s \in live : Resolves(s) /\ ~Plan!SessionBelongsTo(s, WorkspaceOf(s))}

\* Sessions whose keys are not what they resolve to; several that resolve to
\* the same workspace are all left alone.
ToRetag(live) ==
  {s \in live : /\ Resolves(s)
                /\ ~Plan!SessionBelongsTo(s, WorkspaceOf(s))
                /\ Colliding(s, live) = {}}

\* The targets are computed from the list the run started with.
PlansRetags(p) ==
  LET j == [job[p] EXCEPT !.loop = "retag", !.at = "retag",
                          !.todo = ToRetag(job[p].live)]
  IN /\ job[p].at = "collapse"
     /\ job[p].todo = {}
     /\ Remember(p, IF \E s \in job[p].live : Resolves(s) /\ Colliding(s, job[p].live) # {}
                    THEN Flawed(j, "conflict") ELSE j)
     /\ UNCHANGED <<db, tmux, lockVars, left>>

BeginsRetag(p) ==
  \E s \in job[p].todo :
    /\ job[p].at = "retag"
    /\ Begins(p, s, s, OfWorkspace(WorkspaceOf(s)), "tag root")
    /\ UNCHANGED left

\* RetagSession names its session and sets one key after the other.
NamedAs(s) == {t \in tmux.sessions : t.name = s.name}

Retagged(s, t) == tmux' = [tmux EXCEPT !.sessions = (@ \ {s}) \cup {t}]

\* Of the place only the root is set: a session without the other keys still
\* belongs to nobody.
TagsRoot(p) ==
  LET s == job[p].item
      root == WorkspaceOf(s).repo_root
  IN /\ Work(p, "tag root", IF NamedAs(s) = {} THEN Flawed(Over(job[p]), "failed")
                            ELSE [job[p] EXCEPT !.at = "tag id"])
     /\ IF NamedAs(s) = {} THEN UNCHANGED tmux
        ELSE \E t \in NamedAs(s) :
               Retagged(t, [t EXCEPT !.keys.place =
                              IF @ = NULL THEN NULL ELSE <<root, @[2]>>])
     /\ UNCHANGED <<db, left>>

\* Mutant: the list keeps the keys the session had.
TagsIDForgetting(p) ==
  LET s == job[p].item
  IN /\ Work(p, "tag id", IF NamedAs(s) = {} THEN Flawed(Over(job[p]), "failed")
                          ELSE Over(job[p]))
     /\ IF NamedAs(s) = {} THEN UNCHANGED tmux
        ELSE \E t \in NamedAs(s) : Retagged(t, [t EXCEPT !.keys.id = WorkspaceOf(s).id])
     /\ UNCHANGED <<db, left>>

TagsID(p) ==
  LET s == job[p].item
      ws == WorkspaceOf(s)
      corrected == [s EXCEPT !.keys = Plan!KeysOf(ws)]
  IN /\ Work(p, "tag id", IF NamedAs(s) = {} THEN Flawed(Over(job[p]), "failed")
                          ELSE [Over(job[p]) EXCEPT !.live = (@ \ {s}) \cup {corrected}])
     /\ IF NamedAs(s) = {} THEN UNCHANGED tmux
        ELSE \E t \in NamedAs(s) : Retagged(t, [t EXCEPT !.keys.id = ws.id])
     /\ UNCHANGED <<db, left>>

-----------------------------------------------------------------------------
(* Apply *)

\* The records are read and the sessions classified; a candidate whose keys
\* are not those of its path is refused at once.  Without the records the
\* run ends.
ReadsRecords(p) ==
  LET live == job[p].live
      Case(s) == CaseOf(s, live, db)
      candidates == {s \in live : Case(s) \in Candidate}
      sound == {s \in candidates : Resolves(s) /\ Plan!SessionBelongsTo(s, WorkspaceOf(s))}
      j == [job[p] EXCEPT !.loop = "apply", !.at = "apply",
              !.todo = {[session |-> s, case |-> Case(s)] : s \in sound}]
  IN /\ job[p].at = "retag"
     /\ job[p].todo = {}
     /\ \/ /\ Remember(p, IF sound # candidates
                             \/ \E s \in live : Case(s) \notin Candidate \cup {"settled"}
                          THEN Flawed(j, "conflict") ELSE j)
           /\ UNCHANGED left
        \/ /\ Remember(p, Flawed([job[p] EXCEPT !.at = "done"], "failed"))
           /\ Spend("faults")
     /\ UNCHANGED <<db, tmux, lockVars>>

\* The digest of a registration is loaded before the lock, and a failure to
\* load it counts only where it is needed.
BeginsApply(p) ==
  \E c \in job[p].todo, digest \in {CurrentDigest, NULL} :
    /\ job[p].at = "apply"
    /\ IF digest = NULL /\ c.case = "register" THEN Spend("faults") ELSE UNCHANGED left
    /\ c.case = "adopt" => digest = NULL
    /\ Begins(p, c, [session |-> c.session, case |-> c.case, digest |-> digest],
              OfWorkspace(WorkspaceOf(c.session)), "observe")

\* observeLive: what is written is decided from what is live now.
ObservesLive(p) ==
  LET ws == WorkspaceOf(job[p].item.session)
      view == TmuxView(ws.id, {job[p].item.session.name})
      found == view.live # NULL /\ Plan!SessionBelongsTo(view.live, ws)
  IN /\ Work(p, "observe", IF found THEN [job[p] EXCEPT !.at = "reread",
                                                        !.item.session = view.live]
                           ELSE Flawed(Over(job[p]), "conflict"))
     /\ UNCHANGED <<db, tmux, left>>

\* Mutant: the first pass's case is acted on.
RereadsNothing(p) ==
  LET item == job[p].item
  IN /\ Work(p, "reread", [job[p] EXCEPT !.at = item.case,
               !.item.digest = IF @ = NULL THEN CurrentDigest ELSE @])
     /\ UNCHANGED <<db, tmux, left>>

\* The row is read again and decides the case; one that appeared with this
\* name meanwhile is as good as recovered.
Rereads(p) ==
  LET item == job[p].item
      id == item.session.keys.id
      alone == [db EXCEPT !.workspaces = Store!Without(@, DOMAIN @ \ {id})]
      case == CaseOf(item.session, {item.session}, alone)
      undigested == item.case = "register" /\ item.digest = NULL
  IN /\ Work(p, "reread",
          CASE case = "register" /\ undigested -> Flawed(Over(job[p]), "failed")
            [] case = "register" /\ ~undigested ->
                 [job[p] EXCEPT !.at = "register", !.item.digest = CurrentDigest]
            [] case = "adopt" -> [job[p] EXCEPT !.at = "adopt"]
            [] case \notin Candidate ->
                 IF IsRecorded(item.session) THEN Over(job[p])
                 ELSE Flawed(Over(job[p]), "conflict"))
     /\ UNCHANGED <<db, tmux, left>>

RegistersSession(p) ==
  /\ Work(p, "register", [job[p] EXCEPT !.at = "adopt"])
  /\ Store!RegisterWorkspace(WorkspaceOf(job[p].item.session), job[p].item.digest)
  /\ UNCHANGED <<tmux, left>>

\* The name is recorded, unless another row has it or the row is gone.
AdoptsLive(p) ==
  LET s == job[p].item.session
      id == WorkspaceOf(s).id
      free == Store!Known(id) /\ ~Store!NameTaken(s.name, id)
  IN /\ Work(p, "adopt", IF free THEN Over(job[p]) ELSE Flawed(Over(job[p]), "conflict"))
     /\ IF free THEN Store!AdoptSessionName(id, s.name) ELSE UNCHANGED db
     /\ UNCHANGED <<tmux, left>>

-----------------------------------------------------------------------------
(* Processes *)

UnderLock == {"register parent", "drop", "tag root", "tag id", "observe", "reread",
              "register", "adopt"}

\* A call under the lock fails without effect, and the item is given up.
ItemFails(p) ==
  /\ job[p].at \in UnderLock
  /\ Work(p, job[p].at, Flawed(Over(job[p]), "failed"))
  /\ Spend("faults")
  /\ UNCHANGED <<db, tmux>>

WaitsForItem(p) ==
  /\ Locks!TakeRepository(p) \/ Locks!TakeWorkspace(p)
  /\ Quietly(p)
  /\ UNCHANGED <<db, tmux, job, left>>

\* Back to the list, when the last lock is released.
Resumed(p, j) ==
  job' = [job EXCEPT ![p] = IF phase'[p] = "idle" THEN [j EXCEPT !.at = j.loop, !.item = NULL]
                            ELSE j]

\* Mutant: an item whose lock is not to be had is passed over in silence.
SkipsItemSilently(p) ==
  /\ Locks!TimeOut(p)
  /\ Resumed(p, Over(job[p]))
  /\ Quietly(p)
  /\ UNCHANGED <<db, tmux, left>>

SkipsItem(p) ==
  /\ Locks!TimeOut(p)
  /\ Resumed(p, Flawed(Over(job[p]), "failed"))
  /\ Quietly(p)
  /\ UNCHANGED <<db, tmux, left>>

ReleasesItem(p) ==
  /\ \/ job[p].at = "release" /\ Locks!Finish(p)
     \/ Locks!UnlockWorkspace(p)
     \/ Locks!UnlockRepository(p)
  /\ Resumed(p, job[p])
  /\ Quietly(p)
  /\ UNCHANGED <<db, tmux, left>>

Reports(p) ==
  /\ job[p].at = "apply" /\ job[p].todo = {}
  /\ Remember(p, [job[p] EXCEPT !.at = "done"])
  /\ UNCHANGED <<db, tmux, lockVars, left>>

Exits(p) ==
  /\ job[p].at = "done"
  /\ Remember(p, NoJob)
  /\ UNCHANGED <<db, tmux, lockVars, left>>

Dies(p) ==
  /\ job[p].at # "off"
  /\ Spend("crashes")
  /\ IF phase[p] = "idle" THEN UNCHANGED lockVars ELSE Locks!Crash(p)
  /\ job' = [job EXCEPT ![p] = NoJob]
  /\ Quietly(p)
  /\ UNCHANGED <<db, tmux>>

Rebuilds(p) ==
  \/ Lists(p) \/ ReadsRepositories(p) \/ DropsVanished(p)
  \/ BeginsCollapse(p) \/ RegistersParent(p) \/ DropsLinked(p)
  \/ PlansRetags(p) \/ BeginsRetag(p) \/ TagsRoot(p) \/ TagsID(p)
  \/ ReadsRecords(p) \/ BeginsApply(p) \/ ObservesLive(p) \/ Rereads(p)
  \/ RegistersSession(p) \/ AdoptsLive(p)
  \/ ItemFails(p) \/ WaitsForItem(p) \/ SkipsItem(p) \/ ReleasesItem(p)
  \/ Reports(p) \/ Exits(p) \/ Dies(p)

Working(p) == job[p].at # "off"

\* A user who acts during a rebuild disturbs it; the database is lost only
\* while none runs.
UserDisturbs ==
  /\ User
  /\ db' # db => \A p \in Rebuilder : ~Working(p)
  /\ job' = [p \in Process |-> [job[p] EXCEPT !.disturbed = Working(p)]]

RebuildNext ==
  \/ \E p \in Process \ Rebuilder : Runs(p) /\ UNCHANGED job
  \/ \E p \in Rebuilder : Rebuilds(p)
  \/ UserDisturbs
  \/ Rests /\ UNCHANGED job /\ \A p \in Rebuilder : ~Working(p)

RebuildSpec == RebuildInit /\ [][RebuildNext]_jobVars

-----------------------------------------------------------------------------

(***************************************************************************)
(* A rebuild works on an item exactly while it has or awaits its lock, and *)
(* each call under a lock holds the lock of what it writes: the parent's   *)
(* repository for a collapse, the session's workspace for the rest         *)
(* (rebuild/apply.go, migrate.go).                                         *)
(***************************************************************************)
RebuildTypeOK ==
  /\ Store!TypeOK
  /\ Locks!TypeOK
  /\ \A p \in Process \ Rebuilder : job[p] = NoJob
  /\ \A p \in Rebuilder :
       /\ job[p].loop \in {"off", "collapse", "retag", "apply"}
       /\ job[p].flaws \subseteq {"conflict", "failed"}
       /\ job[p].at \in UnderLock \cup {"release"} <=> phase[p] # "idle"
       /\ phase[p] = "held" /\ job[p].at \in UnderLock =>
            CASE job[p].loop = "collapse" ->
                   holder[WorkspaceAt(job[p].item.repo_root, "").repository_id] = p
              [] job[p].loop = "retag" -> holder[WorkspaceOf(job[p].item).id] = p
              [] OTHER -> holder[WorkspaceOf(job[p].item.session).id] = p

\* Process p of a rebuild makes a call at one of these places in this step.
Writes(p, places) == job[p].at \in places /\ job'[p].at # job[p].at

(***************************************************************************)
(* "It only fills in what is missing. Rebuild never overwrites a recorded  *)
(* value" (docs/commands.md; rebuild/apply.go: "Fill-only is a property of *)
(* which primitive each case calls"): recovering a session changes no row  *)
(* but to give it a name it had not, whatever opens and other rebuilds do  *)
(* between its observations and its writes.  Not so if a row awaited       *)
(* re-keying when the run began: registering its workspace is an upsert    *)
(* that takes that row over and replaces its digest (store.go:104).        *)
(***************************************************************************)
FillOnly ==
  [][\A p \in Rebuilder : Writes(p, {"register", "adopt"}) /\ job[p].keyed =>
       \A w \in DOMAIN db.workspaces :
         /\ w \in DOMAIN db'.workspaces
         /\ \/ db'.workspaces[w] = db.workspaces[w]
            \/ /\ db.workspaces[w].actual_session = NULL
               /\ db'.workspaces[w] = [db.workspaces[w] EXCEPT
                    !.actual_session = db'.workspaces[w].actual_session]]_jobVars

(***************************************************************************)
(* The collapse never loses a registration: a repository whose path is not *)
(* gone stays recorded, itself or as its parent, at every crash and        *)
(* failure in between, and one git does not answer for stays as it is      *)
(* (migrate.go, collapseInto: "the order is load-bearing").                *)
(***************************************************************************)
RepositoryKept ==
  [][\A r \in DOMAIN db.repositories :
       MainOf[db.repositories[r].repo_root] # "gone" =>
         \E q \in DOMAIN db'.repositories :
           MainOf[db'.repositories[q].repo_root]
             = MainOf[db.repositories[r].repo_root]]_jobVars

(***************************************************************************)
(* "Where a repository has more than one live session from before the      *)
(* upgrade ... none of that group is retagged" (docs/commands.md): no      *)
(* retag gives two sessions of the list one workspace, also in the run     *)
(* after one that died half way through its group (migrate.go,             *)
(* retagSessions).                                                         *)
(***************************************************************************)
GroupStaysApart ==
  [][\A p \in Rebuilder : Writes(p, {"tag id"}) =>
       \A s, t \in job'[p].live :
         s # t /\ s.keys.id = t.keys.id => {s, t} \subseteq job[p].live]_jobVars

\* What the records of the workspaces that resolve say of s: its workspace
\* has another session, or its name belongs to another workspace.
Contradicted(s) ==
  \E ws \in Resolvable :
    /\ Store!Known(ws.id)
    /\ IF ws = WorkspaceOf(s) THEN RowOf(ws).actual_session \notin {NULL, s.name}
       ELSE RowOf(ws).actual_session = s.name

\* Nothing competes with s for its workspace, and nothing recorded does.
Alone(s) == Resolves(s) /\ Colliding(s, Claiming) = {} /\ ~Contradicted(s)

\* The row migration 0002 left of the workspace of s, under its old ID, has the
\* name of s.
NamedByOldRow(s) ==
  LET ws == WorkspaceOf(s) IN
  \E w \in DOMAIN db.workspaces \ {ws.id} :
    /\ PlaceOf(db, db.workspaces[w]) = <<ws.repo_root, ws.session>>
    /\ db.workspaces[w].actual_session = s.name

\* No call of the run failed and no user acted meanwhile.
ReportsUndisturbed(p) ==
  job[p].at = "done" /\ "failed" \notin job[p].flaws /\ ~job[p].disturbed

IsRecovered(s) == Plan!SessionBelongsTo(s, WorkspaceOf(s)) /\ IsRecorded(s)

(***************************************************************************)
(* A rebuild recovers every session nothing else competes with: such a     *)
(* session is recorded when an undisturbed run reports, also where an      *)
(* earlier run or an open died half way (docs/commands.md, "It completes   *)
(* the repository-scoped upgrade").  The exception is a session whose own  *)
(* old row has its name, which the run refuses; an open mends that.        *)
(***************************************************************************)
LoneSessionRecovered ==
  \A p \in Rebuilder : ReportsUndisturbed(p) =>
    \A s \in Claiming : Alone(s) /\ ~NamedByOldRow(s) => IsRecovered(s)

(***************************************************************************)
(* "Live sessions from before the upgrade are matched by the tree they     *)
(* record and retagged onto their repository, so a lone running session is *)
(* adopted rather than duplicated" (docs/commands.md:603-605), at a main   *)
(* worktree as well (migrate.go:192-199).                                  *)
(***************************************************************************)
UpgradedSessionAdopted ==
  \A p \in Rebuilder : ReportsUndisturbed(p) =>
    \A s \in Claiming : Alone(s) => IsRecovered(s)

(***************************************************************************)
(* A rebuild that exits 0 has left nothing to do: unless a user acted      *)
(* meanwhile, every session that carries keys is the recorded one of the   *)
(* workspace it resolves to, and every repository is at a main worktree,   *)
(* also when opens added sessions and rows after the run listed them       *)
(* (docs/commands.md, the exit codes of rebuild).                          *)
(***************************************************************************)
CleanReportIsTrue ==
  \A p \in Rebuilder :
    job[p].at = "done" /\ job[p].flaws = {} /\ ~job[p].disturbed => AllSettled

(***************************************************************************)
(* "Running it a second time over a recovered installation reports nothing *)
(* and exits 0" (docs/commands.md), whatever is opened meanwhile.          *)
(***************************************************************************)
SettledStaysQuiet ==
  \A p \in Rebuilder :
    job[p].settled /\ ~job[p].disturbed => "conflict" \notin job[p].flaws

=============================================================================
