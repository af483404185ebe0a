------------------------------ MODULE Controller -----------------------------
(***************************************************************************)
(* The commands of projectmux that change something (internal/controller): *)
(* open, stop, bind and autostart.  Each runs in a process of its own,     *)
(* under the locks of module FileLocks, and works step by step on three    *)
(* things no lock of its own protects from the rest of the world: the      *)
(* state database (module StateStore), the tmux server and the docker      *)
(* daemon.  Between two steps of one command any other process may take    *)
(* steps, the user may act on tmux or docker by hand, and the command may  *)
(* be killed.                                                              *)
(*                                                                         *)
(* A step is one transaction or one external call; what the code computes  *)
(* from its results before the next call belongs to the same step.         *)
(***************************************************************************)
EXTENDS Naturals, Sequences, FiniteSets

CONSTANTS
  Process,          \* projectmux processes that may run at the same time
  RepositoryID, WorkspaceID, Root, Session, Name, Candidates, Digest,
  Container, Bind, NULL, Resolvable, InitialDatabases,
                    \* as in StateStore
  EmptyDigest,      \* the digest bind registers with
  Commands,         \* the commands that may be started
  Containerized,    \* repositories a devcontainer applies to
  OwnerOf,          \* the repository each container is labelled with
  InitialSessions,  \* live sessions at the start
  ExitEmpty,        \* whether the tmux server exits with its last session
  Disturbances,     \* what users do by hand, a subset of UserActs
  Limits            \* bounds: how many commands, faults, crashes, user acts

VARIABLES
  db,               \* the state database
  tmux,             \* live sessions and the server's next session ID
  docker,           \* each container's state
  holder, phase, want, \* the locks, as in FileLocks
  cmd,              \* the command each process runs, or NULL
  at,               \* the call each process makes next
  snap,             \* what each process remembers of its observations
  disturbed,        \* processes during whose command a user acted by hand
  left              \* what remains of Limits

\* Workspaces are locked under the ID they resolve to, never a recorded one.
LockedID == {ws.id : ws \in Resolvable}

Store == INSTANCE StateStore
Locks == INSTANCE FileLocks WITH Repository <- RepositoryID,
                                 Workspace <- LockedID
Plan == INSTANCE Planning

lockVars == <<holder, phase, want>>
vars == <<db, tmux, docker, lockVars, cmd, at, snap, disturbed, left>>

UserActs == {"kill", "rename", "occupy", "retag", "docker start",
             "docker stop", "docker rm", "lose database"}

\* Both kinds of lock key are hex digests, of different inputs.
ASSUME LockKeysAssumption ==
  /\ RepositoryID \cap LockedID = {}
  /\ NULL \notin Process \cup RepositoryID \cup LockedID

ASSUME DisturbancesAssumption == Disturbances \subseteq UserActs

\* What module StateStore assumes of its constants.
ASSUME StoreAssumption ==
  /\ Store!CandidatesDiffer /\ Store!NullIsNoValue
  /\ Store!IDsAreDigests /\ Store!InitialsAreSound

(***************************************************************************)
(* open: container says that one of its windows demands a container.       *)
(* stop: container and force are its flags.  autostart has no workspace.   *)
(***************************************************************************)
CommandShape ==
  [op : {"open", "stop", "bind", "autostart"}, ws : Resolvable \cup {NULL},
   repo : RepositoryID, digest : Digest \cup {NULL}, bind : Bind \cup {NULL},
   container : BOOLEAN, force : BOOLEAN]

ASSUME CommandsAssumption ==
  /\ Commands \subseteq CommandShape
  /\ \A c \in Commands : IF c.op = "autostart" THEN c.ws = NULL
                         ELSE c.ws # NULL /\ c.repo = c.ws.repository_id
  /\ \A c \in Commands : c.op = "open" => c.digest # NULL
  /\ EmptyDigest \in Digest

\* Mutant: only a stop is thought to touch the container.
FootprintOfStopsOnly(c) ==
  [repository |-> IF c.op \in {"bind", "open"} \/ (c.op = "stop" /\ ~c.container)
                  THEN NULL ELSE c.repo,
   workspace |-> IF c.op = "autostart" THEN NULL ELSE c.ws.id]

\* Mutant: no stop takes the repository's lock.
FootprintOfSessionStop(c) ==
  [repository |-> IF c.op \in {"bind", "stop"} THEN NULL ELSE c.repo,
   workspace |-> IF c.op = "autostart" THEN NULL ELSE c.ws.id]

\* The keys a command locks: the repository's when it may touch the container.
FootprintOf(c) ==
  [repository |-> IF c.op = "bind" \/ (c.op = "stop" /\ ~c.container)
                  THEN NULL ELSE c.repo,
   workspace |-> IF c.op = "autostart" THEN NULL ELSE c.ws.id]

\* The first call of a command.
Entry(c) == IF c.op = "open" THEN "register" ELSE "read"

\* What an external observation brings: a live session with its identity keys,
\* and a container, in the terms of module Planning.
SessionRow == [sid : Nat, name : Name,
               keys : [id : WorkspaceID \cup {NULL},
                       place : (Root \X Session) \cup {NULL}]]

ContainerView ==
  {Plan!MissingContainer, Plan!UnknownContainer}
    \cup [health : {"present"}, container : Container, bound : BOOLEAN]

\* What a command reads of the store: the row it may have, and the container of
\* its repository.
StoredRow == [row : Store!WorkspaceRow \cup {NULL},
              binding : Store!BindingRow \cup {NULL}]

\* Each record is told from its absence.
ASSUME RecordsAssumption ==
  NULL \notin SessionRow \cup ContainerView \cup StoredRow \cup Store!BindingRow
               \cup Store!WorkspaceRow \cup Store!Observation \cup CommandShape
               \cup Resolvable \cup (Root \X Session)

\* A tmux server numbers its sessions upwards and keeps their names apart.
ASSUME SessionsAssumption ==
  /\ IsFiniteSet(InitialSessions) /\ InitialSessions \subseteq SessionRow
  /\ \A s \in InitialSessions : s.sid < Cardinality(InitialSessions)
  /\ \A s, t \in InitialSessions : s.sid = t.sid \/ s.name = t.name => s = t

NoSnap == [stored |-> NULL, state |-> "absent", live |-> NULL, by_name |-> {},
           container |-> NULL, session |-> NULL, name |-> NULL]

Init ==
  /\ db \in InitialDatabases
  /\ tmux = [sessions |-> InitialSessions, next |-> Cardinality(InitialSessions)]
  /\ docker = [c \in Container |-> "absent"]
  /\ Locks!Init
  /\ cmd = [p \in Process |-> NULL]
  /\ at = [p \in Process |-> "over"]
  /\ snap = [p \in Process |-> NoSnap]
  /\ disturbed = {}
  /\ left = Limits

-----------------------------------------------------------------------------
(* tmux *)

\* A new session gets the server's next ID, which nothing reuses while the
\* server lives.
WithSession(name, keys) ==
  [sessions |-> tmux.sessions
                  \cup {[sid |-> tmux.next, name |-> name, keys |-> keys]},
   next |-> tmux.next + 1]

\* The server exits with its last session unless told otherwise, and a new
\* one counts from zero.
WithoutSession(s) ==
  LET rest == tmux.sessions \ {s}
  IN [sessions |-> rest,
      next |-> IF rest = {} /\ ExitEmpty THEN 0 ELSE tmux.next]

\* A server that never had a session has not been started either.
ServerGone == ExitEmpty /\ tmux.sessions = {}

NameInUse(n) == \E s \in tmux.sessions : s.name = n

ClaimantsOf(id) == {s \in tmux.sessions : Plan!Claims(s, id)}

\* ObserveSession: two claimants of one workspace are an error, like a tmux
\* that does not answer.
TmuxView(id, names) ==
  LET claimants == ClaimantsOf(id)
      named == {s \in tmux.sessions : s.name \in names}
  IN CASE Cardinality(claimants) > 1 ->
            [state |-> "unknown", live |-> NULL, by_name |-> {}]
       [] claimants = {} ->
            [state |-> "absent", live |-> NULL, by_name |-> named]
       [] OTHER -> [state |-> "live", live |-> CHOOSE s \in claimants : TRUE,
                    by_name |-> named]

\* The names an observation asks for: the proposed one and the recorded one.
CandidateNames(ws, stored) ==
  {ws.session_name} \cup
    IF stored = NULL THEN {} ELSE {stored.row.actual_session} \ {NULL}

(* docker and devcontainer *)

\* docker inspect: a container that is not running is missing.
Probed(c) == IF docker[c] = "running" THEN Plan!PresentContainer(c, TRUE)
             ELSE Plan!MissingContainer

\* docker ps by the repository's label: labels supply no user or directory,
\* and several running matches are an error.
Discovered(r) ==
  LET running == {c \in Container : OwnerOf[c] = r /\ docker[c] = "running"}
  IN CASE Cardinality(running) > 1 -> Plan!UnknownContainer
       [] running = {} -> Plan!MissingContainer
       [] OTHER -> Plan!PresentContainer(CHOOSE c \in running : TRUE, FALSE)

\* observeContainer: applicability comes before the stored binding.
Observed(r, binding) ==
  IF r \notin Containerized THEN NULL
  ELSE IF binding # NULL THEN Probed(binding.container) ELSE Discovered(r)

\* retryContainerObservation: an open probes its binding again without asking
\* whether a container applies.
Reobserved(c, binding) ==
  IF c.op = "open" /\ binding # NULL THEN Probed(binding.container)
  ELSE Observed(c.repo, binding)

\* devcontainer up reuses a container of the folder, or creates one.
UpTargets(r) ==
  LET own(states) == {c \in Container : OwnerOf[c] = r /\ docker[c] \in states}
  IN IF own({"stopped", "running"}) # {} THEN own({"stopped", "running"})
     ELSE own({"absent"})

-----------------------------------------------------------------------------
(* Steps *)

RowOf(ws) == db.workspaces[ws.id]

Spend(what) ==
  /\ left[what] > 0
  /\ left' = [left EXCEPT ![what] = @ - 1]

Goto(p, l) == at' = [at EXCEPT ![p] = l]

\* A step of a command at work: the call named here, then the one named next.
Step(p, ops, here, next) ==
  /\ phase[p] = "held"
  /\ at[p] = here
  /\ cmd[p].op \in ops
  /\ Goto(p, next)
  /\ UNCHANGED <<lockVars, cmd, disturbed>>

\* Where the command goes when the call it is at fails: most failures of an
\* open, and of a stop that has a record, are recorded before they are
\* returned.
OnError(p) ==
  CASE at[p] \in {"register", "fail"} -> "error"
    [] at[p] = "commit" -> IF snap[p].session = "create" THEN "fail" ELSE "error"
    [] OTHER -> IF cmd[p].op = "open" \/ (cmd[p].op = "stop" /\ snap[p].stored # NULL)
                THEN "fail" ELSE "error"

\* The calls whose failure ends the command without a further look.
Fallible == {"register", "bind", "read", "look", "siblings", "kill",
             "stop_container", "reprobe", "upping", "adopt", "allocate",
             "occupant", "create", "confirm", "commit", "record", "fail"}

\* The call at hand fails and has changed nothing.  An open goes on after a
\* tmux observation that failed, see Looks.
CallFails(p) ==
  /\ at[p] \in Fallible
  /\ ~(at[p] = "look" /\ cmd[p].op = "open")
  /\ Step(p, {"open", "stop", "bind", "autostart"}, at[p], OnError(p))
  /\ Spend("faults")
  /\ UNCHANGED <<db, tmux, docker, snap>>

\* An external call took effect; it succeeds, or is reported as failed.
Answers(p, ops, here, next) ==
  \/ Step(p, ops, here, next) /\ UNCHANGED left
  \/ Step(p, ops, here, OnError(p)) /\ Spend("faults")
-----------------------------------------------------------------------------
(* The calls *)

\* RegisterWorkspace: an open's first call, and a bind's on a session never
\* opened, which has no digest to claim.
Registers(p) ==
  /\ Step(p, {"open", "bind"}, "register",
          IF cmd[p].op = "open" /\ cmd[p].bind = NULL THEN "read" ELSE "bind")
  /\ Store!RegisterWorkspace(cmd[p].ws, IF cmd[p].op = "open" THEN cmd[p].digest
                                        ELSE EmptyDigest)
  /\ UNCHANGED <<tmux, docker, snap, left>>

\* SetBind: a NULL bind clears it.
Binds(p) ==
  /\ Step(p, {"open", "bind"}, "bind", IF cmd[p].op = "open" THEN "read" ELSE "ok")
  /\ Store!SetBind(cmd[p].ws.id, cmd[p].bind)
  /\ UNCHANGED <<tmux, docker, snap, left>>

\* The stored record, or NULL.
StoredRecord(id) == IF Store!Known(id) THEN Store!Record(id) ELSE NULL

Reads(p) ==
  LET c == cmd[p]
      stored == StoredRecord(c.ws.id)
      shared == c.container /\ ~c.force /\ stored # NULL /\ stored.binding # NULL
  IN /\ \/ Step(p, {"open"}, "read", "look")
        \/ Step(p, {"stop"}, "read", IF shared THEN "siblings" ELSE "look")
        \/ Step(p, {"bind"}, "read", IF stored = NULL THEN "register" ELSE "bind")
     /\ snap' = [snap EXCEPT ![p].stored = stored]
     /\ UNCHANGED <<db, tmux, docker, left>>

\* autostart reads its repository again under the lock, and gives up on one
\* that is gone.
ReadsRepository(p) ==
  /\ Step(p, {"autostart"}, "read",
          IF Store!KnownRepository(cmd[p].repo) THEN "probe" ELSE "error")
  /\ snap' = [snap EXCEPT ![p].stored =
       [row |-> NULL, binding |-> Store!BindingOf(cmd[p].repo)]]
  /\ UNCHANGED <<db, tmux, docker, left>>

\* An open observes tmux.  A failure is uncertainty that the plan refuses on.
OpenLooks(p) ==
  LET ws == cmd[p].ws
      view == TmuxView(ws.id, CandidateNames(ws, snap[p].stored))
  IN /\ Step(p, {"open"}, "look", "probe")
     /\ \/ /\ snap' = [snap EXCEPT ![p].state = view.state, ![p].live = view.live,
                                   ![p].by_name = view.by_name]
           /\ UNCHANGED left
        \/ /\ snap' = [snap EXCEPT ![p].state = "unknown"]
           /\ Spend("faults")
     /\ UNCHANGED <<db, tmux, docker>>

\* Once its container is settled, an open renders its windows, which fails
\* when one demands a container there is none for, and does what was planned.
AfterContainer(p, session, obs) ==
  IF cmd[p].op = "autostart" THEN (IF obs = NULL THEN "ok" ELSE "record")
  ELSE IF cmd[p].container /\ obs = NULL THEN "fail"
  ELSE CASE session = "none" -> "commit"
         [] session = "adopt" -> "adopt"
         [] OTHER -> "allocate"

\* A settled container, if it is there to run windows in.
Settled(obs) == IF obs # NULL /\ obs.health = "present" THEN obs ELSE NULL

\* The container is observed, and the plan made from the whole snapshot, of
\* which only what later calls use is kept.
Probes(p) ==
  LET c == cmd[p]
      session == IF c.op = "open" THEN Plan!SessionAction(snap[p], c.ws) ELSE NULL
      Then(obs) ==
        /\ Step(p, {"open", "autostart"}, "probe",
                CASE session = "refuse" -> "fail"
                  [] session # "refuse" /\ Plan!ContainerAction(obs) = "probe-first"
                       -> "reprobe"
                  [] session # "refuse" /\ Plan!ContainerAction(obs) \in {"start", "acquire"}
                       -> "up"
                  [] OTHER -> AfterContainer(p, session, Settled(obs)))
        /\ snap' = [snap EXCEPT ![p] = [NoSnap EXCEPT
             !.session = session, !.container = Settled(obs),
             !.stored = IF at'[p] = "reprobe" THEN snap[p].stored ELSE NULL,
             !.live = IF session = "adopt" THEN snap[p].live ELSE NULL]]
        /\ UNCHANGED <<db, tmux, docker>>
  IN \/ Then(Observed(c.repo, snap[p].stored.binding)) /\ UNCHANGED left
     \/ Then(Plan!UnknownContainer) /\ Spend("faults")

\* One retry of an observation that failed; a second failure ends the command.
Reprobes(p) ==
  LET c == cmd[p]
      obs == Reobserved(c, snap[p].stored.binding)
  IN /\ Step(p, {"open", "autostart"}, "reprobe",
             CASE Plan!ContainerAction(obs) = "probe-first" -> OnError(p)
               [] Plan!ContainerAction(obs) \in {"start", "acquire"} -> "up"
               [] OTHER -> AfterContainer(p, snap[p].session, Settled(obs)))
     /\ snap' = [snap EXCEPT ![p].container = Settled(obs), ![p].stored = NULL]
     /\ UNCHANGED <<db, tmux, docker, left>>

\* devcontainer up decides which container it is about.
BeginsUp(p) ==
  /\ Step(p, {"open", "autostart"}, "up", "upping")
  /\ \E c \in UpTargets(cmd[p].repo) :
       snap' = [snap EXCEPT ![p].container = Plan!PresentContainer(c, TRUE)]
  /\ UNCHANGED <<db, tmux, docker, left>>

\* It ends with the container running, unless somebody removed it meanwhile.
EndsUp(p) ==
  LET obs == snap[p].container
  IN /\ at[p] = "upping"
     /\ \/ /\ docker[obs.container] # "removed"
           /\ docker' = [docker EXCEPT ![obs.container] = "running"]
           /\ Answers(p, {"open", "autostart"}, "upping",
                      AfterContainer(p, snap[p].session, obs))
        \/ /\ docker[obs.container] = "removed"
           /\ Step(p, {"open", "autostart"}, "upping", OnError(p))
           /\ UNCHANGED <<docker, left>>
     /\ UNCHANGED <<db, tmux, snap>>

\* The live session's name is recorded, unless another row has it.
Adopts(p) ==
  LET id == cmd[p].ws.id
      name == snap[p].live.name
  IN /\ \/ /\ Step(p, {"open"}, "adopt", "commit")
           /\ Store!AdoptSessionName(id, name)
        \/ /\ Step(p, {"open"}, "adopt", "fail")
           /\ Store!NameTaken(name, id)
           /\ UNCHANGED db
     /\ UNCHANGED <<tmux, docker, snap, left>>

\* Mutant: the name is chosen and only recorded when everything is done.
AllocatesUnrecorded(p) ==
  \E name \in Name :
    /\ Step(p, {"open"}, "allocate", "occupant")
    /\ name = RowOf(cmd[p].ws).proposed_session
    /\ snap' = [snap EXCEPT ![p].name = name]
    /\ UNCHANGED <<db, tmux, docker, left>>

Allocates(p) ==
  \E name \in Name \cup {NULL} :
    /\ Step(p, {"open"}, "allocate", IF name = NULL THEN "fail" ELSE "occupant")
    /\ Store!AllocateSessionName(cmd[p].ws.id, name)
    /\ snap' = [snap EXCEPT ![p].name = name]
    /\ UNCHANGED <<tmux, docker, left>>

\* The allocated name may be one the first observation did not ask for.
LooksForOccupant(p) ==
  LET view == TmuxView(cmd[p].ws.id, {snap[p].name})
  IN /\ Step(p, {"open"}, "occupant",
             IF view.state = "unknown" \/ view.by_name # {} THEN "fail" ELSE "create")
     /\ UNCHANGED <<db, tmux, docker, snap, left>>

\* CreateSession makes the session and its four keys in one chain; tmux turns
\* down a name in use.
Creates(p) ==
  /\ IF NameInUse(snap[p].name)
     THEN Step(p, {"open"}, "create", "fail") /\ UNCHANGED <<tmux, left>>
     ELSE /\ Answers(p, {"open"}, "create", "confirm")
          /\ tmux' = WithSession(snap[p].name, Plan!KeysOf(cmd[p].ws))
  /\ UNCHANGED <<db, docker, snap>>

Confirms(p) ==
  LET ws == cmd[p].ws
      view == TmuxView(ws.id, CandidateNames(ws, StoredRecord(ws.id)))
  IN /\ Step(p, {"open"}, "confirm",
             IF Plan!ConfirmsCreation(view, ws, snap[p].name) THEN "commit" ELSE "fail")
     /\ UNCHANGED <<db, tmux, docker, snap, left>>

\* liveSiblings: whether any other session recorded on the repository is live.
SiblingsLive(ws) ==
  \E w \in Store!OnRepositories({ws.repository_id}) \ {ws.id} : ClaimantsOf(w) # {}

ChecksSiblings(p) ==
  /\ Step(p, {"stop"}, "siblings", IF SiblingsLive(cmd[p].ws) THEN "fail" ELSE "look")
  /\ UNCHANGED <<db, tmux, docker, snap, left>>

\* Where a stop goes once the session is gone.
AfterSession(p) ==
  LET stored == snap[p].stored
  IN CASE cmd[p].container /\ stored # NULL /\ stored.binding # NULL -> "stop_container"
       [] stored # NULL /\ ~(cmd[p].container /\ stored.binding # NULL) -> "commit"
       [] OTHER -> "ok"

\* Mutant: a session that was not found is killed all the same.
StopLooksAndKills(p) ==
  LET ws == cmd[p].ws
      view == TmuxView(ws.id, CandidateNames(ws, snap[p].stored))
  IN /\ Step(p, {"stop"}, "look", IF view.state = "unknown" THEN OnError(p) ELSE "kill")
     /\ snap' = [snap EXCEPT ![p].live = view.live]
     /\ UNCHANGED <<db, tmux, docker, left>>

StopLooks(p) ==
  LET ws == cmd[p].ws
      view == TmuxView(ws.id, CandidateNames(ws, snap[p].stored))
  IN /\ Step(p, {"stop"}, "look",
             CASE view.state = "unknown" -> OnError(p)
               [] view.state = "absent" -> AfterSession(p)
               [] view.state = "live" /\ ~Plan!SessionBelongsTo(view.live, ws) -> OnError(p)
               [] OTHER -> "kill")
     /\ snap' = [snap EXCEPT ![p].live = view.live]
     /\ UNCHANGED <<db, tmux, docker, left>>

\* Mutant: the session is killed by the name it was seen under.
KillsByName(p) ==
  /\ Answers(p, {"stop"}, "kill", AfterSession(p))
  /\ LET targets == {s \in tmux.sessions : s.name = snap[p].live.name}
     IN IF targets = {} THEN UNCHANGED tmux
        ELSE \E s \in targets : tmux' = WithoutSession(s)
  /\ UNCHANGED <<db, docker, snap>>

\* KillSession by ID: a session that is gone already is as good as killed, but
\* a server that is gone with its last session is an error.
Kills(p) ==
  LET targets == {s \in tmux.sessions : s.sid = snap[p].live.sid}
  IN /\ \/ /\ ~ServerGone
           /\ Answers(p, {"stop"}, "kill", AfterSession(p))
        \/ /\ ServerGone
           /\ Step(p, {"stop"}, "kill", OnError(p))
           /\ UNCHANGED left
     /\ IF targets = {} THEN UNCHANGED tmux
        ELSE \E s \in targets : tmux' = WithoutSession(s)
     /\ UNCHANGED <<db, docker, snap>>

\* docker stop: a container that is stopped or gone is as good as stopped.
StopsContainer(p) ==
  LET c == snap[p].stored.binding.container
  IN /\ Answers(p, {"stop"}, "stop_container", "commit")
     /\ docker' = [docker EXCEPT ![c] = IF @ = "running" THEN "stopped" ELSE @]
     /\ snap' = [snap EXCEPT ![p].container = Plan!MissingContainer]
     /\ UNCHANGED <<db, tmux>>

\* toStateObservation
StateObservation(obs) == [container |-> obs.container, health |-> obs.health]

\* The outcome is recorded, with the container in the same transaction when
\* one was observed and with the applied digest after a creation.
Commits(p) ==
  LET c == cmd[p]
      obs == snap[p].container
      digest == IF snap[p].session = "create" THEN c.digest ELSE NULL
  IN /\ Step(p, {"open", "stop"}, "commit", "ok")
     /\ IF digest = NULL /\ obs = NULL THEN Store!RecordOperation(c.ws.id, "ok")
        ELSE Store!CommitReconciliation(c.ws.id, digest,
               IF obs = NULL THEN NULL ELSE StateObservation(obs), "ok")
     /\ UNCHANGED <<tmux, docker, snap, left>>

\* recordBinding
RecordsBinding(p) ==
  /\ Step(p, {"autostart"}, "record", "ok")
  /\ Store!RecordContainerObservation(cmd[p].repo, StateObservation(snap[p].container))
  /\ UNCHANGED <<tmux, docker, snap, left>>

\* recordFailure: nothing can be recorded of a session without a row.
RecordsFailure(p) ==
  /\ Step(p, {"open", "stop"}, "fail", "error")
  /\ IF Store!Known(cmd[p].ws.id) THEN Store!RecordOperation(cmd[p].ws.id, "failed")
     ELSE UNCHANGED db
  /\ UNCHANGED <<tmux, docker, snap, left>>

-----------------------------------------------------------------------------
(* Processes *)

\* A command starts and asks for its locks.
Starts(p) ==
  /\ Spend("commands")
  /\ Locks!Begin(p)
  /\ \E c \in Commands :
       /\ want'[p] = FootprintOf(c)
       /\ cmd' = [cmd EXCEPT ![p] = c]
       /\ Goto(p, Entry(c))
  /\ UNCHANGED <<db, tmux, docker, snap, disturbed>>

\* A process that ends leaves nothing of itself but what it did.
Forgets(p) ==
  /\ cmd' = [cmd EXCEPT ![p] = NULL]
  /\ snap' = [snap EXCEPT ![p] = NoSnap]
  /\ Goto(p, "over")
  /\ disturbed' = disturbed \ {p}

TakesLock(p) ==
  /\ Locks!TakeRepository(p) \/ Locks!TakeWorkspace(p)
  /\ UNCHANGED <<db, tmux, docker, cmd, at, snap, disturbed, left>>

\* The wait for a lock runs out, and the command ends having done nothing.
GivesUp(p) ==
  /\ Locks!TimeOut(p)
  /\ IF phase'[p] = "idle" THEN Forgets(p) ELSE UNCHANGED <<cmd, at, snap, disturbed>>
  /\ UNCHANGED <<db, tmux, docker, left>>

\* Mutant: an error path returns without the release.
ReleasesOnSuccess(p) ==
  /\ \/ at[p] = "ok" /\ Locks!Finish(p)
     \/ Locks!UnlockWorkspace(p)
     \/ Locks!UnlockRepository(p)
  /\ IF phase'[p] = "idle" THEN Forgets(p) ELSE UNCHANGED <<cmd, at, snap, disturbed>>
  /\ UNCHANGED <<db, tmux, docker, left>>

\* The deferred release.
Releases(p) ==
  /\ \/ at[p] \in {"ok", "error"} /\ Locks!Finish(p)
     \/ Locks!UnlockWorkspace(p)
     \/ Locks!UnlockRepository(p)
  /\ IF phase'[p] = "idle" THEN Forgets(p) ELSE UNCHANGED <<cmd, at, snap, disturbed>>
  /\ UNCHANGED <<db, tmux, docker, left>>

\* The process is killed between two calls.
Crashes(p) ==
  /\ Spend("crashes")
  /\ Locks!Crash(p)
  /\ Forgets(p)
  /\ UNCHANGED <<db, tmux, docker>>

Call(p) ==
  \/ Registers(p) \/ Binds(p) \/ Reads(p) \/ ReadsRepository(p)
  \/ OpenLooks(p) \/ Probes(p) \/ Reprobes(p) \/ BeginsUp(p) \/ EndsUp(p)
  \/ Adopts(p) \/ Allocates(p) \/ LooksForOccupant(p) \/ Creates(p) \/ Confirms(p)
  \/ ChecksSiblings(p) \/ StopLooks(p) \/ Kills(p) \/ StopsContainer(p)
  \/ Commits(p) \/ RecordsBinding(p) \/ RecordsFailure(p)

-----------------------------------------------------------------------------
(* Users, who take no locks *)

Active == {p \in Process : phase[p] # "idle"}

ByHand(act) ==
  /\ act \in Disturbances
  /\ Spend("acts")
  /\ disturbed' = disturbed \cup Active
  /\ UNCHANGED <<lockVars, cmd, at, snap>>

UserKills ==
  /\ ByHand("kill")
  /\ \E s \in tmux.sessions : tmux' = WithoutSession(s)
  /\ UNCHANGED <<db, docker>>

UserRenames ==
  /\ ByHand("rename")
  /\ \E s \in tmux.sessions, n \in Name :
       /\ ~NameInUse(n)
       /\ tmux' = [tmux EXCEPT !.sessions = (@ \ {s}) \cup {[s EXCEPT !.name = n]}]
  /\ UNCHANGED <<db, docker>>

\* A session of the user's own, under any free name.
UserOccupies ==
  /\ ByHand("occupy")
  /\ \E n \in Name : ~NameInUse(n) /\ tmux' = WithSession(n, Plan!NoKeys)
  /\ UNCHANGED <<db, docker>>

\* Another of the identity keys than the ID is overwritten.
UserRetags ==
  /\ ByHand("retag")
  /\ \E s \in tmux.sessions :
       tmux' = [tmux EXCEPT !.sessions =
                  (@ \ {s}) \cup {[s EXCEPT !.keys.place = NULL]}]
  /\ UNCHANGED <<db, docker>>

UserActsOnDocker ==
  /\ \E c \in Container :
       \/ /\ ByHand("docker stop") /\ docker[c] = "running"
          /\ docker' = [docker EXCEPT ![c] = "stopped"]
       \/ /\ ByHand("docker start") /\ docker[c] = "stopped"
          /\ docker' = [docker EXCEPT ![c] = "running"]
       \/ /\ ByHand("docker rm") /\ docker[c] \in {"stopped", "running"}
          /\ docker' = [docker EXCEPT ![c] = "removed"]
  /\ UNCHANGED <<db, tmux>>

\* The database is deleted while no command runs.
UserLosesDatabase ==
  /\ Active = {}
  /\ ByHand("lose database")
  /\ db' = Store!EmptyDatabase
  /\ UNCHANGED <<tmux, docker>>

User == \/ UserKills \/ UserRenames \/ UserOccupies \/ UserRetags
        \/ UserActsOnDocker \/ UserLosesDatabase

\* Between commands nothing has to happen.
Rests == Active = {} /\ UNCHANGED vars

\* A step of the command process p runs, or the start of one.
Runs(p) == \/ Starts(p) \/ TakesLock(p) \/ GivesUp(p) \/ Call(p) \/ CallFails(p)
           \/ Releases(p) \/ Crashes(p)

Next == (\E p \in Process : Runs(p)) \/ User \/ Rests

Spec == Init /\ [][Next]_vars

\* A running command keeps going: its calls all have a timeout of their own.
FairSpec ==
  Spec /\ \A p \in Process :
            WF_vars(TakesLock(p) \/ GivesUp(p) \/ Call(p) \/ Releases(p))

-----------------------------------------------------------------------------

Places == Fallible \cup {"over", "probe", "up", "ok", "error"}

(***************************************************************************)
(* The state is of its shape: tmux keeps names and IDs unique and numbers  *)
(* sessions upwards, a process has a command exactly while it runs, and a  *)
(* call that needs an earlier result has one: a kill a session, a create a *)
(* name, a stop or a record a container (the nil checks of stop.go and     *)
(* autostart.go).                                                          *)
(***************************************************************************)
TypeOK ==
  /\ Store!TypeOK
  /\ Locks!TypeOK
  /\ docker \in [Container -> {"absent", "stopped", "running", "removed"}]
  /\ at \in [Process -> Places]
  /\ \A p \in Process :
       IF phase[p] = "idle" THEN cmd[p] = NULL /\ snap[p] = NoSnap
       ELSE cmd[p] \in Commands
  /\ \A p \in Process :
       /\ at[p] \in {"kill", "adopt"} => snap[p].live # NULL
       /\ at[p] \in {"occupant", "create", "confirm"} => snap[p].name \in Name
       /\ at[p] \in {"upping", "record"} => snap[p].container # NULL
       /\ at[p] = "stop_container" => snap[p].stored.binding # NULL
  /\ \A s \in tmux.sessions : s.sid < tmux.next /\ s.name \in Name
  /\ \A s, t \in tmux.sessions : s.sid = t.sid \/ s.name = t.name => s = t

(***************************************************************************)
(* A workspace never has two live sessions: whatever commands race, fail   *)
(* or die, and whatever users rename, an open that cannot see the first    *)
(* session does not create a second (ensure.go, plan.go).                  *)
(***************************************************************************)
OneSessionPerWorkspace ==
  \A w \in WorkspaceID : Cardinality(ClaimantsOf(w)) <= 1

(***************************************************************************)
(* A repository never gets a second container: every devcontainer up runs  *)
(* under the repository's lock, whichever session or autostart asks for it *)
(* (locking.go, autostart.go).                                             *)
(***************************************************************************)
OneContainerPerRepository ==
  \A r \in RepositoryID :
    Cardinality({c \in Container :
      OwnerOf[c] = r /\ docker[c] \in {"stopped", "running"}}) <= 1

\* Process p makes the call l in this step, rather than being killed.
Makes(p, l) == at[p] = l /\ at'[p] \notin {l, "over"}

(***************************************************************************)
(* A stop kills no session but one that claims its workspace, however the  *)
(* sessions were renamed or replaced since it looked (stop.go: "a          *)
(* replacement session reusing the name between observation and kill must  *)
(* survive").                                                              *)
(***************************************************************************)
KillHitsOwnSession ==
  [][\A p \in Process, s \in tmux.sessions :
       Makes(p, "kill") /\ s \notin tmux'.sessions
         => Plan!Claims(s, cmd[p].ws.id)]_vars

(***************************************************************************)
(* An unforced stop --container stops the container only while no recorded *)
(* sibling is live.  The check is made several calls before the stop, and  *)
(* the repository lock has to keep siblings from opening between them      *)
(* (stop.go: "exactly the race the check exists to prevent").              *)
(***************************************************************************)
StopSparesSiblings ==
  [][\A p \in Process :
       Makes(p, "stop_container") /\ docker' # docker /\ ~cmd[p].force
         => ~SiblingsLive(cmd[p].ws)]_vars

BindingPresent(r) ==
  LET b == Store!BindingOf(r)
  IN b # NULL /\ b.health = "present" /\ docker[b.container] = "running"

\* What a command that reports success has brought about.
Achieved(c, created) ==
  CASE c.op = "open" ->
         /\ Store!Known(c.ws.id)
         /\ \E s \in tmux.sessions :
              Plan!SessionBelongsTo(s, c.ws) /\ RowOf(c.ws).actual_session = s.name
         /\ c.repo \in Containerized => BindingPresent(c.repo)
         /\ created => RowOf(c.ws).applied_digest = c.digest
         /\ c.bind # NULL => RowOf(c.ws).bind = c.bind
    [] c.op = "stop" ->
         /\ ClaimantsOf(c.ws.id) = {}
         /\ c.container /\ Store!Known(c.ws.id) /\ Store!BindingOf(c.repo) # NULL
              => docker[Store!BindingOf(c.repo).container] # "running"
    [] c.op = "bind" -> Store!Known(c.ws.id) /\ RowOf(c.ws).bind = c.bind
    [] OTHER -> c.repo \in Containerized => BindingPresent(c.repo)

(***************************************************************************)
(* A command that reports success tells the truth while it still holds its *)
(* locks, unless a user acted meanwhile: no other command, failed call or  *)
(* crash can have undone or outrun what it decided on (ensure.go, stop.go, *)
(* bind.go, autostart.go).                                                 *)
(***************************************************************************)
SuccessIsTrue ==
  \A p \in Process :
    phase[p] = "held" /\ at[p] = "ok" /\ p \notin disturbed
      => Achieved(cmd[p], snap[p].session = "create")

(***************************************************************************)
(* A session projectmux created is live only under the name its row        *)
(* records, at every moment: the name is recorded before tmux is asked, so *)
(* a crash in between loses no session (ensure.go, createSession).         *)
(***************************************************************************)
RecordNamesSession ==
  \A s \in tmux.sessions, ws \in Resolvable :
    Plan!SessionBelongsTo(s, ws)
      => Store!Known(ws.id) /\ RowOf(ws).actual_session = s.name

(***************************************************************************)
(* Where every call succeeds and no user interferes, no crash at any point *)
(* of any command makes a later open or bind fail or be refused.           *)
(***************************************************************************)
CrashNeverWedges ==
  \A p \in Process :
    phase[p] = "held" /\ cmd[p].op \in {"open", "bind"}
      => at[p] \notin {"fail", "error"}

(***************************************************************************)
(* A command that started ends: no wait for a lock, no retry of an         *)
(* observation and no failure path goes round in circles.                  *)
(***************************************************************************)
EveryCommandEnds == \A p \in Process : phase[p] # "idle" ~> phase[p] = "idle"
=============================================================================
