----------------------------- MODULE Observation -----------------------------
(***************************************************************************)
(* What list, status, doctor and attach make of an installation that       *)
(* changes while they look (internal/tmux: Sessions; internal/cli: list,   *)
(* status, doctor, attach; internal/doctor).                               *)
(*                                                                         *)
(* None of them takes a lock.  Each reads the records, lists tmux's        *)
(* sessions and asks for their values one call at a time; attach then      *)
(* connects by name.  Meanwhile commands open and stop workspaces, users   *)
(* end, rename and make sessions, and containers come and go.  tmux ends   *)
(* with its last session, and a new server numbers from $0 again.          *)
(***************************************************************************)
EXTENDS Naturals, Sequences, FiniteSets, Functions

CONSTANTS
  Workspace,    \* workspaces
  Name,         \* session names
  Installations,\* what there may be to begin with: [records, sessions]
  MaxEvents,    \* how often the installation changes during one command
  NULL          \* no key, no name, no session, an unregistered workspace

ASSUME ObservationAssumption == MaxEvents \in Nat /\ NULL \notin Workspace \cup Name

\* A session's name, and the values of its keys as far as it has them.
Session == [name : Name, ws : Workspace \cup {NULL}, keys : Workspace \cup {NULL}]

\* A name is recorded once, the server numbers its sessions upwards and keeps
\* their names apart, and a session whose keys agree has the name its
\* workspace is recorded with, if it is.
ASSUME InstallationsAssumption ==
  \A start \in Installations :
    LET S == start.sessions
        R == start.records
    IN /\ R \in [Workspace -> Name \cup {NULL}]
       /\ \A v, w \in Workspace : R[v] = R[w] /\ R[v] # NULL => v = w
       /\ IsFiniteSet(DOMAIN S) /\ S \in [DOMAIN S -> Session]
       /\ \A i \in DOMAIN S : i \in Nat /\ i < Cardinality(DOMAIN S)
       /\ \A i, j \in DOMAIN S : S[i].name = S[j].name => i = j
       /\ \A i \in DOMAIN S :
            S[i].ws # NULL /\ S[i].keys = S[i].ws => R[S[i].ws] \in {NULL, S[i].name}

VARIABLES
  sessions,   \* tmux: session id -> [name, ws, keys]
  counter,    \* the id the server gives next
  records,    \* the recorded session name of each workspace, NULL if unregistered
  container,  \* whether the bound container exists
  daemon,     \* whether docker is installed and answers
  events,     \* how often any of that has changed
  command, subject, pc,   \* the observer: its command and workspace, its place
  view,       \* how doctor may read the database
  read,       \* the records it has read
  queue,      \* the ids it has still to ask about
  values,     \* the values it has of the first of them
  live,       \* the sessions it has all values of
  failed,     \* whether tmux could not be observed
  probe,      \* what the probe of the binding found
  attached,   \* the session it connected to
  \* For the properties, all since the command began:
  steady,     \* the sessions that have not changed
  been,       \* what each id's sessions have been
  orphaned,   \* the workspaces that were unregistered with a session live
  gone,       \* whether the container has been missing
  renumbered, \* whether ids may have been given again
  meddled     \* whether a user has renamed or made a session

world == <<sessions, counter, records, container, daemon, events>>
finding == <<view, read, queue, values, live, failed, probe, attached>>
observer == <<command, subject, pc, finding>>
ghosts == <<steady, been, orphaned, gone, renumbered, meddled>>
observationVars == <<world, observer, ghosts>>

\* One display-message call each; "keys" stands for slug, worktree and session.
Field == <<"name", "ws", "keys">>

Serving == DOMAIN sessions # {}
Claims(S, w) == \E i \in DOMAIN S : S[i].ws = w
Seen(S) == {[id |-> i, name |-> S[i].name, ws |-> S[i].ws] : i \in DOMAIN S}

-----------------------------------------------------------------------------
\* What the others do.

\* Every change, and what the properties remember of it.
Remembers ==
  /\ events < MaxEvents /\ events' = events + 1
  /\ steady' = {i \in steady : i \in DOMAIN sessions' /\ sessions'[i] = sessions[i]}
  /\ been' = been \cup Seen(sessions')
  /\ orphaned' = orphaned \cup
       {w \in Workspace : Claims(sessions', w) /\ records'[w] = NULL}
  /\ gone' = (gone \/ ~container')
  /\ renumbered' = (renumbered \/ (Serving /\ DOMAIN sessions' = {}))
  /\ UNCHANGED observer

\* Mutant: a name is free when no session has it.
MayAllocateLive(w, n) == \A i \in DOMAIN sessions : sessions[i].name # n

\* AllocateSessionName: a name is recorded for one workspace only.
MayAllocate(w, n) == \A v \in Workspace \ {w} : records[v] # n

\* open registers its workspace and allocates a name before it creates.
Register(w) ==
  /\ records[w] = NULL
  /\ \E n \in Name : MayAllocate(w, n) /\ records' = [records EXCEPT ![w] = n]
  /\ UNCHANGED <<sessions, counter, container, daemon, meddled>>
  /\ Remembers

Starts(n, w) ==
  /\ \A i \in DOMAIN sessions : sessions[i].name # n
  /\ sessions' = [i \in DOMAIN sessions \cup {counter} |->
                    IF i \in DOMAIN sessions THEN sessions[i]
                    ELSE [name |-> n, ws |-> w, keys |-> w]]
  /\ counter' = counter + 1
  /\ UNCHANGED <<records, container, daemon>>
  /\ Remembers

CreateSession(w) ==
  /\ records[w] # NULL /\ ~Claims(sessions, w)
  /\ Starts(records[w], w)
  /\ UNCHANGED meddled

\* A user's own session carries no keys.
UserStarts == \E n \in Name : Starts(n, NULL) /\ meddled' = TRUE

\* stop, or a user, or the session's own last window.
End(i) ==
  /\ sessions' = [j \in DOMAIN sessions \ {i} |-> sessions[j]]
  /\ counter' = IF DOMAIN sessions = {i} THEN 0 ELSE counter
  /\ UNCHANGED <<records, container, daemon, meddled>>
  /\ Remembers

Rename(i) ==
  /\ \E n \in Name : /\ \A j \in DOMAIN sessions : sessions[j].name # n
                     /\ sessions' = [sessions EXCEPT ![i].name = n]
  /\ meddled' = TRUE
  /\ UNCHANGED <<counter, records, container, daemon>>
  /\ Remembers

DockerChanges ==
  /\ \E c \in BOOLEAN, d \in {"none", "down", "up"} : container' = c /\ daemon' = d
  /\ <<container, daemon>>' # <<container, daemon>>
  /\ UNCHANGED <<sessions, counter, records, meddled>>
  /\ Remembers

-----------------------------------------------------------------------------
\* The observer.

Init ==
  /\ \E start \in Installations :
       sessions = start.sessions /\ records = start.records
  /\ counter = Cardinality(DOMAIN sessions)
  /\ container \in BOOLEAN /\ daemon = "up"
  /\ events = 0
  /\ command \in {"list", "status", "attach", "doctor"}
  /\ subject \in IF command \in {"status", "attach"} THEN Workspace ELSE {NULL}
  /\ pc = IF command = "doctor" THEN "inspect" ELSE "records"
  /\ view = "through"
  /\ read = [w \in Workspace |-> NULL]
  /\ queue = <<>> /\ values = <<>> /\ live = {}
  /\ failed = FALSE
  /\ probe = "none"
  /\ attached = NULL
  /\ steady = DOMAIN sessions
  /\ been = Seen(sessions)
  /\ orphaned = {w \in Workspace : Claims(sessions, w) /\ records[w] = NULL}
  /\ gone = ~container
  /\ renumbered = FALSE
  /\ meddled = FALSE

Goto(l) == pc' = l /\ UNCHANGED <<world, command, subject, ghosts>>

\* inspectDatabase: doctor will query the rows through the log, has the image
\* of a file without a log, finds no database, or may query nothing.
InspectDatabase ==
  /\ pc = "inspect"
  /\ view' \in {"through", "image", "missing", "unusable"}
  /\ view' = "missing" => \A w \in Workspace : records[w] = NULL
  /\ read' = IF view' = "image" THEN records ELSE read
  /\ UNCHANGED <<queue, values, live, failed, probe, attached>>
  /\ Goto("list")

\* The records first, for everyone but doctor.
ReadRecords ==
  /\ pc = "records"
  /\ read' = records
  /\ UNCHANGED <<view, queue, values, live, failed, probe, attached>>
  /\ Goto("list")

\* list-sessions.  No server is absence.
ListSessions ==
  /\ pc = "list"
  /\ \E ids \in [1..Cardinality(DOMAIN sessions) -> DOMAIN sessions] :
       IsInjective(ids) /\ queue' = ids
  /\ UNCHANGED <<view, read, values, live, failed, probe, attached>>
  /\ Goto("fields")

\* A call fails, or cannot be run: tmux was not observed.
TmuxFails ==
  /\ pc \in {"list", "fields"}
  /\ pc = "fields" => queue # <<>>
  /\ failed' = TRUE /\ live' = {}
  /\ UNCHANGED <<view, read, queue, values, probe, attached>>
  /\ Goto("judge")

\* A session without a name has ended: the observation fails.
Nameless ==
  /\ failed' = TRUE /\ live' = {} /\ UNCHANGED <<queue, values>>
  /\ Goto("judge")

\* Mutant: the session is asked for by the name it was found to have.
TargetNamed ==
  IF values = <<>> THEN {Head(queue)} \cap DOMAIN sessions
  ELSE {i \in DOMAIN sessions : sessions[i].name = values[1]}

\* The session a call reaches: the one with the id now, if there is one.
Target == {Head(queue)} \cap DOMAIN sessions

\* display-message for the next value of the first session.  Without a session
\* it prints nothing and may still succeed, as long as there is a server.
ReadField ==
  /\ pc = "fields" /\ queue # <<>> /\ Serving
  /\ LET f == Field[Len(values) + 1]
         value == IF Target = {} THEN NULL ELSE sessions[CHOOSE i \in Target : TRUE][f]
         got == Append(values, value)
     IN IF got[1] = NULL THEN Nameless
        ELSE /\ IF Len(got) < Len(Field)
                THEN values' = got /\ UNCHANGED <<queue, live>>
                ELSE /\ live' = live \cup {[id |-> Head(queue), name |-> got[1],
                                            ws |-> got[2], keys |-> got[3]]}
                     /\ queue' = Tail(queue) /\ values' = <<>>
             /\ UNCHANGED failed /\ Goto("fields")
  /\ UNCHANGED <<view, read, probe, attached>>

AllRead ==
  /\ pc = "fields" /\ queue = <<>>
  /\ UNCHANGED finding
  /\ Goto("judge")

\* What is said of a workspace's session, by list's row and in a snapshot.
Claimants(w) == {s \in live : s.ws = w}
StateOf(w) ==
  IF failed \/ Cardinality(Claimants(w)) > 1 THEN "unknown"
  ELSE IF Claimants(w) = {} THEN "absent" ELSE "live"

\* doctor's orphaned-sessions: the rows, now or as in the image; and none where
\* the database could not be read.  stale-bindings is next.
JudgeSessions ==
  /\ pc = "judge" /\ command = "doctor"
  /\ read' = IF view = "through" THEN records ELSE read
  /\ UNCHANGED <<view, queue, values, live, failed, probe, attached>>
  /\ Goto("probe")

Orphans ==
  IF command # "doctor" \/ failed \/ view = "unusable" THEN {}
  ELSE {w \in Workspace : Claimants(w) # {} /\ read[w] = NULL}

\* Mutant: a docker that does not answer has no such container.
ProbeBindingFailing ==
  /\ pc = "probe"
  /\ probe' = IF view \in {"missing", "unusable"} THEN "none"
              ELSE IF daemon = "none" THEN "unknown"
              ELSE IF daemon = "up" /\ container THEN "present" ELSE "missing"
  /\ UNCHANGED <<view, read, queue, values, live, failed, attached>>
  /\ Goto("done")

\* staleBindings: only an answer of the daemon tells a missing container.
ProbeBinding ==
  /\ pc = "probe"
  /\ probe' = IF view \in {"missing", "unusable"} THEN "none"
              ELSE IF daemon # "up" THEN "unknown"
              ELSE IF container THEN "present" ELSE "missing"
  /\ UNCHANGED <<view, read, queue, values, live, failed, attached>>
  /\ Goto("done")

\* attach goes on only with a session that belongs to its workspace.
Belongs(s, w) == s.ws = w /\ s.keys = w

JudgeSubject ==
  /\ pc = "judge" /\ command # "doctor"
  /\ UNCHANGED finding
  /\ Goto(IF /\ command = "attach" /\ StateOf(subject) = "live"
             /\ \A s \in Claimants(subject) : Belongs(s, subject)
          THEN "connect" ELSE "done")

\* attach-session -t =name, whoever has the name by now.
Connect ==
  /\ pc = "connect"
  /\ LET name == (CHOOSE s \in live : s.ws = subject).name
         found == {i \in DOMAIN sessions : sessions[i].name = name}
     IN attached' = IF found = {} THEN NULL ELSE sessions[CHOOSE i \in found : TRUE]
  /\ UNCHANGED <<view, read, queue, values, live, failed, probe>>
  /\ Goto("done")

Observe ==
  \/ InspectDatabase \/ ReadRecords \/ ListSessions \/ ReadField \/ TmuxFails
  \/ AllRead \/ JudgeSessions \/ JudgeSubject \/ ProbeBinding \/ Connect

Others ==
  /\ pc # "done"
  /\ \/ \E w \in Workspace : Register(w) \/ CreateSession(w)
     \/ UserStarts \/ DockerChanges
     \/ \E i \in DOMAIN sessions : End(i) \/ Rename(i)

Next == Observe \/ Others

Spec == Init /\ [][Next]_observationVars

-----------------------------------------------------------------------------
(***************************************************************************)
(* What an observation says of tmux is so: it misses no session that was   *)
(* there all along, failing instead ("an error, which callers must render  *)
(* as uncertainty, never as absence", tmux.go:67-71); a session it tells   *)
(* of was there under that ID and name, and the workspace it gives it was  *)
(* that session's, unless the server was replaced; the key may be missing  *)
(* of a session that ended meanwhile.                                      *)
(***************************************************************************)
Judging == pc \in {"judge", "probe", "connect", "done"} /\ ~failed

MissesNone ==
  \A i \in steady :
    \E s \in live : s.id = i /\ s.name = sessions[i].name /\ s.ws = sessions[i].ws

TellsOfOne ==
  \A s \in live : \E x \in been :
    /\ x.id = s.id /\ x.name = s.name
    /\ renumbered \/ s.ws \in {x.ws, NULL}

ObservationIsTrue == Judging => MissesNone /\ TellsOfOne

(***************************************************************************)
(* What doctor finds is so: a session it reports as not registered was     *)
(* live while its workspace was unregistered, where the rows are read      *)
(* through the log, and a container it reports as gone was gone, however   *)
(* docker answers (sessions.go:58-60, bindings.go:42-47).                  *)
(***************************************************************************)
FindingsAreTrue ==
  /\ pc \in {"probe", "done"} /\ view = "through" => Orphans \subseteq orphaned
  /\ probe = "missing" => gone

(***************************************************************************)
(* attach connects to a session of its own workspace or to none, though    *)
(* that was stopped and others opened since it looked, unless users named  *)
(* sessions themselves, the server was replaced while attach read the      *)
(* values of a session, or no record held the session's name.              *)
(***************************************************************************)
AttachHitsOwn ==
  attached # NULL =>
    attached.ws = subject \/ meddled \/ renumbered \/ subject \in orphaned
=============================================================================
