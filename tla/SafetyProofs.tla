----------------------------- MODULE SafetyProofs ----------------------------
(***************************************************************************)
(* Proofs of the promises the commands of Controller make to each other    *)
(* and to the user, for any number of processes, commands, crashes, failed *)
(* calls and user acts; and that a command which reports success tells the *)
(* truth.                                                                  *)
(*                                                                         *)
(* Each rests on what a command saw staying true until it acts on it:      *)
(*   Unclaimed an open that will create a session found none, and nobody   *)
(*             else makes one meanwhile;                                   *)
(*   Aimed     the session a stop will kill claims its workspace;          *)
(*   Alone     the container of a devcontainer up under way is the only    *)
(*             one its repository has or gets;                             *)
(*   Spared    no recorded sibling of a stop that has checked is live;     *)
(*   Named     the name an open will adopt or create under is recorded;    *)
(*   Created   the session an open created is there until it is confirmed. *)
(* The workspace's lock keeps the first and the last two, tmux's numbering *)
(* the second, and the repository's lock the others (CommandsExclude).     *)
(***************************************************************************)
EXTENDS CommandProofs

\* A set whose members are all equal has at most one.
LEMMA AtMostOne ==
  ASSUME NEW S, \A s, t \in S : s = t
  PROVE  Cardinality(S) <= 1
<1>1. CASE S = {}
  <2>1. Cardinality(S) = 0
    BY <1>1, FS_EmptySet
  <2> QED
    BY <2>1
<1>2. CASE S # {}
  <2>1. PICK s : S = {s}
    BY <1>2
  <2>2. Cardinality(S) = 1
    BY <2>1, FS_Singleton
  <2> QED
    BY <2>2
<1> QED
  BY <1>1, <1>2

-----------------------------------------------------------------------------
(* Who moves, and who else may be at work *)

\* To any one process a step is a call of its own, nothing, or an end or a
\* beginning.
LEMMA WhoMoves ==
  ASSUME Sound, [Next]_vars, NEW q \in Process
  PROVE  \/ Call(q) \/ CallFails(q)
         \/ UNCHANGED <<cmd[q], at[q], snap[q]>>
         \/ at'[q] \in {"register", "read", "over"}
<1>1. /\ cmd \in [Process -> Commands \cup {NULL}]
      /\ at \in [Process -> Places] /\ snap \in [Process -> SnapRow]
  BY DEF Sound, Types
<1>2. ASSUME NEW p \in Process, Call(p) \/ CallFails(p), p # q
      PROVE  UNCHANGED <<cmd[q], at[q], snap[q]>>
  <2>1. Moved(p)
    BY <1>2, CallsMove
  <2> QED
    BY <1>1, <1>2, <2>1 DEF Moved
<1>3. ASSUME NEW p \in Process,
             Starts(p) \/ TakesLock(p) \/ GivesUp(p) \/ Releases(p) \/ Crashes(p)
      PROVE  \/ UNCHANGED <<cmd[q], at[q], snap[q]>>
             \/ at'[q] \in {"register", "read", "over"}
  BY <1>1, <1>3 DEF Starts, TakesLock, GivesUp, Releases, Crashes, Forgets, Goto, Entry
<1>4. CASE User
  <2>1. UNCHANGED <<cmd, at, snap>>
    BY <1>4 DEF User, ByHand, UserKills, UserRenames, UserOccupies, UserRetags,
       UserActsOnDocker, UserLosesDatabase
  <2> QED
    BY <2>1
<1>5. CASE UNCHANGED vars
  BY <1>5 DEF vars
<1> QED
  BY <1>2, <1>3, <1>4, <1>5, Steps

\* Commands at work on sessions are about different workspaces.
LEMMA WorkspacesApart ==
  ASSUME Sound, Locks!MutualExclusion, NEW p \in Process, NEW q \in Process, p # q,
         phase[p] = "held", at[p] # "over", cmd[p].op \in {"open", "stop", "bind"},
         phase[q] = "held", at[q] # "over", cmd[q].op \in {"open", "stop", "bind"}
  PROVE  cmd[p].ws.id # cmd[q].ws.id
<1>1. \A x \in {p, q} : /\ want[x] = FootprintOf(cmd[x])
                        /\ cmd[x].ws \in Resolvable
  BY AtWork
<1>2. \A x \in {p, q} : want[x].workspace = cmd[x].ws.id /\ cmd[x].ws.id \in LockedID
  BY <1>1 DEF FootprintOf, LockedID
<1> QED
  BY <1>2, LockKeysAssumption DEF Locks!MutualExclusion

\* Commands that may touch a container.
OnContainers(c) == c.op \in {"open", "autostart"} \/ (c.op = "stop" /\ c.container)

\* Commands at work on containers are about different repositories.
LEMMA RepositoriesApart ==
  ASSUME Sound, Locks!MutualExclusion, NEW p \in Process, NEW q \in Process, p # q,
         phase[p] = "held", at[p] # "over", OnContainers(cmd[p]),
         phase[q] = "held", at[q] # "over", OnContainers(cmd[q])
  PROVE  cmd[p].repo # cmd[q].repo
<1>1. \A x \in {p, q} : /\ want[x] = FootprintOf(cmd[x])
                        /\ cmd[x].repo \in RepositoryID
  BY AtWork DEF CommandShape
<1>2. \A x \in {p, q} : want[x].repository = cmd[x].repo
  BY <1>1 DEF FootprintOf, OnContainers
<1> QED
  BY <1>1, <1>2, LockKeysAssumption DEF Locks!MutualExclusion

\* A step does one of these to tmux.
LEMMA TmuxSteps ==
  ASSUME Sound, [Next]_vars
  PROVE  \/ UNCHANGED tmux
         \/ \E s : Removed(s)
         \/ \E s, t : Altered(s, t)
         \/ Plan!NoKeys \in SessionKeys /\ \E n : Added(n, Plan!NoKeys)
         \/ \E p \in Process :
              /\ Creates(p) /\ cmd[p].op = "open" /\ at[p] = "create"
              /\ phase[p] = "held"
              /\ Plan!KeysOf(cmd[p].ws) \in SessionKeys
              /\ Added(snap[p].name, Plan!KeysOf(cmd[p].ws))
<1>1. ASSUME NEW p \in Process, Creates(p) PROVE phase[p] = "held"
  BY <1>1, Stepped DEF Creates, Answers
<1> QED
  BY <1>1, CallsOnTmux, UsersOnTmux, OthersLeaveWorld, Steps DEF vars

\* A claim is made by a create alone, and then under the command's lock.
LEMMA ClaimsAppear ==
  ASSUME Sound, [Next]_vars, NEW w \in WorkspaceID, ClaimantsOf(w) = {},
         ClaimantsOf(w)' # {}
  PROVE  \E p \in Process : /\ Creates(p) /\ cmd[p].op = "open" /\ at[p] = "create"
                            /\ phase[p] = "held" /\ cmd[p].ws.id = w
<1>1. TmuxTyped
  BY DEF Sound, Types, TmuxTyped
<1>2. \A s \in tmux.sessions : s.keys.id # w
  BY DEF ClaimantsOf, Plan!Claims
<1>3. w # NULL
  BY StoreAssumption DEF Store!NullIsNoValue
<1>4. PICK s \in tmux'.sessions : s.keys.id = w
  BY DEF ClaimantsOf, Plan!Claims
<1>5. tmux'.sessions # tmux.sessions
  BY <1>2, <1>4
<1>6. ~\E x : Removed(x)
  BY <1>1, <1>2, <1>4, RemovedTyped
<1>7. ~\E x, y : Altered(x, y)
  <2> SUFFICES ASSUME NEW x, NEW y, Altered(x, y) PROVE FALSE
    OBVIOUS
  <2>1. tmux'.sessions = (tmux.sessions \ {x}) \cup {y}
    BY <1>1, AlteredTyped
  <2> QED
    BY <1>2, <1>4, <2>1 DEF Altered
<1>8. ASSUME NEW n, NEW keys \in SessionKeys, Added(n, keys) PROVE keys.id = w
  <2>1. tmux'.sessions
          = tmux.sessions \cup {[sid |-> tmux.next, name |-> n, keys |-> keys]}
    BY <1>1, <1>8, AddedTyped
  <2>2. s = [sid |-> tmux.next, name |-> n, keys |-> keys]
    BY <1>2, <1>4, <2>1
  <2> QED
    BY <1>4, <2>2
<1>9. Plan!NoKeys.id = NULL
  BY DEF Plan!NoKeys
<1>10. PICK p \in Process :
         /\ Creates(p) /\ cmd[p].op = "open" /\ at[p] = "create"
         /\ phase[p] = "held"
         /\ Plan!KeysOf(cmd[p].ws) \in SessionKeys
         /\ Added(snap[p].name, Plan!KeysOf(cmd[p].ws))
  BY <1>3, <1>5, <1>6, <1>7, <1>8, <1>9, TmuxSteps
<1>11. Plan!KeysOf(cmd[p].ws).id = w
  BY <1>8, <1>10
<1> QED
  BY <1>10, <1>11 DEF Plan!KeysOf

-----------------------------------------------------------------------------
(* One session per workspace *)

\* What an open means to do with its session.
Intent(p) ==
  cmd[p] # NULL /\ cmd[p].op = "open" =>
    /\ at[p] \in {"reprobe", "up", "upping"}
         => snap[p].session \in {"none", "adopt", "create"}
    /\ at[p] \in {"allocate", "occupant", "create"} => snap[p].session = "create"

\* An open that has found no session and will create one.
Creating(p) ==
  /\ cmd[p] # NULL /\ cmd[p].op = "open"
  /\ \/ at[p] = "probe" /\ snap[p].state = "absent"
     \/ /\ at[p] \in {"reprobe", "up", "upping", "allocate", "occupant", "create"}
        /\ snap[p].session = "create"

\* No two live sessions claim the same workspace.
Apart ==
  \A s, t \in tmux.sessions : s.keys.id = t.keys.id => s.keys.id = NULL \/ s = t

Unclaimed(p) == Creating(p) => ClaimantsOf(cmd[p].ws.id) = {}

SessionsSafe == Apart /\ \A p \in Process : Intent(p) /\ Unclaimed(p)

\* A call keeps the intent, and leads towards a creation only from there or
\* from a look that found nothing.
LEMMA CallsIntend ==
  ASSUME Sound, NEW p \in Process, Call(p) \/ CallFails(p), Intent(p), Unclaimed(p)
  PROVE  Intent(p)' /\ Unclaimed(p)'
<1>1. /\ Moved(p) /\ cmd' = cmd /\ cmd'[p] = cmd[p]
      /\ snap[p] \in SnapRow /\ snap'[p] \in SnapRow
  BY CallsMove, AtWork DEF Moved
<1> DEFINE early == {"reprobe", "up", "upping"}
           late == {"allocate", "occupant", "create"}
<1>2. ASSUME UNCHANGED <<tmux, snap[p].session>>, cmd[p].op = "open",
             at[p] \in early \cup late, at'[p] \in early \cup late \cup {"adopt", "commit", "fail", "error"},
             at'[p] \in early => at[p] \in early,
             at'[p] \in late => snap[p].session = "create"
      PROVE  Intent(p)' /\ Unclaimed(p)'
  <2>1. ClaimantsOf(cmd[p].ws.id)' = ClaimantsOf(cmd[p].ws.id)
    BY <1>1, <1>2 DEF ClaimantsOf
  <2>2. Intent(p)'
    BY <1>1, <1>2 DEF Intent
  <2>3. Creating(p)' => Creating(p)
    BY <1>1, <1>2 DEF Creating
  <2> QED
    BY <1>1, <2>1, <2>2, <2>3 DEF Unclaimed
<1>3. CASE at'[p] \notin early \cup late \cup {"probe"}
  BY <1>1, <1>3 DEF Intent, Unclaimed, Creating
<1>4. CASE cmd[p].op # "open"
  BY <1>1, <1>4 DEF Intent, Unclaimed, Creating
<1>5. CASE OpenLooks(p)
  <2>1. /\ at'[p] = "probe" /\ tmux' = tmux
        /\ snap'[p].state = "absent" => ClaimantsOf(cmd[p].ws.id) = {}
    BY <1>5, OpenLooksMove, Views DEF Sound
  <2>2. ClaimantsOf(cmd[p].ws.id)' = ClaimantsOf(cmd[p].ws.id)
    BY <1>1, <2>1 DEF ClaimantsOf
  <2> QED
    BY <1>1, <2>1, <2>2 DEF Intent, Unclaimed, Creating
<1>6. CASE Probes(p) /\ cmd[p].op = "open"
  <2>1. /\ at[p] = "probe" /\ at'[p] \in ProbePlaces
        /\ snap'[p].session = Plan!SessionAction(snap[p], cmd[p].ws)
        /\ at'[p] = "allocate" => snap'[p].session = "create"
        /\ at'[p] \in {"reprobe", "up"} => snap'[p].session # "refuse"
        /\ tmux' = tmux
    BY <1>6, ProbesMove DEF Probes
  <2>2. /\ snap'[p].session \in SessionPlan
        /\ snap'[p].session = "create" => snap[p].state = "absent"
    BY <1>1, <2>1, Planned
  <2>3. ClaimantsOf(cmd[p].ws.id)' = ClaimantsOf(cmd[p].ws.id)
    BY <1>1, <2>1 DEF ClaimantsOf
  <2>4. Intent(p)'
    BY <1>1, <2>1, <2>2 DEF Intent, ProbePlaces, SessionPlan
  <2>5. Creating(p)' => Creating(p)
    BY <1>1, <1>6, <2>1, <2>2 DEF Creating, ProbePlaces, Sound, Prepared, Moved
  <2> QED
    BY <1>1, <2>3, <2>4, <2>5 DEF Unclaimed
<1>7. CASE Reprobes(p) /\ cmd[p].op = "open"
  <2>1. /\ at[p] = "reprobe"
        /\ at'[p] \in (ProbePlaces \cup {"error"}) \ {"reprobe"}
        /\ snap'[p].session = snap[p].session /\ tmux' = tmux
        /\ at'[p] = "allocate" => snap[p].session \notin {"none", "adopt"}
    BY <1>7, ReprobesMove DEF Reprobes
  <2>2. at'[p] = "allocate" => snap[p].session = "create"
    BY <1>1, <1>7, <2>1 DEF Intent, Moved, Sound, Prepared
  <2> QED
    BY <1>2, <1>3, <1>7, <2>1, <2>2 DEF ProbePlaces
<1>8. CASE BeginsUp(p) /\ cmd[p].op = "open"
  <2>1. /\ at[p] = "up" /\ at'[p] = "upping" /\ snap'[p].session = snap[p].session
        /\ tmux' = tmux
    BY <1>8, BeginsUpMove DEF BeginsUp
  <2> QED
    BY <1>2, <1>8, <2>1
<1>9. CASE EndsUp(p) /\ cmd[p].op = "open"
  <2>1. /\ at[p] = "upping" /\ snap' = snap /\ tmux' = tmux
        /\ at'[p] \in (ProbePlaces \cup {"error"}) \ {"reprobe", "up"}
        /\ at'[p] = "allocate" => snap[p].session \notin {"none", "adopt"}
    BY <1>9, EndsUpMove DEF EndsUp
  <2>2. at'[p] = "allocate" => snap[p].session = "create"
    BY <1>1, <1>9, <2>1 DEF Intent, Moved, Sound, Prepared
  <2> QED
    BY <1>2, <1>3, <1>9, <2>1, <2>2 DEF ProbePlaces
<1>10. CASE Allocates(p) /\ cmd[p].op = "open"
  <2>1. /\ at[p] = "allocate" /\ at'[p] \in {"fail", "occupant"} /\ tmux' = tmux
        /\ snap'[p].session = snap[p].session
    BY <1>10, AllocatesMove DEF Allocates
  <2>2. snap[p].session = "create"
    BY <1>1, <1>10, <2>1 DEF Intent, Moved, Sound, Prepared
  <2> QED
    BY <1>2, <1>10, <2>1, <2>2
<1>11. CASE /\ Adopts(p) \/ LooksForOccupant(p) \/ Creates(p) \/ Confirms(p)
               \/ ChecksSiblings(p)
            /\ cmd[p].op = "open" /\ at'[p] = "create"
  <2>1. snap' = snap /\ at[p] = "occupant" /\ tmux' = tmux
    BY <1>11, SessionCallsMove
  <2>2. snap[p].session = "create"
    BY <1>1, <1>11, <2>1 DEF Intent, Moved, Sound, Prepared
  <2> QED
    BY <1>2, <1>11, <2>1, <2>2
<1>12. at'[p] \in early \cup late \cup {"probe"} /\ cmd[p].op = "open" =>
         \/ OpenLooks(p) \/ Probes(p) \/ Reprobes(p) \/ BeginsUp(p) \/ EndsUp(p)
         \/ Allocates(p)
         \/ /\ Adopts(p) \/ LooksForOccupant(p) \/ Creates(p) \/ Confirms(p)
               \/ ChecksSiblings(p)
            /\ at'[p] = "create"
  BY StoreCallsMove, ReadsMove, ReadsRepositoryMoves, SessionCallsMove,
     StopLooksMove, KillsMove, StopsContainerMove, ZenonT(30) DEF Call
<1> QED
  BY <1>3, <1>4, <1>5, <1>6, <1>7, <1>8, <1>9, <1>10, <1>11, <1>12

\* Under the workspace's lock nobody else makes a session for it.
LEMMA UnclaimedStays ==
  ASSUME Sound, Locks!MutualExclusion, [Next]_vars, NEW q \in Process, Creating(q),
         UNCHANGED <<cmd[q], at[q], snap[q]>>, Unclaimed(q)
  PROVE  Unclaimed(q)'
<1>1. phase[q] = "held"
  BY DEF Sound, Prepared, Creating
<1>2. cmd[q].ws.id \in WorkspaceID /\ ClaimantsOf(cmd[q].ws.id) = {}
  BY <1>1, AtWork DEF Creating, Unclaimed, Store!Identity
<1>3. SUFFICES ASSUME (ClaimantsOf(cmd[q].ws.id))' # {} PROVE FALSE
  BY DEF Unclaimed
<1>4. PICK w \in WorkspaceID : w = cmd[q].ws.id
  BY <1>2
<1>5. ClaimantsOf(w)' # {}
  BY <1>3, <1>4
<1>6. PICK p \in Process : /\ Creates(p) /\ cmd[p].op = "open" /\ at[p] = "create"
                           /\ phase[p] = "held" /\ cmd[p].ws.id = w
  BY <1>2, <1>4, <1>5, ClaimsAppear
<1>7. p = q
  BY <1>1, <1>4, <1>6, WorkspacesApart DEF Creating
<1>8. at'[p] # "create"
  BY <1>6, SessionCallsMove
<1> QED
  BY <1>6, <1>7, <1>8

\* A session is created only for a workspace that nobody claims.
LEMMA ApartStays ==
  ASSUME Sound, SessionsSafe, [Next]_vars
  PROVE  Apart'
<1>1. TmuxTyped /\ Apart
  BY DEF Sound, Types, TmuxTyped, SessionsSafe
<1>2. CASE UNCHANGED tmux
  BY <1>1, <1>2 DEF Apart
<1>3. ASSUME NEW s, Removed(s) PROVE Apart'
  BY <1>1, <1>3, RemovedTyped DEF Apart
<1>4. ASSUME NEW s, NEW t, Altered(s, t) PROVE Apart'
  BY <1>1, <1>4, AlteredTyped DEF Apart, Altered
<1>5. ASSUME NEW n, NEW keys \in SessionKeys, Added(n, keys),
             keys.id = NULL \/ \A s \in tmux.sessions : s.keys.id # keys.id
      PROVE  Apart'
  <2> DEFINE new == [sid |-> tmux.next, name |-> n, keys |-> keys]
  <2>1. tmux'.sessions = tmux.sessions \cup {new} /\ new.keys = keys
    BY <1>1, <1>5, AddedTyped
  <2> HIDE DEF new
  <2> QED
    BY <1>1, <1>5, <2>1 DEF Apart
<1>6. Plan!NoKeys.id = NULL
  BY DEF Plan!NoKeys
<1>7. ASSUME NEW p \in Process, cmd[p].op = "open", at[p] = "create",
             phase[p] = "held"
      PROVE  \A s \in tmux.sessions : s.keys.id # Plan!KeysOf(cmd[p].ws).id
  <2>1. Creating(p)
    BY <1>7, AtWork DEF SessionsSafe, Intent, Creating
  <2> QED
    BY <2>1 DEF SessionsSafe, Unclaimed, ClaimantsOf, Plan!Claims, Plan!KeysOf
<1> QED
  BY <1>2, <1>3, <1>4, <1>5, <1>6, <1>7, TmuxSteps

\* The invariant is inductive.
LEMMA SessionsStaySafe ==
  ASSUME Sound, Locks!MutualExclusion, SessionsSafe, [Next]_vars
  PROVE  SessionsSafe'
<1>1. ASSUME NEW q \in Process
      PROVE  Intent(q)' /\ Unclaimed(q)'
  <2>1. Intent(q) /\ Unclaimed(q)
    BY DEF SessionsSafe
  <2>2. CASE Call(q) \/ CallFails(q)
    BY <2>1, <2>2, CallsIntend
  <2>3. CASE at'[q] \in {"register", "read", "over"}
    BY <2>3 DEF Intent, Unclaimed, Creating
  <2>4. CASE UNCHANGED <<cmd[q], at[q], snap[q]>>
    <3>1. Intent(q)' /\ (Creating(q)' <=> Creating(q))
      BY <2>1, <2>4 DEF Intent, Creating
    <3>2. CASE Creating(q)
      BY <2>1, <2>4, <3>1, <3>2, UnclaimedStays
    <3>3. CASE ~Creating(q)
      BY <3>1, <3>3 DEF Unclaimed
    <3> QED
      BY <3>1, <3>2, <3>3
  <2> QED
    BY <2>2, <2>3, <2>4, WhoMoves
<1> QED
  BY <1>1, ApartStays DEF SessionsSafe

\* A workspace never gets a second live session, whatever commands race, fail
\* or die and whatever users rename, retag or kill, if it has at most one to
\* begin with: what an open saw of tmux stays true until it creates (ensure.go,
\* plan.go).
THEOREM SessionsStaySingle ==
  ASSUME \A s, t \in InitialSessions :
           s.keys.id = t.keys.id => s.keys.id = NULL \/ s = t
  PROVE  Spec => []OneSessionPerWorkspace
<1>1. Init => SessionsSafe
  <2> SUFFICES ASSUME Init PROVE SessionsSafe
    OBVIOUS
  <2>1. Apart
    BY DEF Init, Apart
  <2>2. \A p \in Process : cmd[p] = NULL
    BY DEF Init
  <2> QED
    BY <2>1, <2>2 DEF SessionsSafe, Intent, Unclaimed, Creating
<1>2. Sound /\ Locks!MutualExclusion /\ SessionsSafe /\ [Next]_vars => SessionsSafe'
  BY SessionsStaySafe
<1>3. SessionsSafe => OneSessionPerWorkspace
  <2> SUFFICES ASSUME SessionsSafe, NEW w \in WorkspaceID
               PROVE  Cardinality(ClaimantsOf(w)) <= 1
    BY DEF OneSessionPerWorkspace
  <2>1. w # NULL
    BY StoreAssumption DEF Store!NullIsNoValue
  <2>2. \A s, t \in ClaimantsOf(w) : s = t
    BY <2>1 DEF SessionsSafe, Apart, ClaimantsOf, Plan!Claims
  <2> QED
    BY <2>2, AtMostOne
<1> QED
  BY <1>1, <1>2, <1>3, CommandsSoundly, CommandsExclude, PTL DEF Spec

-----------------------------------------------------------------------------
(* A stop kills its own session *)

\* The session a stop saw and will kill, if it is still there, claims the
\* workspace; nothing else can have got its number.
Aimed(p) ==
  at[p] = "kill" =>
    /\ snap[p].live.sid < tmux.next
    /\ \A s \in tmux.sessions :
         s.sid = snap[p].live.sid => Plan!Claims(s, cmd[p].ws.id)

\* The server does not exit with its last session, and so never counts anew.
LEMMA NumbersNotReused ==
  ASSUME Sound, ~ExitEmpty, [Next]_vars
  PROVE  /\ tmux'.next \in Nat /\ tmux.next <= tmux'.next
         /\ \A s \in tmux'.sessions :
              \/ s.sid = tmux.next
              \/ \E t \in tmux.sessions : t.sid = s.sid /\ t.keys.id = s.keys.id
<1>1. TmuxTyped /\ tmux.next \in Nat
  BY DEF Sound, Types, TmuxTyped
<1>2. CASE UNCHANGED tmux
  BY <1>1, <1>2
<1>3. ASSUME NEW s, Removed(s)
      PROVE  tmux'.next = tmux.next /\ tmux'.sessions \subseteq tmux.sessions
  BY <1>1, <1>3, RemovedTyped
<1>4. ASSUME NEW s, NEW t, Altered(s, t)
      PROVE  /\ tmux'.next = tmux.next
             /\ tmux'.sessions = (tmux.sessions \ {s}) \cup {t}
             /\ s \in tmux.sessions /\ s.sid = t.sid /\ s.keys.id = t.keys.id
  BY <1>1, <1>4, AlteredTyped DEF Altered
<1>5. ASSUME NEW n, NEW keys \in SessionKeys, Added(n, keys)
      PROVE  /\ tmux'.next = tmux.next + 1
             /\ \A s \in tmux'.sessions : s \in tmux.sessions \/ s.sid = tmux.next
  BY <1>1, <1>5, AddedTyped
<1> QED
  BY <1>1, <1>2, <1>3, <1>4, <1>5, TmuxSteps

\* A stop's aim stays true, or is taken anew from a look.
LEMMA AimStays ==
  ASSUME Sound, ~ExitEmpty, [Next]_vars, NEW q \in Process, Aimed(q)
  PROVE  Aimed(q)'
<1>1. CASE at'[q] # "kill"
  BY <1>1 DEF Aimed
<1>2. CASE UNCHANGED <<cmd[q], at[q], snap[q]>> /\ at[q] = "kill"
  <2>1. /\ snap[q].live.sid < tmux.next
        /\ \A s \in tmux.sessions :
             s.sid = snap[q].live.sid => s.keys.id = cmd[q].ws.id
    BY <1>2 DEF Aimed, Plan!Claims
  <2>2. tmux.next \in Nat /\ snap[q].live.sid \in Nat
    BY <1>2 DEF Sound, Types, Prepared, Has, SnapRow, SessionRow
  <2>3. /\ snap[q].live.sid < tmux'.next
        /\ \A s \in tmux'.sessions :
             s.sid = snap[q].live.sid => s.keys.id = cmd[q].ws.id
    BY <2>1, <2>2, NumbersNotReused
  <2> QED
    BY <1>2, <2>3 DEF Aimed, Plan!Claims
<1>3. CASE (Call(q) \/ CallFails(q)) /\ at'[q] = "kill"
  <2>1. StopLooks(q)
    BY <1>3, LeadingCalls
  <2>2. /\ snap'[q].live \in ClaimantsOf(cmd[q].ws.id) /\ tmux' = tmux /\ cmd' = cmd
    BY <1>3, <2>1, StopLooksMove DEF Moved
  <2> DEFINE live == snap'[q].live
  <2>3. live \in tmux.sessions /\ live.keys.id = cmd[q].ws.id
    BY <2>2 DEF ClaimantsOf, Plan!Claims
  <2>4. \A s \in tmux.sessions : s.sid < tmux.next /\ (s.sid = live.sid => s = live)
    BY <2>3 DEF Sound, Numbered
  <2> QED
    BY <2>2, <2>3, <2>4 DEF Aimed, Plan!Claims
<1> QED
  BY <1>1, <1>2, <1>3, WhoMoves

\* Where the server does exit, but nobody kills its sessions by hand, the
\* session a stop will kill is still there: another stop kills another's.
Standing(p) ==
  at[p] = "kill" =>
    \E s \in tmux.sessions :
      s.sid = snap[p].live.sid /\ Plan!Claims(s, cmd[p].ws.id)

\* What a stop is about to kill, if it is there.
OnTarget(p) ==
  at[p] = "kill" =>
    \A s \in tmux.sessions :
      s.sid = snap[p].live.sid => Plan!Claims(s, cmd[p].ws.id)

\* Numbers being unique, it is the one the stop is aimed at.
LEMMA StandingIsOnTarget ==
  ASSUME Sound, NEW p \in Process, Standing(p)
  PROVE  OnTarget(p)
BY DEF Sound, Numbered, Standing, OnTarget

\* Another command's call leaves a workspace its sessions.
LEMMA OthersSpareClaims ==
  ASSUME Sound, Locks!MutualExclusion, NEW p \in Process, NEW q \in Process, p # q,
         phase[p] = "held", at[p] # "over", cmd[p].op \in {"open", "stop", "bind"},
         Call(q) \/ CallFails(q), OnTarget(q)
  PROVE  \A s : s.keys.id = cmd[p].ws.id
                  => (s \in tmux'.sessions <=> s \in tmux.sessions)
<1>1. TmuxTyped
  BY DEF Sound, Types, TmuxTyped
<1>2. CASE UNCHANGED tmux
  BY <1>2
<1>3. CASE Kills(q) /\ \E t : Removed(t) /\ t.sid = snap[q].live.sid
  <2>1. PICK t : Removed(t) /\ t.sid = snap[q].live.sid
    BY <1>3
  <2>2. phase[q] = "held" /\ at[q] = "kill" /\ cmd[q].op = "stop"
    BY <1>3, KillsMove DEF Moved
  <2>3. t.keys.id = cmd[q].ws.id
    BY <2>1, <2>2 DEF OnTarget, Removed, Plan!Claims
  <2>4. cmd[p].ws.id # cmd[q].ws.id
    BY <2>2, WorkspacesApart
  <2> QED
    BY <1>1, <2>1, <2>3, <2>4, RemovedTyped
<1>4. CASE /\ Creates(q) /\ cmd[q].op = "open" /\ at[q] = "create"
           /\ Plan!KeysOf(cmd[q].ws) \in SessionKeys
           /\ Added(snap[q].name, Plan!KeysOf(cmd[q].ws))
  <2> DEFINE new == [sid |-> tmux.next, name |-> snap[q].name,
                     keys |-> Plan!KeysOf(cmd[q].ws)]
  <2>1. tmux'.sessions = tmux.sessions \cup {new}
    BY <1>1, <1>4, AddedTyped
  <2>2. new.keys.id = cmd[q].ws.id
    BY DEF Plan!KeysOf
  <2>3. phase[q] = "held" /\ at[q] # "over"
    BY <1>4, SessionCallsMove DEF Moved
  <2>4. cmd[p].ws.id # cmd[q].ws.id
    BY <1>4, <2>3, WorkspacesApart
  <2> HIDE DEF new
  <2> QED
    BY <2>1, <2>2, <2>4
<1> QED
  BY <1>2, <1>3, <1>4, CallsOnTmux

\* What stands goes on standing.
LEMMA StandingStays ==
  ASSUME Sound, Locks!MutualExclusion, "kill" \notin Disturbances, [Next]_vars,
         \A p \in Process : Standing(p), NEW q \in Process
  PROVE  Standing(q)'
<1>1. TmuxTyped
  BY DEF Sound, Types, TmuxTyped
<1>2. CASE at'[q] # "kill"
  BY <1>2 DEF Standing
<1>3. CASE (Call(q) \/ CallFails(q)) /\ at'[q] = "kill"
  <2>1. StopLooks(q)
    BY <1>3, LeadingCalls
  <2>2. /\ snap'[q].live \in ClaimantsOf(cmd[q].ws.id) /\ tmux' = tmux /\ cmd' = cmd
    BY <1>3, <2>1, StopLooksMove DEF Moved
  <2> QED
    BY <2>2 DEF Standing, ClaimantsOf
<1>4. CASE UNCHANGED <<cmd[q], at[q], snap[q]>> /\ at[q] = "kill" /\ at'[q] = "kill"
  <2>1. PICK s \in tmux.sessions :
          s.sid = snap[q].live.sid /\ s.keys.id = cmd[q].ws.id
    BY <1>4 DEF Standing, Plan!Claims
  <2>2. phase[q] = "held" /\ at[q] # "over" /\ cmd[q].op = "stop"
    BY <1>4 DEF Sound, Prepared, Has
  <2>3. \E t \in tmux'.sessions : t.sid = s.sid /\ t.keys.id = s.keys.id
    <3>1. ASSUME NEW p \in Process, Call(p) \/ CallFails(p)
          PROVE  s \in tmux'.sessions
      <4>1. CASE p # q
        <5>1. OnTarget(p)
          BY StandingIsOnTarget
        <5> QED
          BY <2>1, <2>2, <3>1, <4>1, <5>1, OthersSpareClaims
      <4>2. CASE p = q
        <5>1. ~Kills(p) /\ ~Creates(p)
          BY <1>4, <4>2, KillsMove, SessionCallsMove
        <5> QED
          BY <2>1, <3>1, <5>1, CallsOnTmux
      <4> QED
        BY <4>1, <4>2
    <3>2. ASSUME NEW x, NEW y, Altered(x, y)
          PROVE  \E t \in tmux'.sessions : t.sid = s.sid /\ t.keys.id = s.keys.id
      BY <1>1, <3>2, AlteredTyped DEF Altered
    <3>3. ASSUME NEW n, NEW keys \in SessionKeys, Added(n, keys)
          PROVE  s \in tmux'.sessions
      BY <1>1, <3>3, AddedTyped
    <3>4. ~UserKills
      BY DEF UserKills, ByHand
    <3>5. CASE User
      BY <2>1, <3>2, <3>3, <3>4, <3>5, UsersOnTmux
    <3>6. CASE UNCHANGED vars
      BY <2>1, <3>6 DEF vars
    <3>7. ASSUME NEW p \in Process,
                 Starts(p) \/ TakesLock(p) \/ GivesUp(p) \/ Releases(p) \/ Crashes(p)
          PROVE  s \in tmux'.sessions
      BY <2>1, <3>7, OthersLeaveWorld
    <3> QED
      BY <3>1, <3>5, <3>6, <3>7, Steps
  <2> QED
    BY <1>4, <2>1, <2>3 DEF Standing, Plan!Claims
<1> QED
  BY <1>2, <1>3, <1>4, WhoMoves

\* A stop's aim, whatever the server does when it is empty.
Aims == \A p \in Process : IF ExitEmpty THEN Standing(p) ELSE Aimed(p)

\* Every step keeps the aims.
LEMMA AimsStay ==
  ASSUME Sound, Locks!MutualExclusion, ExitEmpty => "kill" \notin Disturbances,
         [Next]_vars, Aims
  PROVE  Aims'
<1>1. CASE ExitEmpty
  BY <1>1, StandingStays DEF Aims
<1>2. CASE ~ExitEmpty
  BY <1>2, AimStays DEF Aims
<1> QED
  BY <1>1, <1>2

\* A stop's aim is its workspace's.
LEMMA AimsHit ==
  ASSUME Sound, Aims, NEW p \in Process
  PROVE  OnTarget(p)
BY StandingIsOnTarget DEF Aims, Aimed, OnTarget

\* A stop kills no session but one that claims its workspace, as long as the
\* server lives or nobody kills its sessions by hand: what the stop looked at
\* may be renamed, replaced or gone, but its number is nobody else's (stop.go:
\* "a replacement session reusing the name between observation and kill must
\* survive").
THEOREM StopsKillTheirOwn ==
  ASSUME ExitEmpty => "kill" \notin Disturbances
  PROVE  Spec => KillHitsOwnSession
<1> DEFINE Hits == \A p \in Process, s \in tmux.sessions :
                     Makes(p, "kill") /\ s \notin tmux'.sessions
                       => Plan!Claims(s, cmd[p].ws.id)
<1>1. Init => Aims
  BY DEF Init, Aims, Standing, Aimed
<1>2. Sound /\ Locks!MutualExclusion /\ Aims /\ [Next]_vars => Aims'
  BY AimsStay
<1>3. Sound /\ Aims /\ [Next]_vars => Hits
  <2> SUFFICES ASSUME Sound, Aims, [Next]_vars, NEW p \in Process,
                      NEW s \in tmux.sessions, at[p] = "kill",
                      at'[p] \notin {"kill", "over"}, s \notin tmux'.sessions
               PROVE  Plan!Claims(s, cmd[p].ws.id)
    BY DEF Makes
  <2>1. /\ at \in [Process -> Places] /\ TmuxTyped
        /\ \A t \in tmux.sessions :
             t.sid = snap[p].live.sid => Plan!Claims(t, cmd[p].ws.id)
    BY AimsHit DEF Sound, Types, TmuxTyped, OnTarget
  <2>2. ASSUME NEW q \in Process, Call(q) \/ CallFails(q)
        PROVE  Plan!Claims(s, cmd[p].ws.id)
    <3>1. q = p
      BY <2>1, <2>2, CallsMove DEF Moved
    <3>2. ~Creates(q)
      BY <3>1, Stepped DEF Creates, Answers
    <3>3. PICK t : Removed(t) /\ t.sid = snap[p].live.sid
      BY <2>2, <3>1, <3>2, CallsOnTmux
    <3>4. s = t
      BY <2>1, <3>3, RemovedTyped
    <3> QED
      BY <2>1, <3>3, <3>4
  <2>3. CASE User \/ UNCHANGED vars
    BY <2>3 DEF User, ByHand, UserKills, UserRenames, UserOccupies, UserRetags,
       UserActsOnDocker, UserLosesDatabase, vars
  <2>4. ASSUME NEW q \in Process,
               Starts(q) \/ TakesLock(q) \/ GivesUp(q) \/ Releases(q) \/ Crashes(q)
        PROVE  FALSE
    BY <2>4, OthersLeaveWorld
  <2> QED
    BY <2>2, <2>3, <2>4, Steps
<1> QED
  BY <1>1, <1>2, <1>3, CommandsSoundly, CommandsExclude, PTL
  DEF Spec, KillHitsOwnSession

-----------------------------------------------------------------------------
(* One container per repository *)

\* A container a repository has, running or not.
Exists(c) == docker[c] \in {"stopped", "running"}

\* No two containers of a repository exist.
Lone ==
  \A c, d \in Container : Exists(c) /\ Exists(d) /\ OwnerOf[c] = OwnerOf[d] => c = d

\* The container of a devcontainer up under way is its repository's, and no
\* other of that repository exists.
Alone(p) ==
  LET mine == snap[p].container.container
  IN at[p] = "upping" =>
       /\ OwnerOf[mine] = cmd[p].repo
       /\ \A c \in Container : Exists(c) /\ OwnerOf[c] = cmd[p].repo => c = mine

ContainersSafe == Lone /\ \A p \in Process : Alone(p)

\* A container comes into being at the end of a devcontainer up alone.
LEMMA ContainersAppear ==
  ASSUME Sound, [Next]_vars, NEW c \in Container, Exists(c)', ~Exists(c)
  PROVE  \E p \in Process : EndsUp(p) /\ c = snap[p].container.container
<1>1. docker \in [Container -> DockerState]
  BY DEF Sound, Types
<1>2. docker' # docker
  BY DEF Exists
<1>3. ASSUME NEW p \in Process, Call(p) \/ CallFails(p)
      PROVE  EndsUp(p) /\ c = snap[p].container.container
  <2>1. CASE EndsUp(p)
    BY <1>1, <1>2, <2>1 DEF EndsUp, Exists
  <2>2. CASE StopsContainer(p)
    <3> DEFINE x == snap[p].stored.binding.container
    <3>1. docker' = [docker EXCEPT ![x] = IF @ = "running" THEN "stopped" ELSE @]
      BY <2>2 DEF StopsContainer
    <3> HIDE DEF x
    <3> QED
      BY <1>1, <3>1 DEF Exists
  <2>3. CASE ~EndsUp(p) /\ ~StopsContainer(p)
    BY <1>2, <1>3, <2>3 DEF Call, CallFails, Registers, Binds, Reads,
       ReadsRepository, OpenLooks, Probes, Reprobes, BeginsUp, Adopts, Allocates,
       LooksForOccupant, Creates, Confirms, ChecksSiblings, StopLooks, Kills,
       Commits, RecordsBinding, RecordsFailure
  <2> QED
    BY <2>1, <2>2, <2>3
<1>4. ~User
  BY <1>1, <1>2 DEF User, UserKills, UserRenames, UserOccupies, UserRetags,
     UserActsOnDocker, UserLosesDatabase, Exists
<1>5. ASSUME NEW p \in Process,
             Starts(p) \/ TakesLock(p) \/ GivesUp(p) \/ Releases(p) \/ Crashes(p)
      PROVE  FALSE
  BY <1>2, <1>5, OthersLeaveWorld
<1> QED
  BY <1>2, <1>3, <1>4, <1>5, Steps DEF vars

\* What devcontainer up picks is alone, as long as no repository has two.
LEMMA TargetsAlone ==
  ASSUME Lone, NEW r, NEW mine \in UpTargets(r)
  PROVE  /\ mine \in Container /\ OwnerOf[mine] = r
         /\ \A c \in Container : Exists(c) /\ OwnerOf[c] = r => c = mine
<1> DEFINE own == {c \in Container : OwnerOf[c] = r /\ Exists(c)}
           absent == {c \in Container : OwnerOf[c] = r /\ docker[c] = "absent"}
<1>1. UpTargets(r) = IF own # {} THEN own ELSE absent
  BY DEF UpTargets, Exists
<1> QED
  BY <1>1 DEF Lone

\* The invariant is inductive: an up makes its container appear under the
\* repository's lock, where no other up is under way.
LEMMA ContainersStaySafe ==
  ASSUME Sound, Locks!MutualExclusion, ContainersSafe, [Next]_vars
  PROVE  ContainersSafe'
<1>1. ASSUME NEW p \in Process, EndsUp(p)
      PROVE  /\ phase[p] = "held" /\ OnContainers(cmd[p]) /\ at[p] = "upping"
             /\ snap[p].container.container \in Container
             /\ OwnerOf[snap[p].container.container] = cmd[p].repo
             /\ \A c \in Container :
                  Exists(c) /\ OwnerOf[c] = cmd[p].repo
                    => c = snap[p].container.container
  <2>1. /\ phase[p] = "held" /\ at[p] = "upping" /\ OnContainers(cmd[p])
        /\ snap[p].container.container \in Container
    BY <1>1, EndsUpMove DEF Moved, OnContainers
  <2> QED
    BY <2>1 DEF ContainersSafe, Alone
<1>2. ASSUME NEW p \in Process, EndsUp(p),
             NEW c \in Container, Exists(c)', ~Exists(c)
      PROVE  c = snap[p].container.container
  BY <1>2 DEF EndsUp, Exists, Sound, Types
<1>3. Lone'
  <2> SUFFICES ASSUME NEW c \in Container, NEW d \in Container,
                      Exists(c)', Exists(d)', OwnerOf[c] = OwnerOf[d], c # d
               PROVE  FALSE
    BY DEF Lone
  <2>1. ~(Exists(c) /\ Exists(d))
    BY DEF ContainersSafe, Lone
  <2>2. PICK p \in Process :
          /\ EndsUp(p)
          /\ c = snap[p].container.container \/ d = snap[p].container.container
    BY <2>1, ContainersAppear
  <2>3. Exists(c) \/ Exists(d)
    BY <1>2, <2>2
  <2> QED
    BY <1>1, <1>2, <2>1, <2>2, <2>3
<1>4. ASSUME NEW q \in Process
      PROVE  Alone(q)'
  <2>1. CASE at'[q] # "upping"
    BY <2>1 DEF Alone
  <2>2. CASE (Call(q) \/ CallFails(q)) /\ at'[q] = "upping"
    <3>1. BeginsUp(q)
      BY <2>2, LeadingCalls
    <3>2. /\ snap'[q].container.container \in UpTargets(cmd[q].repo)
          /\ cmd' = cmd /\ docker' = docker
      BY <3>1, BeginsUpMove DEF Moved, BeginsUp
    <3> QED
      BY <3>2, TargetsAlone DEF ContainersSafe, Alone, Exists
  <2>3. CASE UNCHANGED <<cmd[q], at[q], snap[q]>> /\ at[q] = "upping"
    <3> DEFINE mine == snap[q].container.container
    <3>1. /\ phase[q] = "held" /\ cmd[q].op \in {"open", "autostart"}
          /\ mine \in Container
      BY <2>3 DEF Sound, Prepared, Has
    <3>2. ASSUME NEW c \in Container, Exists(c)', ~Exists(c), OwnerOf[c] = cmd[q].repo
          PROVE  c = mine
      <4>1. PICK p \in Process : EndsUp(p) /\ c = snap[p].container.container
        BY <3>2, ContainersAppear
      <4>2. p = q
        BY <1>1, <2>3, <3>1, <3>2, <4>1, RepositoriesApart DEF OnContainers
      <4> QED
        BY <4>1, <4>2
    <3>3. /\ OwnerOf[mine] = cmd[q].repo
          /\ \A c \in Container : Exists(c)' /\ OwnerOf[c] = cmd[q].repo => c = mine
      BY <2>3, <3>2 DEF ContainersSafe, Alone
    <3> QED
      BY <2>3, <3>3 DEF Alone
  <2> QED
    BY <2>1, <2>2, <2>3, WhoMoves
<1> QED
  BY <1>3, <1>4 DEF ContainersSafe

\* A repository never gets a second container, whichever session or autostart
\* asks for one: the container a devcontainer up reuses or makes stays the only
\* one until it is there, because the repository's lock keeps every other up
\* out (locking.go, autostart.go).
THEOREM ContainersStaySingle == Spec => []OneContainerPerRepository
<1>1. Init => ContainersSafe
  BY DEF Init, ContainersSafe, Lone, Alone, Exists
<1>2. Sound /\ Locks!MutualExclusion /\ ContainersSafe /\ [Next]_vars
        => ContainersSafe'
  BY ContainersStaySafe
<1>3. ContainersSafe => OneContainerPerRepository
  BY AtMostOne DEF ContainersSafe, Lone, Exists, OneContainerPerRepository
<1> QED
  BY <1>1, <1>2, <1>3, CommandsSoundly, CommandsExclude, PTL DEF Spec

-----------------------------------------------------------------------------
(* A stop spares its siblings *)

\* Every live session of a workspace that can be resolved has a row.
RecordedLive ==
  \A s \in tmux.sessions, v \in Resolvable : s.keys.id = v.id => Store!Known(v.id)

\* A stop that had to check the siblings, has done so, and goes on to the shared
\* container.
Checked(p) ==
  /\ cmd[p] # NULL /\ cmd[p].op = "stop" /\ cmd[p].container /\ ~cmd[p].force
  /\ at[p] \in {"look", "kill", "stop_container"}
  /\ snap[p].stored # NULL /\ snap[p].stored.binding # NULL

\* No recorded sibling is live meanwhile.
Spared(p) == Checked(p) => ~SiblingsLive(cmd[p].ws)

SiblingsSafe == RecordedLive /\ \A p \in Process : Spared(p)

\* Where nobody deletes the database, it changes by the commands' transactions
\* alone.
LEMMA DatabaseSteps ==
  ASSUME Sound, [Next]_vars, "lose database" \notin Disturbances
  PROVE  Transacts \/ UNCHANGED db
<1>1. ASSUME NEW p \in Process, Call(p) \/ CallFails(p)
      PROVE  Transacts \/ UNCHANGED db
  BY <1>1, CallsTransact
<1>2. CASE User
  BY <1>2 DEF User, UserKills, UserRenames, UserOccupies, UserRetags,
     UserActsOnDocker, UserLosesDatabase, ByHand
<1> QED
  BY <1>1, <1>2, OthersLeaveWorld, Steps DEF vars

\* A transaction adds no row but that of a workspace it is about, and moves
\* none to another repository.
LEMMA TransactionAdds ==
  ASSUME StoreSound, Transacts \/ UNCHANGED db, NEW w \in DOMAIN db'.workspaces
  PROVE  \/ /\ Store!Known(w)
            /\ db'.workspaces[w].repository_id = db.workspaces[w].repository_id
         \/ ~Store!Known(w) /\ \E v \in Resolvable : w = v.id
<1> USE StoreAssumed
<1>1. StoreProofs!IInv /\ StoreProofs!Records =>
        \A x \in DOMAIN db'.workspaces :
          \/ /\ StoreProofs!Known(x)
             /\ db'.workspaces[x].repository_id = db.workspaces[x].repository_id
          \/ ~StoreProofs!Known(x) /\ \E v \in Resolvable : x = v.id
  BY StoreProofs!RowsAppear DEF StoreProofs!RowsAppear
<1>2. StoreProofs!IInv
  BY SameStore DEF StoreSound, Store!TypeOK, Store!Integrity, StoreProofs!IInv,
     StoreProofs!TypeOK, StoreProofs!Integrity
<1>3. Store!Known(w) <=> StoreProofs!Known(w)
  BY DEF Store!Known, StoreProofs!Known
<1>4. CASE Transacts
  BY <1>1, <1>2, <1>3, <1>4, SameTransactions
<1>5. CASE UNCHANGED db
  BY <1>5 DEF Store!Known
<1> QED
  BY <1>4, <1>5

\* A command creates a session for a workspace that has its row.
LEMMA RecordedLiveStays ==
  ASSUME Sound, RecordedLive, [Next]_vars, "lose database" \notin Disturbances
  PROVE  RecordedLive'
<1>1. TmuxTyped
  BY DEF Sound, Types, TmuxTyped
<1>2. \A v \in Resolvable : Store!Known(v.id) => Store!Known(v.id)'
  BY DatabaseSteps, TransactionKeeps DEF Sound
<1>3. Resolvable \subseteq Store!Identity
  BY StoreAssumption DEF Store!IDsAreDigests
<1>4. \A v \in Resolvable : v.id # NULL
  BY <1>3, StoreAssumption DEF Store!NullIsNoValue, Store!Identity
<1>5. ASSUME \A s \in tmux'.sessions, v \in Resolvable :
               s.keys.id = v.id =>
                 \/ Store!Known(v.id)
                 \/ \E t \in tmux.sessions : t.keys.id = s.keys.id
      PROVE  RecordedLive'
  BY <1>2, <1>5 DEF RecordedLive
<1>6. CASE UNCHANGED tmux
  BY <1>5, <1>6
<1>7. ASSUME NEW s, Removed(s) PROVE RecordedLive'
  BY <1>1, <1>5, <1>7, RemovedTyped
<1>8. ASSUME NEW s, NEW t, Altered(s, t) PROVE RecordedLive'
  <2>1. /\ tmux'.sessions = (tmux.sessions \ {s}) \cup {t}
        /\ s \in tmux.sessions /\ t.keys.id = s.keys.id
    BY <1>1, <1>8, AlteredTyped DEF Altered
  <2> QED
    BY <1>5, <2>1
<1>9. ASSUME NEW n, NEW keys \in SessionKeys, Added(n, keys),
             \A v \in Resolvable : keys.id = v.id => Store!Known(v.id)
      PROVE  RecordedLive'
  <2> DEFINE new == [sid |-> tmux.next, name |-> n, keys |-> keys]
  <2>1. tmux'.sessions = tmux.sessions \cup {new} /\ new.keys = keys
    BY <1>1, <1>9, AddedTyped
  <2> HIDE DEF new
  <2> QED
    BY <1>5, <1>9, <2>1
<1>10. Plan!NoKeys.id = NULL
  BY DEF Plan!NoKeys
<1>11. ASSUME NEW p \in Process, cmd[p].op = "open", at[p] = "create",
              phase[p] = "held", NEW v \in Resolvable,
              Plan!KeysOf(cmd[p].ws).id = v.id
       PROVE  Store!Known(v.id)
  <2>1. Store!Known(cmd[p].ws.id)
    BY <1>11, AtWork DEF Sound, Prepared
  <2> QED
    BY <1>11, <2>1 DEF Plan!KeysOf
<1> QED
  BY <1>4, <1>6, <1>7, <1>8, <1>9, <1>10, <1>11, TmuxSteps

\* Under the repository's lock no sibling of a quiet container comes to life.
LEMMA SiblingsStayQuiet ==
  ASSUME Sound, Sound', Locks!MutualExclusion, RecordedLive, [Next]_vars,
         "lose database" \notin Disturbances,
         NEW q \in Process, phase[q] = "held", at[q] # "over",
         cmd[q].op = "stop", cmd[q].container,
         NEW ws \in Resolvable, ws = cmd[q].ws, ~SiblingsLive(ws)
  PROVE  ~SiblingsLive(ws)'
<1> SUFFICES ASSUME NEW w \in DOMAIN db'.workspaces, w # ws.id,
                    db'.workspaces[w].repository_id = ws.repository_id,
                    ClaimantsOf(w)' # {}
             PROVE  FALSE
  BY DEF SiblingsLive, Store!OnRepositories
<1>1. w \in WorkspaceID
  BY DEF Sound, StoreSound, Store!TypeOK, Store!IsDatabase, Store!IsTable
<1>2. cmd[q].repo = ws.repository_id
  BY AtWork
<1>3. CASE ClaimantsOf(w) = {}
  <2>1. PICK p \in Process : /\ Creates(p) /\ cmd[p].op = "open" /\ at[p] = "create"
                             /\ phase[p] = "held" /\ cmd[p].ws.id = w
    BY <1>1, <1>3, ClaimsAppear
  <2>2. cmd[p].repo = cmd[p].ws.repository_id /\ cmd[p].ws \in Resolvable
    BY <2>1, AtWork
  <2>3. db'.workspaces[w].repository_id = cmd[p].ws.repository_id
    BY <2>1, <2>2 DEF Sound, StoreSound, Store!IsPlaced
  <2>4. cmd[p].repo # cmd[q].repo
    BY <2>1, RepositoriesApart DEF OnContainers
  <2> QED
    BY <1>2, <2>2, <2>3, <2>4
<1>4. CASE ClaimantsOf(w) # {}
  <2>1. Store!Known(w)
    BY <1>4, DatabaseSteps, TransactionAdds, ZenonT(40)
       DEF RecordedLive, ClaimantsOf, Plan!Claims, Sound
  <2>2. db.workspaces[w].repository_id = ws.repository_id
    BY <2>1, DatabaseSteps, TransactionAdds DEF Sound
  <2> QED
    BY <1>4, <2>1, <2>2 DEF SiblingsLive, Store!OnRepositories, Store!Known
<1> QED
  BY <1>3, <1>4

\* The invariant is inductive.
LEMMA SiblingsStaySafe ==
  ASSUME Sound, Sound', Locks!MutualExclusion, SiblingsSafe, [Next]_vars,
         "lose database" \notin Disturbances
  PROVE  SiblingsSafe'
<1>1. RecordedLive'
  BY RecordedLiveStays DEF SiblingsSafe
<1>2. ASSUME NEW q \in Process
      PROVE  Spared(q)'
  <2> SUFFICES ASSUME Checked(q)' PROVE ~(SiblingsLive(cmd[q].ws))'
    BY DEF Spared
  <2> DEFINE careful == cmd[q].op = "stop" /\ cmd[q].container /\ ~cmd[q].force
  <2>1. ASSUME cmd'[q] = cmd[q], phase[q] = "held", at[q] # "over", careful,
               ~SiblingsLive(cmd[q].ws)
        PROVE  ~(SiblingsLive(cmd[q].ws))'
    <3>1. PICK ws \in Resolvable : ws = cmd[q].ws
      BY <2>1, AtWork
    <3>2. ~SiblingsLive(ws)'
      BY <2>1, <3>1, SiblingsStayQuiet DEF SiblingsSafe
    <3> QED
      BY <2>1, <3>1, <3>2 DEF SiblingsLive
  <2>2. CASE UNCHANGED <<cmd[q], at[q], snap[q]>>
    <3>1. phase[q] = "held" /\ at[q] # "over" /\ careful
      BY <2>2 DEF Checked, Sound, Prepared
    <3>2. ~SiblingsLive(cmd[q].ws)
      BY <2>2 DEF Checked, SiblingsSafe, Spared
    <3> QED
      BY <2>1, <2>2, <3>1, <3>2
  <2>3. CASE Call(q) \/ CallFails(q)
    <3>1. /\ Moved(q) /\ cmd'[q] = cmd[q] /\ phase[q] = "held" /\ at[q] # "over"
          /\ careful /\ cmd[q] # NULL
      BY <2>3, CallsMove, AtWork DEF Checked, Moved
    <3>2. CASE Reads(q)
      BY <3>1, <3>2, ReadsMove DEF Checked
    <3>3. CASE ChecksSiblings(q)
      BY <2>1, <3>1, <3>3, SessionCallsMove DEF Checked
    <3>4. CASE StopLooks(q) \/ Kills(q)
      <4>1. /\ at[q] \in {"look", "kill"} /\ snap'[q].stored = snap[q].stored
        BY <3>4, StopLooksMove, KillsMove
      <4>2. snap[q].stored # NULL /\ snap[q].stored.binding # NULL
        BY <4>1 DEF Checked
      <4>3. Checked(q)
        BY <3>1, <4>1, <4>2 DEF Checked
      <4>4. ~SiblingsLive(cmd[q].ws)
        BY <4>3 DEF SiblingsSafe, Spared
      <4> QED
        BY <2>1, <3>1, <4>4
    <3>5. at'[q] \in {"look", "kill", "stop_container"}
      BY DEF Checked
    <3>6. /\ ~(Adopts(q) \/ LooksForOccupant(q) \/ Creates(q) \/ Confirms(q))
             \/ ChecksSiblings(q)
          /\ ~(OpenLooks(q) \/ ReadsRepository(q) \/ Probes(q) \/ Reprobes(q))
          /\ ~(BeginsUp(q) \/ EndsUp(q) \/ Allocates(q) \/ StopsContainer(q))
      <4>1. ~(OpenLooks(q) \/ ReadsRepository(q) \/ BeginsUp(q) \/ Allocates(q))
        BY <3>5, OpenLooksMove, ReadsRepositoryMoves, BeginsUpMove, AllocatesMove
      <4>2. ~Probes(q)
        BY <3>5, ProbesMove DEF ProbePlaces
      <4>3. ~Reprobes(q)
        BY <3>5, ReprobesMove DEF ProbePlaces
      <4>4. ~EndsUp(q)
        BY <3>5, EndsUpMove DEF ProbePlaces
      <4>5. ~StopsContainer(q)
        BY <3>5, StopsContainerMove
      <4>6. \/ ~(Adopts(q) \/ LooksForOccupant(q) \/ Creates(q) \/ Confirms(q))
            \/ ChecksSiblings(q)
        BY <3>5, SessionCallsMove
      <4> QED
        BY <4>1, <4>2, <4>3, <4>4, <4>5, <4>6
    <3>7. Reads(q) \/ ChecksSiblings(q) \/ StopLooks(q) \/ Kills(q)
      BY <2>3, <3>5, <3>6, StoreCallsMove DEF Call
    <3> QED
      BY <3>2, <3>3, <3>4, <3>7
  <2> QED
    BY <2>2, <2>3, WhoMoves DEF Checked
<1> QED
  BY <1>1, <1>2 DEF SiblingsSafe

\* An unforced stop --container stops the container while no recorded sibling
\* is live, however many calls after its check: the repository's lock keeps
\* siblings from opening, and a bind, which does not take it, can record no live
\* session that was not recorded (stop.go: "exactly the race the check exists to
\* prevent").  That last needs that the database of a live session is not
\* deleted by hand and was there from the start.
THEOREM StopsSpareSiblings ==
  ASSUME "lose database" \notin Disturbances,
         \A d \in InitialDatabases, s \in InitialSessions, v \in Resolvable :
           s.keys.id = v.id => v.id \in DOMAIN d.workspaces
  PROVE  Spec => StopSparesSiblings
<1> DEFINE Spares == \A p \in Process :
                       Makes(p, "stop_container") /\ docker' # docker /\ ~cmd[p].force
                         => ~SiblingsLive(cmd[p].ws)
<1>1. Init => SiblingsSafe
  <2> SUFFICES ASSUME Init PROVE SiblingsSafe
    OBVIOUS
  <2>1. db \in InitialDatabases /\ tmux.sessions = InitialSessions
    BY DEF Init
  <2>2. RecordedLive
    BY <2>1 DEF RecordedLive, Store!Known
  <2>3. \A p \in Process : cmd[p] = NULL
    BY DEF Init
  <2> QED
    BY <2>2, <2>3 DEF SiblingsSafe, Spared, Checked
<1>2. Sound /\ Sound' /\ Locks!MutualExclusion /\ SiblingsSafe /\ [Next]_vars
        => SiblingsSafe'
  BY SiblingsStaySafe
<1>3. Sound /\ SiblingsSafe => Spares
  <2> SUFFICES ASSUME Sound, SiblingsSafe, NEW p \in Process,
                      at[p] = "stop_container", ~cmd[p].force
               PROVE  ~SiblingsLive(cmd[p].ws)
    BY DEF Makes
  <2>1. phase[p] = "held"
    BY DEF Sound, Prepared
  <2> QED
    BY <2>1, AtWork DEF SiblingsSafe, Spared, Checked, Has
<1> QED
  BY <1>1, <1>2, <1>3, CommandsSoundly, CommandsExclude, PTL DEF Spec, StopSparesSiblings

-----------------------------------------------------------------------------
(* The record names the session *)

\* The name n that an open counts on: of the live session it saw and may adopt,
\* or of the session it is about to create.
Remembers(p, n) ==
  /\ cmd[p] # NULL /\ cmd[p].op = "open"
  /\ \/ /\ at[p] = "probe" /\ snap[p].state = "live" /\ snap[p].live # NULL
        /\ Plan!SessionBelongsTo(snap[p].live, cmd[p].ws)
        /\ n = snap[p].live.name
     \/ /\ at[p] \in {"reprobe", "up", "upping"} /\ snap[p].session = "adopt"
        /\ n = snap[p].live.name
     \/ at[p] = "adopt" /\ n = snap[p].live.name
     \/ at[p] \in {"occupant", "create"} /\ n = snap[p].name

\* It is the recorded one.
Named(p) ==
  \A n \in Name : Remembers(p, n) => RowOf(cmd[p].ws).actual_session = n

NamesSafe == RecordNamesSession /\ \A p \in Process : Named(p)

\* What an adoption is about to write is what is written already.
LEMMA AdoptersRemember ==
  ASSUME Sound, NamesSafe, NEW p \in Process, Adopts(p)
  PROVE  RowOf(cmd[p].ws).actual_session = snap[p].live.name
<1>1. phase[p] = "held" /\ at[p] = "adopt" /\ cmd[p].op = "open" /\ cmd[p] # NULL
  BY Stepped, AtWork DEF Adopts
<1>2. snap[p].live.name \in Name
  BY <1>1, AtWork DEF Has, SnapRow, SessionRow
<1> QED
  BY <1>1, <1>2 DEF NamesSafe, Named, Remembers

\* So every recorded name stays.
LEMMA NamesKept ==
  ASSUME Sound, NamesSafe, [Next]_vars, "lose database" \notin Disturbances,
         NEW v \in Resolvable, Store!Known(v.id), RowOf(v).actual_session # NULL
  PROVE  /\ Store!Known(v.id)'
         /\ RowOf(v)'.actual_session = RowOf(v).actual_session
<1>1. Store!Known(v.id)'
  BY DatabaseSteps, TransactionKeeps DEF Sound
<1>2. CASE Notes \/ UNCHANGED db
  BY <1>1, <1>2, TransactionNames DEF Sound
<1>3. ASSUME NEW p \in Process, Adopts(p)
      PROVE  RowOf(v)'.actual_session = RowOf(v).actual_session
  <2>1. v.id = cmd[p].ws.id => RowOf(v).actual_session = snap[p].live.name
    BY <1>3, AdoptersRemember DEF RowOf
  <2> QED
    BY <1>3, <2>1, AdoptionNames
<1>4. Notes \/ UNCHANGED db \/ \E p \in Process : Adopts(p)
  <2>1. ASSUME NEW p \in Process, Call(p) \/ CallFails(p)
        PROVE  Notes \/ UNCHANGED db \/ Adopts(p)
    BY <2>1, CallsTransact
  <2>2. CASE User
    BY <2>2 DEF User, UserKills, UserRenames, UserOccupies, UserRetags,
       UserActsOnDocker, UserLosesDatabase, ByHand
  <2> QED
    BY <2>1, <2>2, OthersLeaveWorld, Steps DEF vars
<1> QED
  BY <1>1, <1>2, <1>3, <1>4

\* Where nobody renames, a session of a workspace was there before, under its
\* name, or is created under the name its open remembers.
LEMMA SessionsFrom ==
  ASSUME Sound, [Next]_vars, "rename" \notin Disturbances, NEW s \in tmux'.sessions,
         NEW ws \in Resolvable, Plan!SessionBelongsTo(s, ws)
  PROVE  \/ \E t \in tmux.sessions :
              Plan!SessionBelongsTo(t, ws) /\ t.name = s.name
         \/ \E p \in Process :
              /\ Remembers(p, s.name) /\ cmd[p].ws.id = ws.id
              /\ Creates(p) /\ s.name \in Name /\ phase[p] = "held"
<1>1. TmuxTyped
  BY DEF Sound, Types, TmuxTyped
<1>2. ws.id # NULL /\ <<ws.repo_root, ws.session>> # NULL
  BY StoreAssumption, RecordsAssumption
     DEF Store!IDsAreDigests, Store!Identity, Store!NullIsNoValue
<1>3. ASSUME NEW x, Removed(x)
      PROVE  s \in tmux.sessions
  BY <1>1, <1>3, RemovedTyped
<1>4. ASSUME NEW n, NEW keys \in SessionKeys, Added(n, keys)
      PROVE  s \in tmux.sessions \/ (s.name = n /\ s.keys = keys)
  BY <1>1, <1>4, AddedTyped
<1>5. ASSUME NEW p \in Process, Call(p) \/ CallFails(p), s \notin tmux.sessions
      PROVE  /\ Remembers(p, s.name) /\ cmd[p].ws.id = ws.id
             /\ Creates(p) /\ s.name \in Name /\ phase[p] = "held"
  <2>1. /\ Creates(p) /\ cmd[p].op = "open" /\ at[p] = "create"
        /\ Plan!KeysOf(cmd[p].ws) \in SessionKeys
        /\ Added(snap[p].name, Plan!KeysOf(cmd[p].ws))
    BY <1>3, <1>5, CallsOnTmux
  <2>2. s.name = snap[p].name /\ s.keys = Plan!KeysOf(cmd[p].ws)
    BY <1>4, <1>5, <2>1
  <2>3. phase[p] = "held" /\ cmd[p] # NULL /\ snap[p].name \in Name
    BY <2>1, Stepped, AtWork DEF Creates, Answers, Has
  <2>4. cmd[p].ws.id = ws.id
    BY <2>2 DEF Plan!SessionBelongsTo, Plan!KeysOf
  <2> QED
    BY <2>1, <2>2, <2>3, <2>4 DEF Remembers
<1>6. CASE UserRetags
  <2>1. PICK x \in tmux.sessions :
          tmux' = [tmux EXCEPT !.sessions =
                     (@ \ {x}) \cup {[x EXCEPT !.keys.place = NULL]}]
    BY <1>6 DEF UserRetags
  <2>2. x \in SessionRow
    BY DEF Sound, Types
  <2>3. [x EXCEPT !.keys.place = NULL].keys.place = NULL
    BY <2>2 DEF SessionRow
  <2>4. s # [x EXCEPT !.keys.place = NULL]
    <3>1. s.keys.place # NULL
      BY <1>2 DEF Plan!SessionBelongsTo, Plan!KeysOf
    <3> QED
      BY <2>3, <3>1
  <2>5. s \in tmux.sessions
    BY <1>1, <2>1, <2>4 DEF TmuxTyped
  <2> QED
    BY <2>5
<1>7. CASE User /\ ~UserRetags /\ s \notin tmux.sessions
  <2>1. ~UserRenames
    BY DEF UserRenames, ByHand
  <2>2. UserOccupies
    BY <1>3, <1>7, <2>1 DEF User, UserKills, Removed, UserActsOnDocker,
       UserLosesDatabase
  <2>3. PICK n : Plan!NoKeys \in SessionKeys /\ Added(n, Plan!NoKeys)
    BY <2>2 DEF UserOccupies, Added, Plan!NoKeys, SessionKeys
  <2>4. s.keys = Plan!NoKeys
    BY <1>4, <1>7, <2>3
  <2> QED
    BY <1>2, <2>4 DEF Plan!NoKeys, Plan!SessionBelongsTo, Plan!KeysOf
<1> QED
  BY <1>5, <1>6, <1>7, OthersLeaveWorld, Steps DEF vars

\* A call leads its open to remember the recorded name.
LEMMA CallsRemember ==
  ASSUME Sound, NamesSafe, NEW q \in Process, Call(q) \/ CallFails(q)
  PROVE  Named(q)'
<1>1. /\ Moved(q) /\ cmd' = cmd /\ phase[q] = "held" /\ cmd[q] # NULL
      /\ snap[q] \in SnapRow
      /\ cmd[q].op = "open" => cmd[q].ws \in Resolvable
  BY CallsMove, AtWork DEF Moved
<1>2. ASSUME UNCHANGED db, \A n \in Name : Remembers(q, n)' => Remembers(q, n)
      PROVE  Named(q)'
  BY <1>1, <1>2 DEF Named, NamesSafe, RowOf
<1>3. CASE at'[q] \notin {"probe", "reprobe", "up", "upping", "adopt", "occupant", "create"}
           \/ cmd[q].op # "open"
  BY <1>1, <1>3 DEF Named, Remembers
<1>4. CASE OpenLooks(q)
  <2>1. /\ UNCHANGED <<db, tmux>> /\ at'[q] = "probe" /\ cmd[q].op = "open"
        /\ snap'[q].state = "live" /\ snap'[q].live # NULL
             => snap'[q].live \in tmux.sessions
    <3> DEFINE view == TmuxView(cmd[q].ws.id, CandidateNames(cmd[q].ws, snap[q].stored))
    <3>1. view.live # NULL => view.live \in ClaimantsOf(cmd[q].ws.id)
      BY Views DEF Sound
    <3> HIDE DEF view
    <3>2. /\ UNCHANGED <<db, tmux>> /\ at'[q] = "probe" /\ cmd[q].op = "open"
          /\ snap'[q].state = "unknown" \/ snap'[q].live = view.live
      BY <1>4, OpenLooksMove DEF view
    <3> QED
      BY <3>1, <3>2 DEF ClaimantsOf
  <2>2. \A n \in Name : Remembers(q, n)' =>
          /\ snap'[q].live \in tmux.sessions /\ n = snap'[q].live.name
          /\ Plan!SessionBelongsTo(snap'[q].live, cmd[q].ws)
    BY <1>1, <2>1 DEF Remembers
  <2> QED
    BY <1>1, <2>1, <2>2 DEF Named, NamesSafe, RecordNamesSession, RowOf
<1>5. CASE Probes(q) /\ cmd[q].op = "open"
  <2>1. /\ at[q] = "probe" /\ at'[q] \in ProbePlaces
        /\ snap'[q].session = Plan!SessionAction(snap[q], cmd[q].ws)
        /\ at'[q] = "adopt" => snap'[q].session = "adopt"
        /\ snap'[q].session = "adopt" => snap'[q].live = snap[q].live
        /\ UNCHANGED db
    BY <1>5, ProbesMove DEF Probes
  <2>2. snap'[q].session = "adopt" =>
          /\ snap[q].state = "live" /\ snap[q].live # NULL
          /\ Plan!SessionBelongsTo(snap[q].live, cmd[q].ws)
    BY <2>1 DEF Plan!SessionAction, Plan!Refuses
  <2>3. ASSUME NEW n \in Name, Remembers(q, n)'
        PROVE  Remembers(q, n)
    <3>1. at'[q] \in {"reprobe", "up", "adopt"} /\ n = snap'[q].live.name
      BY <2>1, <2>3 DEF Remembers, ProbePlaces
    <3>2. snap'[q].session = "adopt"
      BY <2>1, <2>3, <3>1 DEF Remembers
    <3> QED
      BY <1>1, <1>5, <2>1, <2>2, <3>1, <3>2 DEF Remembers
  <2> QED
    BY <1>2, <2>1, <2>3
<1>6. CASE Reprobes(q) /\ cmd[q].op = "open"
  <2>1. /\ at[q] = "reprobe" /\ at'[q] \in ProbePlaces \cup {"error"}
        /\ snap'[q].session = snap[q].session /\ snap'[q].live = snap[q].live
        /\ at'[q] = "adopt" => snap[q].session = "adopt"
        /\ UNCHANGED db
    BY <1>6, ReprobesMove DEF Reprobes
  <2> QED
    BY <1>1, <1>2, <1>6, <2>1 DEF Remembers, ProbePlaces
<1>7. CASE BeginsUp(q) /\ cmd[q].op = "open"
  <2>1. /\ at[q] = "up" /\ at'[q] = "upping" /\ UNCHANGED db
        /\ snap'[q].session = snap[q].session /\ snap'[q].live = snap[q].live
    BY <1>7, BeginsUpMove DEF BeginsUp
  <2> QED
    BY <1>1, <1>2, <1>7, <2>1 DEF Remembers
<1>8. CASE EndsUp(q) /\ cmd[q].op = "open"
  <2>1. /\ at[q] = "upping" /\ at'[q] \in ProbePlaces \cup {"error"}
        /\ snap' = snap /\ UNCHANGED db
        /\ at'[q] = "adopt" => snap[q].session = "adopt"
    BY <1>8, EndsUpMove DEF EndsUp
  <2> QED
    BY <1>1, <1>2, <1>8, <2>1 DEF Remembers, ProbePlaces
<1>9. CASE Allocates(q) /\ at'[q] = "occupant"
  <2> DEFINE name == snap'[q].name
  <2>1. Store!AllocateSessionName(cmd[q].ws.id, name) /\ name # NULL
    BY <1>9, AllocatesMove
  <2>2. db.workspaces \in [DOMAIN db.workspaces -> Store!WorkspaceRow]
    BY DEF Sound, StoreSound, Store!TypeOK, Store!IsDatabase, Store!IsTable
  <2>3. db = [repositories |-> db.repositories, workspaces |-> db.workspaces,
              container_bindings |-> db.container_bindings,
              last_operations |-> db.last_operations]
    BY DEF Sound, StoreSound, Store!TypeOK, Store!IsDatabase
  <2> HIDE DEF name
  <2>4. db'.workspaces[cmd[q].ws.id].actual_session = name
    <3>1. CASE UNCHANGED db /\ name = db.workspaces[cmd[q].ws.id].actual_session
      BY <3>1
    <3>2. CASE db' = [db EXCEPT !.workspaces[cmd[q].ws.id].actual_session = name]
      <4>1. /\ cmd[q].ws.id \in DOMAIN db.workspaces
            /\ db.workspaces[cmd[q].ws.id] \in Store!WorkspaceRow
        BY <2>1, <2>2 DEF Store!AllocateSessionName, Store!Known
      <4>2. db'.workspaces
              = [db.workspaces EXCEPT ![cmd[q].ws.id].actual_session = name]
        BY <2>3, <3>2
      <4> QED
        BY <4>1, <4>2 DEF Store!WorkspaceRow
    <3> QED
      BY <2>1, <3>1, <3>2 DEF Store!AllocateSessionName
  <2>5. \A n : Remembers(q, n)' => n = name
    BY <1>9 DEF Remembers, name
  <2> QED
    BY <1>1, <2>4, <2>5 DEF Named, RowOf
<1>10. CASE /\ Adopts(q) \/ LooksForOccupant(q) \/ Creates(q) \/ Confirms(q)
               \/ ChecksSiblings(q)
            /\ at'[q] = "create"
  <2>1. at[q] = "occupant" /\ snap' = snap /\ UNCHANGED db
    BY <1>10, SessionCallsMove
  <2> QED
    BY <1>1, <1>2, <1>10, <2>1 DEF Remembers
<1>11. \/ at'[q] \notin {"probe", "reprobe", "up", "upping", "adopt", "occupant", "create"}
       \/ cmd[q].op # "open"
       \/ OpenLooks(q) \/ Probes(q) \/ Reprobes(q) \/ BeginsUp(q) \/ EndsUp(q)
       \/ Allocates(q) /\ at'[q] = "occupant"
       \/ /\ Adopts(q) \/ LooksForOccupant(q) \/ Creates(q) \/ Confirms(q)
               \/ ChecksSiblings(q)
          /\ at'[q] = "create"
  <2>1. CASE Registers(q) \/ Binds(q) \/ Commits(q) \/ RecordsBinding(q)
             \/ RecordsFailure(q) \/ CallFails(q)
    BY <2>1, StoreCallsMove
  <2>2. CASE Reads(q) \/ ReadsRepository(q)
    BY <2>2, ReadsMove, ReadsRepositoryMoves
  <2>3. CASE StopLooks(q) \/ Kills(q) \/ StopsContainer(q)
    BY <2>3, StopLooksMove, KillsMove, StopsContainerMove
  <2>4. CASE Allocates(q)
    BY <2>4, AllocatesMove
  <2>5. CASE Adopts(q) \/ LooksForOccupant(q) \/ Creates(q) \/ Confirms(q)
             \/ ChecksSiblings(q)
    BY <2>5, SessionCallsMove
  <2> QED
    BY <2>1, <2>2, <2>3, <2>4, <2>5 DEF Call
<1> QED
  BY <1>3, <1>4, <1>5, <1>6, <1>7, <1>8, <1>9, <1>10, <1>11

\* The invariant is inductive.
LEMMA NamesStaySafe ==
  ASSUME Sound, NamesSafe, [Next]_vars,
         "rename" \notin Disturbances, "lose database" \notin Disturbances
  PROVE  NamesSafe'
<1>1. ASSUME NEW q \in Process
      PROVE  Named(q)'
  <2>1. CASE Call(q) \/ CallFails(q)
    BY <2>1, CallsRemember
  <2>2. CASE at'[q] \in {"register", "read", "over"}
    BY <2>2 DEF Named, Remembers
  <2>3. CASE UNCHANGED <<cmd[q], at[q], snap[q]>>
    <3> SUFFICES ASSUME NEW n \in Name, Remembers(q, n)
                 PROVE  RowOf(cmd[q].ws)'.actual_session = n
      BY <2>3 DEF Named, Remembers, RowOf
    <3>1. /\ phase[q] = "held" /\ at[q] # "over" /\ cmd[q].op = "open"
          /\ RowOf(cmd[q].ws).actual_session = n
      BY DEF Sound, Prepared, Remembers, NamesSafe, Named
    <3>2. PICK v \in Resolvable : v = cmd[q].ws
      BY <3>1, AtWork
    <3>3. Store!Known(v.id) /\ n # NULL
      BY <3>1, <3>2, AtWork, StoreAssumption
         DEF Sound, Prepared, Remembers, Store!NullIsNoValue
    <3>4. RowOf(v)'.actual_session = n
      BY <3>1, <3>2, <3>3, NamesKept
    <3> QED
      BY <2>3, <3>2, <3>4 DEF RowOf
  <2> QED
    BY <2>1, <2>2, <2>3, WhoMoves
<1>2. RecordNamesSession'
  <2> SUFFICES ASSUME NEW s \in tmux'.sessions, NEW ws \in Resolvable,
                      Plan!SessionBelongsTo(s, ws)
               PROVE  /\ Store!Known(ws.id)'
                      /\ RowOf(ws)'.actual_session = s.name
    BY DEF RecordNamesSession
  <2>1. /\ Store!Known(ws.id) /\ RowOf(ws).actual_session = s.name
        /\ s.name \in Name
    <3>1. CASE \E t \in tmux.sessions :
                 Plan!SessionBelongsTo(t, ws) /\ t.name = s.name
      BY <3>1 DEF NamesSafe, RecordNamesSession, Sound, Types, SessionRow
    <3>2. ASSUME NEW p \in Process, Remembers(p, s.name), cmd[p].ws.id = ws.id,
                 Creates(p), s.name \in Name, phase[p] = "held"
          PROVE  Store!Known(ws.id) /\ RowOf(ws).actual_session = s.name
      <4>1. Store!Known(cmd[p].ws.id)
        BY <3>2 DEF Sound, Prepared, Remembers
      <4> QED
        BY <3>2, <4>1 DEF NamesSafe, Named, RowOf
    <3> QED
      BY <3>1, <3>2, SessionsFrom
  <2>2. s.name # NULL
    BY <2>1, StoreAssumption DEF Store!NullIsNoValue
  <2> QED
    BY <2>1, <2>2, NamesKept
<1> QED
  BY <1>1, <1>2 DEF NamesSafe

\* A session of a workspace is live only under the name its row records, at
\* every moment of every command, through crashes and failed calls, as long as
\* nobody renames it or deletes the database: the name is recorded before tmux
\* is asked, and nothing but an adoption ever replaces it (ensure.go,
\* createSession).
THEOREM RecordsNameSessions ==
  ASSUME "rename" \notin Disturbances, "lose database" \notin Disturbances,
         \A d \in InitialDatabases, s \in InitialSessions, ws \in Resolvable :
           Plan!SessionBelongsTo(s, ws) =>
             /\ ws.id \in DOMAIN d.workspaces
             /\ d.workspaces[ws.id].actual_session = s.name
  PROVE  Spec => []RecordNamesSession
<1>1. Init => NamesSafe
  <2> SUFFICES ASSUME Init PROVE NamesSafe
    OBVIOUS
  <2>1. db \in InitialDatabases /\ tmux.sessions = InitialSessions
    BY DEF Init
  <2>2. RecordNamesSession
    BY <2>1 DEF RecordNamesSession, RowOf, Store!Known
  <2>3. \A p \in Process : cmd[p] = NULL
    BY DEF Init
  <2> QED
    BY <2>2, <2>3 DEF NamesSafe, Named, Remembers
<1>2. Sound /\ NamesSafe /\ [Next]_vars => NamesSafe'
  BY NamesStaySafe
<1>3. NamesSafe => RecordNamesSession
  BY DEF NamesSafe
<1> QED
  BY <1>1, <1>2, <1>3, CommandsSoundly, PTL DEF Spec

-----------------------------------------------------------------------------
(* No crash wedges an open *)

\* The names a workspace may be given.
NamesOf(ws) ==
  {Candidates[ws.session_name][i] : i \in DOMAIN Candidates[ws.session_name]}

\* No two workspaces compete for a name, or for an ID.
NamesApart ==
  \A v, w \in Resolvable :
    v.id = w.id \/ NamesOf(v) \cap NamesOf(w) # {} => v = w

\* The rows of database d are of workspaces that can be resolved, and record no
\* other name than one of the workspace's own.
RowsOwn(d) ==
  \A w \in DOMAIN d.workspaces : \E v \in Resolvable :
    /\ w = v.id
    /\ d.workspaces[w].proposed_session = v.session_name
    /\ d.workspaces[w].actual_session \in NamesOf(v) \cup {NULL}

\* So are the sessions, and live under such a name.
SessionsOwn(sessions) ==
  \A s \in sessions : \E v \in Resolvable :
    Plan!SessionBelongsTo(s, v) /\ s.name \in NamesOf(v)

\* No call may fail any more, and no container was removed by hand.
Calm ==
  /\ "faults" \in DOMAIN left /\ left["faults"] = 0
  /\ \A c \in Container : docker[c] # "removed"

\* An open that demands a container is of a repository a devcontainer applies to.
DemandsApply ==
  \A c \in Commands : c.op = "open" /\ c.container => c.repo \in Containerized

\* An open that may come to adopt the session it saw.
Adopting(p) ==
  \/ at[p] = "probe" /\ snap[p].live # NULL
  \/ at[p] \in {"up", "upping"} /\ snap[p].session = "adopt"
  \/ at[p] = "adopt"

\* A bind or open that is not on its way to a failure: it knows its workspace by
\* its own names only.
Smooth(p) ==
  /\ cmd[p] # NULL /\ cmd[p].op = "bind"
       => at[p] \in {"read", "register", "bind", "ok"}
  /\ cmd[p] # NULL /\ cmd[p].op = "open" =>
       /\ at[p] \notin {"fail", "error", "reprobe"}
       /\ at[p] = "look"
            => snap[p].stored.row.actual_session \in NamesOf(cmd[p].ws) \cup {NULL}
       /\ at[p] = "probe" => ~Plan!Refuses(snap[p], cmd[p].ws)
       /\ Adopting(p) => snap[p].live.name \in NamesOf(cmd[p].ws)
       /\ at[p] \in {"occupant", "create", "confirm"}
            => snap[p].name \in NamesOf(cmd[p].ws)

\* The session an open has created stays until it is confirmed.
Created(p) ==
  cmd[p] # NULL /\ cmd[p].op = "open" /\ at[p] = "confirm" =>
    \E s \in tmux.sessions :
      Plan!SessionBelongsTo(s, cmd[p].ws) /\ s.name = snap[p].name

Unwedged ==
  /\ Calm /\ RowsOwn(db) /\ SessionsOwn(tmux.sessions)
  /\ \A p \in Process : Smooth(p) /\ Created(p)

\* Candidates are names, the proposed one first.
LEMMA OwnNames ==
  ASSUME NEW v \in Resolvable
  PROVE  /\ NamesOf(v) \subseteq Name /\ NULL \notin NamesOf(v)
         /\ v.session_name \in NamesOf(v)
<1>1. /\ v.session_name \in DOMAIN Candidates
      /\ NULL \notin Name
  BY StoreAssumption DEF Store!IDsAreDigests, Store!Identity, Store!NullIsNoValue
<1>2. /\ Candidates[v.session_name] \in Seq(Name)
      /\ Len(Candidates[v.session_name]) > 0
      /\ Candidates[v.session_name][1] = v.session_name
  BY <1>1, StoreAssumption DEF Store!CandidatesDiffer
<1>3. 1 \in DOMAIN Candidates[v.session_name]
  BY <1>2
<1> QED
  BY <1>1, <1>2, <1>3 DEF NamesOf

\* A session under a name of a workspace, or with its ID, is the workspace's.
LEMMA NamesTell ==
  ASSUME NamesApart, SessionsOwn(tmux.sessions), NEW s \in tmux.sessions,
         NEW ws \in Resolvable, s.name \in NamesOf(ws) \/ s.keys.id = ws.id
  PROVE  Plan!SessionBelongsTo(s, ws) /\ s.name \in NamesOf(ws)
<1>1. PICK v \in Resolvable : Plan!SessionBelongsTo(s, v) /\ s.name \in NamesOf(v)
  BY DEF SessionsOwn
<1>2. s.keys.id = v.id
  BY <1>1 DEF Plan!SessionBelongsTo, Plan!KeysOf
<1>3. v = ws
  BY <1>1, <1>2 DEF NamesApart
<1> QED
  BY <1>1, <1>3

\* The row of a workspace records no name but one of its own.
LEMMA RowsTell ==
  ASSUME NamesApart, RowsOwn(db), NEW ws \in Resolvable, Store!Known(ws.id)
  PROVE  /\ RowOf(ws).proposed_session = ws.session_name
         /\ RowOf(ws).actual_session \in NamesOf(ws) \cup {NULL}
<1>1. PICK v \in Resolvable : /\ ws.id = v.id
                              /\ RowOf(ws).proposed_session = v.session_name
                              /\ RowOf(ws).actual_session \in NamesOf(v) \cup {NULL}
  BY DEF RowsOwn, RowOf, Store!Known
<1>2. v = ws
  BY <1>1 DEF NamesApart
<1> QED
  BY <1>1, <1>2

\* So no other row has such a name.
LEMMA NamesFree ==
  ASSUME NamesApart, RowsOwn(db), NEW ws \in Resolvable, NEW n \in NamesOf(ws)
  PROVE  ~Store!NameTaken(n, ws.id)
<1> SUFFICES ASSUME NEW w \in DOMAIN db.workspaces \ {ws.id},
                    db.workspaces[w].actual_session = n
             PROVE  FALSE
  BY DEF Store!NameTaken
<1>1. PICK v \in Resolvable : /\ w = v.id
                              /\ db.workspaces[w].actual_session \in NamesOf(v) \cup {NULL}
  BY DEF RowsOwn
<1>2. n \in NamesOf(v)
  BY <1>1, OwnNames
<1> QED
  BY <1>1, <1>2 DEF NamesApart

\* A registration writes the row of its workspace and no other, and keeps the
\* name recorded there.
LEMMA OwnRegistration ==
  ASSUME StoreSound, NamesApart, RowsOwn(db), NEW ws \in Resolvable, NEW d,
         Store!RegisterWorkspace(ws, d)
  PROVE  RowsOwn(db')
<1>1. Store!OnRepositories(Store!StaleRepositories(ws)) = {}
  <2> SUFFICES ASSUME NEW w \in DOMAIN db.workspaces,
                      db.workspaces[w].repository_id \in Store!StaleRepositories(ws)
               PROVE  FALSE
    BY DEF Store!OnRepositories
  <2>1. PICK v \in Resolvable : w = v.id
    BY DEF RowsOwn
  <2>2. /\ db.workspaces[w].repository_id = v.repository_id
        /\ v.repository_id \in DOMAIN db.repositories
        /\ db.repositories[v.repository_id].repo_root = ws.repo_root
        /\ v.repository_id # ws.repository_id
    BY <2>1 DEF StoreSound, Store!IsPlaced, Store!StaleRepositories
  <2>3. v.repo_root = ws.repo_root
    BY <2>2 DEF StoreSound, Store!IsPlaced
  <2> QED
    BY <2>2, <2>3, StoreAssumption DEF Store!IDsAreDigests
<1>2. Store!StaleIDs(ws) = {}
  <2> SUFFICES ASSUME NEW w \in DOMAIN db.workspaces, w # ws.id,
                      db.workspaces[w].repository_id = ws.repository_id,
                      db.workspaces[w].session = ws.session
               PROVE  FALSE
    BY DEF Store!StaleIDs
  <2>1. PICK v \in Resolvable : w = v.id
    BY DEF RowsOwn
  <2>2. v.repository_id = ws.repository_id /\ v.session = ws.session
    BY <2>1 DEF StoreSound, Store!IsPlaced
  <2> QED
    BY <2>1, <2>2, StoreAssumption DEF Store!IDsAreDigests
<1> DEFINE row == IF ws.id \in DOMAIN db.workspaces THEN db.workspaces[ws.id]
                  ELSE Store!FreshRow(ws)
<1>3. Store!Without(db.workspaces, {}) = db.workspaces
  BY DEF StoreSound, Store!TypeOK, Store!IsDatabase, Store!IsTable, Store!Without
<1>4. db'.workspaces = Store!With(db.workspaces, ws.id, Store!Refreshed(row, ws, d))
  BY <1>1, <1>2, <1>3 DEF Store!RegisterWorkspace, Store!Rekeyed
<1>5. /\ DOMAIN db'.workspaces = DOMAIN db.workspaces \cup {ws.id}
      /\ db'.workspaces[ws.id] = Store!Refreshed(row, ws, d)
      /\ \A w \in DOMAIN db.workspaces :
           w # ws.id => db'.workspaces[w] = db.workspaces[w]
  BY <1>4 DEF Store!With
<1>6. /\ row \in Store!WorkspaceRow
      /\ row.actual_session \in NamesOf(ws) \cup {NULL}
  <2>1. CASE ws.id \in DOMAIN db.workspaces
    BY <2>1, RowsTell DEF Store!Known, RowOf, StoreSound, Store!TypeOK,
       Store!IsDatabase, Store!IsTable
  <2>2. CASE ws.id \notin DOMAIN db.workspaces
    BY <2>2, StoreAssumption DEF Store!FreshRow, Store!WorkspaceRow, Store!IDsAreDigests,
       Store!Identity
  <2> QED
    BY <2>1, <2>2
<1> HIDE DEF row
<1>7. /\ Store!Refreshed(row, ws, d).proposed_session = ws.session_name
      /\ Store!Refreshed(row, ws, d).actual_session = row.actual_session
  BY <1>6 DEF Store!Refreshed, Store!WorkspaceRow
<1> QED
  BY <1>5, <1>6, <1>7 DEF RowsOwn

\* A change of other columns leaves the names alone.
LEMMA NamesUntouched ==
  ASSUME RowsOwn(db), DOMAIN db'.workspaces = DOMAIN db.workspaces,
         \A w \in DOMAIN db.workspaces :
           /\ db'.workspaces[w].proposed_session = db.workspaces[w].proposed_session
           /\ db'.workspaces[w].actual_session = db.workspaces[w].actual_session
  PROVE  RowsOwn(db')
BY DEF RowsOwn

\* One row's name is replaced by another of its workspace's own.
LEMMA OwnNameRecorded ==
  ASSUME Sound, NamesApart, RowsOwn(db), NEW ws \in Resolvable, NEW n \in NamesOf(ws),
         Store!Known(ws.id), db' = [db EXCEPT !.workspaces[ws.id].actual_session = n]
  PROVE  RowsOwn(db')
<1>1. /\ db.workspaces \in [DOMAIN db.workspaces -> Store!WorkspaceRow]
      /\ db'.workspaces = [db.workspaces EXCEPT ![ws.id].actual_session = n]
  BY Tables
<1>2. ws.id \in DOMAIN db.workspaces
  BY DEF Store!Known
<1>3. /\ DOMAIN db'.workspaces = DOMAIN db.workspaces
      /\ \A w \in DOMAIN db.workspaces :
           w # ws.id => db'.workspaces[w] = db.workspaces[w]
      /\ db'.workspaces[ws.id].proposed_session = db.workspaces[ws.id].proposed_session
      /\ db'.workspaces[ws.id].actual_session = n
  BY <1>1, <1>2 DEF Store!WorkspaceRow
<1>4. db.workspaces[ws.id].proposed_session = ws.session_name
  BY RowsTell DEF RowOf
<1> QED
  BY <1>2, <1>3, <1>4 DEF RowsOwn

\* What an allocation returns is a name of the workspace's own.
LEMMA OwnAllocation ==
  ASSUME Sound, NamesApart, RowsOwn(db), NEW ws \in Resolvable, NEW n,
         Store!AllocateSessionName(ws.id, n)
  PROVE  n \in NamesOf(ws) /\ RowsOwn(db')
<1>1. /\ Store!Known(ws.id)
      /\ RowOf(ws).proposed_session = ws.session_name
      /\ RowOf(ws).actual_session \in NamesOf(ws) \cup {NULL}
  BY RowsTell DEF Store!AllocateSessionName
<1> DEFINE names == Candidates[RowOf(ws).proposed_session]
           free == {i \in DOMAIN names : ~Store!NameTaken(names[i], ws.id)}
<1>2. /\ Candidates[ws.session_name] \in Seq(Name)
      /\ Len(Candidates[ws.session_name]) > 0
  BY StoreAssumption DEF Store!CandidatesDiffer, Store!IDsAreDigests, Store!Identity
<1>3. 1 \in free
  BY <1>1, <1>2, NamesFree DEF NamesOf
<1>4. CASE RowOf(ws).actual_session # NULL
  BY <1>1, <1>4 DEF Store!AllocateSessionName, RowOf
<1>5. CASE RowOf(ws).actual_session = NULL
  <2>1. PICK i \in free : n = names[i]
    BY <1>3, <1>5 DEF Store!AllocateSessionName, RowOf
  <2>2. n \in NamesOf(ws)
    BY <1>1, <2>1 DEF NamesOf
  <2>3. db' = [db EXCEPT !.workspaces[ws.id].actual_session = n]
    BY <1>3, <1>5 DEF Store!AllocateSessionName, RowOf
  <2> QED
    BY <1>1, <2>2, <2>3, OwnNameRecorded
<1> QED
  BY <1>4, <1>5

\* An adoption records the name the session was seen under.
LEMMA OwnAdoption ==
  ASSUME Sound, NamesApart, RowsOwn(db), NEW p \in Process, Smooth(p), Adopts(p)
  PROVE  RowsOwn(db') /\ at'[p] = "commit"
<1> DEFINE n == snap[p].live.name
<1>1. /\ cmd[p].op = "open" /\ at[p] = "adopt" /\ at[p] # "over"
      /\ \/ at'[p] = "commit" /\ Store!AdoptSessionName(cmd[p].ws.id, n)
         \/ Store!NameTaken(n, cmd[p].ws.id)
  BY Stepped DEF Adopts
<1>2. cmd[p].ws \in Resolvable /\ cmd[p] # NULL
  BY <1>1, AtWork
<1>3. n \in NamesOf(cmd[p].ws)
  BY <1>1, <1>2 DEF Smooth, Adopting
<1>4. PICK ws \in Resolvable : ws = cmd[p].ws
  BY <1>2
<1>5. at'[p] = "commit" /\ Store!AdoptSessionName(ws.id, n)
  BY <1>1, <1>3, <1>4, NamesFree
<1> HIDE DEF n
<1> QED
  BY <1>3, <1>4, <1>5, OwnNameRecorded DEF Store!AdoptSessionName

\* No call records a name that is not the workspace's own.
LEMMA RowsStayOwn ==
  ASSUME Sound, NamesApart, RowsOwn(db), NEW p \in Process, Smooth(p),
         Call(p) \/ CallFails(p)
  PROVE  RowsOwn(db')
<1>1. /\ StoreSound /\ db.workspaces \in [DOMAIN db.workspaces -> Store!WorkspaceRow]
      /\ db = [repositories |-> db.repositories, workspaces |-> db.workspaces,
               container_bindings |-> db.container_bindings,
               last_operations |-> db.last_operations]
  BY Tables DEF Sound
<1>2. CASE Adopts(p)
  BY <1>2, OwnAdoption
<1>3. CASE UNCHANGED db
  BY <1>3
<1>4. ASSUME NEW ws \in Resolvable, NEW d \in Digest, Store!RegisterWorkspace(ws, d)
      PROVE  RowsOwn(db')
  BY <1>1, <1>4, OwnRegistration
<1>5. ASSUME NEW w \in WorkspaceID, NEW n, Store!AllocateSessionName(w, n)
      PROVE  RowsOwn(db')
  <2>1. w \in DOMAIN db.workspaces
    BY <1>5 DEF Store!AllocateSessionName, Store!Known
  <2>2. PICK ws \in Resolvable : w = ws.id
    BY <2>1 DEF RowsOwn
  <2> QED
    BY <1>5, <2>2, OwnAllocation
<1>6. CASE Store!Observe \/ Store!Operate
  <2>1. db'.workspaces = db.workspaces
    BY <1>1, <1>6 DEF Store!Observe, Store!Operate, Store!RecordContainerObservation,
       Store!RecordOperation
  <2> QED
    BY <2>1 DEF RowsOwn
<1>7. ASSUME NEW w, NEW d, NEW obs, NEW op, Store!CommitReconciliation(w, d, obs, op)
      PROVE  RowsOwn(db')
  <2>1. /\ w \in DOMAIN db.workspaces
        /\ \E to : db'.workspaces = [db.workspaces EXCEPT ![w].applied_digest = to]
    BY <1>1, <1>7 DEF Store!CommitReconciliation, Store!Known
  <2> QED
    BY <1>1, <2>1, NamesUntouched DEF Store!WorkspaceRow
<1>8. ASSUME NEW w, NEW b, Store!SetBind(w, b)
      PROVE  RowsOwn(db')
  <2>1. /\ w \in DOMAIN db.workspaces
        /\ db'.workspaces = [db.workspaces EXCEPT ![w].bind = b]
    BY <1>1, <1>8 DEF Store!SetBind, Store!Known
  <2> QED
    BY <1>1, <2>1, NamesUntouched DEF Store!WorkspaceRow
<1> QED
  BY <1>2, <1>3, <1>4, <1>5, <1>6, <1>7, <1>8, CallsTransact
     DEF Notes, Store!Register, Store!Allocate, Store!Commit, Store!Rebind

\* The only session a call makes is its workspace's, under one of its names.
LEMMA SessionsStayOwn ==
  ASSUME Sound, SessionsOwn(tmux.sessions), NEW p \in Process, Smooth(p),
         Call(p) \/ CallFails(p)
  PROVE  SessionsOwn(tmux'.sessions)
<1>1. TmuxTyped
  BY DEF Sound, Types, TmuxTyped
<1>2. CASE UNCHANGED tmux
  BY <1>2
<1>3. ASSUME NEW s, Removed(s)
      PROVE  SessionsOwn(tmux'.sessions)
  BY <1>1, <1>3, RemovedTyped DEF SessionsOwn
<1>4. CASE /\ Creates(p) /\ cmd[p].op = "open" /\ at[p] = "create"
           /\ Plan!KeysOf(cmd[p].ws) \in SessionKeys
           /\ Added(snap[p].name, Plan!KeysOf(cmd[p].ws))
  <2>1. cmd[p].ws \in Resolvable /\ cmd[p] # NULL
    BY <1>4, AtWork
  <2>2. snap[p].name \in NamesOf(cmd[p].ws)
    BY <1>4, <2>1 DEF Smooth
  <2>3. tmux'.sessions = tmux.sessions
          \cup {[sid |-> tmux.next, name |-> snap[p].name, keys |-> Plan!KeysOf(cmd[p].ws)]}
    BY <1>1, <1>4, AddedTyped
  <2> QED
    BY <2>1, <2>2, <2>3 DEF SessionsOwn, Plan!SessionBelongsTo
<1> QED
  BY <1>2, <1>3, <1>4, CallsOnTmux

\* Nothing fails, and nobody removes a container.
LEMMA StaysCalm ==
  ASSUME Sound, Calm, [Next]_vars, Disturbances = {}
  PROVE  Calm' /\ \A p \in Process : ~CallFails(p)
<1>1. \A p \in Process : ~CallFails(p)
  BY DEF CallFails, Spend, Calm
<1>2. ~User
  BY DEF User, UserKills, UserRenames, UserOccupies, UserRetags, UserActsOnDocker,
     UserLosesDatabase, ByHand
<1>3. ASSUME NEW p \in Process, Call(p)
      PROVE  left' = left /\ \A c \in Container : docker'[c] # "removed"
  <2>1. left["faults"] = 0
    BY DEF Calm
  <2>2. left' = left
    <3>1. CASE Registers(p) \/ Binds(p) \/ Reads(p) \/ ReadsRepository(p) \/ Reprobes(p)
               \/ BeginsUp(p) \/ Adopts(p)
      BY <3>1 DEF Registers, Binds, Reads, ReadsRepository, Reprobes, BeginsUp, Adopts
    <3>2. CASE Allocates(p) \/ LooksForOccupant(p)
      <4>1. CASE Allocates(p)
        BY <4>1 DEF Allocates
      <4>2. CASE LooksForOccupant(p)
        BY <4>2 DEF LooksForOccupant
      <4> QED
        BY <3>2, <4>1, <4>2
    <3>3. CASE Confirms(p) \/ ChecksSiblings(p) \/ StopLooks(p)
      <4>1. CASE Confirms(p)
        BY <4>1 DEF Confirms
      <4>2. CASE ChecksSiblings(p)
        BY <4>2 DEF ChecksSiblings
      <4>3. CASE StopLooks(p)
        BY <4>3 DEF StopLooks
      <4> QED
        BY <3>3, <4>1, <4>2, <4>3
    <3>4. CASE Commits(p) \/ RecordsBinding(p) \/ RecordsFailure(p)
      <4>1. CASE Commits(p)
        BY <4>1 DEF Commits
      <4>2. CASE RecordsBinding(p)
        BY <4>2 DEF RecordsBinding
      <4>3. CASE RecordsFailure(p)
        BY <4>3 DEF RecordsFailure
      <4> QED
        BY <3>4, <4>1, <4>2, <4>3
    <3>5. CASE OpenLooks(p) \/ Probes(p)
      <4>1. CASE OpenLooks(p)
        BY <2>1, <4>1 DEF OpenLooks, Spend
      <4>2. CASE Probes(p)
        BY <2>1, <4>2 DEF Probes, Spend
      <4> QED
        BY <3>5, <4>1, <4>2
    <3>6. CASE EndsUp(p) \/ Creates(p) \/ Kills(p) \/ StopsContainer(p)
      <4>1. CASE EndsUp(p)
        BY <2>1, <4>1 DEF EndsUp, Answers, Spend
      <4>2. CASE Creates(p)
        BY <2>1, <4>2 DEF Creates, Answers, Spend
      <4>3. CASE Kills(p)
        BY <2>1, <4>3 DEF Kills, Answers, Spend
      <4>4. CASE StopsContainer(p)
        BY <2>1, <4>4 DEF StopsContainer, Answers, Spend
      <4> QED
        BY <3>6, <4>1, <4>2, <4>3, <4>4
    <3> QED
      BY <1>3, <3>1, <3>2, <3>3, <3>4, <3>5, <3>6 DEF Call
  <2>3. \/ UNCHANGED docker
        \/ \E c, to : to # "removed" /\ docker' = [docker EXCEPT ![c] = to]
    <3>1. CASE EndsUp(p)
      BY <3>1 DEF EndsUp
    <3>2. CASE StopsContainer(p)
      <4> DEFINE c == snap[p].stored.binding.container
                 to == IF docker[c] = "running" THEN "stopped" ELSE docker[c]
      <4>1. docker' = [docker EXCEPT ![c] = to]
        BY <3>2 DEF StopsContainer
      <4>2. CASE c \in Container
        BY <4>1, <4>2 DEF Calm
      <4>3. CASE c \notin Container
        BY <4>1, <4>3 DEF Sound, Types
      <4> QED
        BY <4>2, <4>3
    <3>3. CASE ~EndsUp(p) /\ ~StopsContainer(p)
      BY <1>3, <3>3 DEF Call, Registers, Binds, Reads, ReadsRepository, OpenLooks,
         Probes, Reprobes, BeginsUp, Adopts, Allocates, LooksForOccupant, Creates,
         Confirms, ChecksSiblings, StopLooks, Kills, Commits,
         RecordsBinding, RecordsFailure
    <3> QED
      BY <3>1, <3>2, <3>3
  <2> QED
    BY <2>2, <2>3 DEF Calm, Sound, Types
<1>4. ASSUME NEW p \in Process,
             Starts(p) \/ TakesLock(p) \/ GivesUp(p) \/ Releases(p) \/ Crashes(p)
      PROVE  Calm'
  <2>1. UNCHANGED docker
    BY <1>4, OthersLeaveWorld
  <2>2. \/ left' = left
        \/ left' = [left EXCEPT !["commands"] = @ - 1]
        \/ left' = [left EXCEPT !["crashes"] = @ - 1]
    BY <1>4 DEF Starts, TakesLock, GivesUp, Releases, Crashes, Spend
  <2> QED
    BY <2>1, <2>2 DEF Calm
<1>5. CASE UNCHANGED vars
  BY <1>1, <1>5 DEF vars, Calm
<1> QED
  BY <1>1, <1>2, <1>3, <1>4, <1>5, Steps DEF Calm

\* What an open reads of its row is its row.
LEMMA ReadsSmoothly ==
  ASSUME Sound, NamesApart, Unwedged, NEW p \in Process, Reads(p)
  PROVE  Smooth(p)'
<1>1. /\ at[p] = "read" /\ at[p] # "over" /\ cmd'[p] = cmd[p]
      /\ snap'[p].stored = StoredRecord(cmd[p].ws.id)
      /\ cmd[p].op = "open" => at'[p] = "look"
      /\ cmd[p].op = "bind" => at'[p] \in {"register", "bind"}
  <2>1. /\ at[p] = "read" /\ Moved(p) /\ cmd' = cmd
        /\ snap'[p].stored = StoredRecord(cmd[p].ws.id)
    BY ReadsMove DEF Moved
  <2>2. \/ Step(p, {"open"}, "read", "look")
        \/ cmd[p].op = "stop"
        \/ Step(p, {"bind"}, "read", "register")
        \/ Step(p, {"bind"}, "read", "bind")
    BY Stepped DEF Reads
  <2> QED
    BY <2>1, <2>2, Stepped
<1>2. CASE cmd[p].op = "open"
  <2>1. PICK ws \in Resolvable : ws = cmd[p].ws
    BY <1>1, <1>2, AtWork
  <2>2. Store!Known(ws.id)
    BY <1>1, <1>2, <2>1, AtWork DEF Sound, Prepared
  <2>3. snap'[p].stored.row = RowOf(ws)
    BY <1>1, <2>1, <2>2 DEF StoredRecord, Store!Record, RowOf
  <2>4. snap'[p].stored.row.actual_session \in NamesOf(ws) \cup {NULL}
    BY <2>2, <2>3, RowsTell DEF Unwedged
  <2> QED
    BY <1>1, <1>2, <2>1, <2>4 DEF Smooth, Adopting
<1>3. CASE cmd[p].op # "open"
  BY <1>1, <1>3 DEF Smooth
<1> QED
  BY <1>2, <1>3

\* Of things that are all equal there are not several.
LEMMA NotMany ==
  ASSUME NEW S, \A s, t \in S : s = t
  PROVE  ~(Cardinality(S) > 1)
<1>1. CASE S = {}
  <2>1. Cardinality(S) = 0
    BY <1>1, FS_EmptySet
  <2> QED
    BY <2>1
<1>2. CASE S # {}
  <2>1. PICK s \in S : S = {s}
    BY <1>2
  <2>2. Cardinality(S) = 1
    BY <2>1, FS_Singleton
  <2> QED
    BY <2>2
<1> QED
  BY <1>1, <1>2

\* A look at tmux shows one claimant at most, the workspace's own, and under its
\* names no other session.
LEMMA OwnView ==
  ASSUME Sound, NamesApart, Unwedged, SessionsSafe, NEW ws \in Resolvable,
         NEW names \in SUBSET NamesOf(ws)
  PROVE  LET view == TmuxView(ws.id, names) IN
         /\ view.state # "unknown"
         /\ view.state = "live" => view.live # NULL
         /\ view.live # NULL => /\ view.live \in tmux.sessions
                                /\ Plan!SessionBelongsTo(view.live, ws)
                                /\ view.live.name \in NamesOf(ws)
         /\ \A s \in view.by_name : Plan!SessionBelongsTo(s, ws)
         /\ view.by_name # {} => ClaimantsOf(ws.id) # {}
         /\ \A s \in tmux.sessions : Plan!SessionBelongsTo(s, ws) =>
              view.state = "live" /\ view.live = s
<1> DEFINE view == TmuxView(ws.id, names)
           claimants == ClaimantsOf(ws.id)
           named == {s \in tmux.sessions : s.name \in names}
<1>1. ws.id # NULL
  BY StoreAssumption DEF Store!IDsAreDigests, Store!Identity, Store!NullIsNoValue
<1>2. \A s, t \in claimants : s = t
  BY <1>1 DEF SessionsSafe, Apart, ClaimantsOf, Plan!Claims
<1>3. ~(Cardinality(claimants) > 1)
  BY <1>2, NotMany
<1>4. view = IF claimants = {}
             THEN [state |-> "absent", live |-> NULL, by_name |-> named]
             ELSE [state |-> "live", live |-> CHOOSE s \in claimants : TRUE,
                   by_name |-> named]
  BY <1>3 DEF TmuxView
<1>5. SessionsOwn(tmux.sessions)
  BY DEF Unwedged
<1>6. \A s \in tmux.sessions : s.name \in NamesOf(ws) \/ s.keys.id = ws.id =>
        Plan!SessionBelongsTo(s, ws) /\ s.name \in NamesOf(ws) /\ s \in claimants
  <2> SUFFICES ASSUME NEW s \in tmux.sessions, s.name \in NamesOf(ws) \/ s.keys.id = ws.id
               PROVE  /\ Plan!SessionBelongsTo(s, ws) /\ s.name \in NamesOf(ws)
                      /\ s \in claimants
    OBVIOUS
  <2>1. Plan!SessionBelongsTo(s, ws) /\ s.name \in NamesOf(ws)
    BY <1>5, NamesTell
  <2> QED
    BY <2>1 DEF Plan!SessionBelongsTo, Plan!KeysOf, ClaimantsOf, Plan!Claims
<1>7. \A s \in named : Plan!SessionBelongsTo(s, ws) /\ s \in claimants
  BY <1>6
<1>8. \A s \in claimants : /\ s \in tmux.sessions /\ s # NULL
                           /\ Plan!SessionBelongsTo(s, ws) /\ s.name \in NamesOf(ws)
  <2>1. claimants \subseteq tmux.sessions /\ tmux.sessions \subseteq SessionRow
    BY DEF ClaimantsOf, Sound, Types
  <2>2. \A s \in claimants : s.keys.id = ws.id
    BY DEF ClaimantsOf, Plan!Claims
  <2> QED
    BY <1>6, <2>1, <2>2, RecordsAssumption
<1>9. \A s \in tmux.sessions : Plan!SessionBelongsTo(s, ws) => s \in claimants
  BY DEF Plan!SessionBelongsTo, Plan!KeysOf, ClaimantsOf, Plan!Claims
<1> HIDE DEF claimants, named, view
<1>10. CASE claimants = {}
  BY <1>4, <1>7, <1>9, <1>10 DEF view, claimants
<1>11. CASE claimants # {}
  <2>1. PICK s \in claimants : s = CHOOSE t \in claimants : TRUE
    BY <1>11
  <2>2. view = [state |-> "live", live |-> s, by_name |-> named]
    BY <1>4, <1>11, <2>1
  <2> QED
    BY <1>2, <1>7, <1>8, <1>9, <1>11, <2>2 DEF view, claimants
<1> QED
  BY <1>10, <1>11

\* The names a look asks for are the workspace's own.
LEMMA OwnCandidates ==
  ASSUME NEW ws \in Resolvable, NEW stored,
         stored # NULL => stored.row.actual_session \in NamesOf(ws) \cup {NULL}
  PROVE  CandidateNames(ws, stored) \in SUBSET NamesOf(ws)
BY OwnNames DEF CandidateNames

\* An open's look at tmux gives it nothing to refuse.
LEMMA LooksSmoothly ==
  ASSUME Sound, NamesApart, Unwedged, SessionsSafe, NEW p \in Process, OpenLooks(p)
  PROVE  Smooth(p)'
<1>1. /\ at[p] = "look" /\ at'[p] = "probe" /\ cmd[p].op = "open" /\ at[p] # "over"
      /\ cmd'[p] = cmd[p] /\ cmd[p] # NULL
  BY OpenLooksMove, AtWork DEF Moved
<1>2. PICK ws \in Resolvable : ws = cmd[p].ws
  BY <1>1, AtWork
<1> DEFINE view == TmuxView(ws.id, CandidateNames(ws, snap[p].stored))
<1>3. snap' = [snap EXCEPT ![p].state = view.state, ![p].live = view.live,
                           ![p].by_name = view.by_name]
  <2>1. ~Spend("faults")
    BY DEF Spend, Unwedged, Calm
  <2> QED
    BY <1>2, <2>1 DEF OpenLooks
<1>4. CandidateNames(ws, snap[p].stored) \in SUBSET NamesOf(ws)
  BY <1>1, <1>2, OwnCandidates DEF Unwedged, Smooth
<1>5. /\ view.state # "unknown"
      /\ view.state = "live" => view.live # NULL
      /\ view.live # NULL => /\ Plan!SessionBelongsTo(view.live, ws)
                             /\ view.live.name \in NamesOf(ws)
      /\ \A s \in view.by_name : Plan!SessionBelongsTo(s, ws)
  BY <1>4, OwnView
<1> HIDE DEF view
<1>6. /\ snap'[p].state = view.state /\ snap'[p].live = view.live
      /\ snap'[p].by_name = view.by_name
  BY <1>3 DEF Sound, Types, SnapRow
<1> QED
  BY <1>1, <1>2, <1>5, <1>6 DEF Smooth, Adopting, Plan!Refuses

\* A container of a repository that has one at most can be observed.
LEMMA Observable ==
  ASSUME Lone, NEW r, NEW binding \in Store!BindingRow \cup {NULL}
  PROVE  LET obs == Observed(r, binding) IN
         /\ Plan!ContainerAction(obs) # "probe-first"
         /\ r \in Containerized => obs # NULL
         /\ obs = NULL \/ obs.health \in {"present", "missing"}
<1> DEFINE running == {c \in Container : OwnerOf[c] = r /\ docker[c] = "running"}
<1>1. ~(Cardinality(running) > 1)
  BY NotMany DEF Lone, Exists
<1>2. /\ Plan!MissingContainer.health = "missing"
      /\ \A c, b : Plan!PresentContainer(c, b).health = "present"
  BY DEF Plan!MissingContainer, Plan!PresentContainer
<1>3. Discovered(r).health \in {"present", "missing"}
  BY <1>1, <1>2 DEF Discovered
<1>4. binding # NULL => Probed(binding.container).health \in {"present", "missing"}
  BY <1>2 DEF Probed
<1>5. Discovered(r) # NULL /\ (binding # NULL => Probed(binding.container) # NULL)
  <2>1. Plan!MissingContainer # NULL
    BY RecordsAssumption DEF ContainerView
  <2>2. \A c \in Container, b \in BOOLEAN : Plan!PresentContainer(c, b) # NULL
    BY RecordsAssumption DEF ContainerView, Plan!PresentContainer
  <2>3. running # {} => (CHOOSE c \in running : TRUE) \in Container
    OBVIOUS
  <2>4. CASE running = {}
    BY <1>1, <2>1, <2>2, <2>4 DEF Discovered, Probed, Store!BindingRow
  <2>5. CASE running # {}
    BY <1>1, <2>1, <2>2, <2>3, <2>5 DEF Discovered, Probed, Store!BindingRow
  <2> QED
    BY <2>4, <2>5
<1>6. CASE r \notin Containerized
  BY <1>6 DEF Observed, Plan!ContainerAction
<1>7. CASE r \in Containerized
  <2>1. Observed(r, binding).health \in {"present", "missing"}
    BY <1>3, <1>4, <1>7 DEF Observed
  <2>2. Observed(r, binding) # NULL
    BY <1>5, <1>7 DEF Observed
  <2> QED
    BY <2>1, <2>2 DEF Plan!ContainerAction
<1> QED
  BY <1>6, <1>7

\* A plan made of such a snapshot goes on, with the container if it must.
LEMMA ProbesSmoothly ==
  ASSUME Sound, DemandsApply, Lone, Unwedged, NEW p \in Process, Probes(p),
         cmd[p].op = "open"
  PROVE  Smooth(p)'
<1> DEFINE session == Plan!SessionAction(snap[p], cmd[p].ws)
           obs == Observed(cmd[p].repo, snap[p].stored.binding)
           after == CASE session = "refuse" -> "fail"
                  [] session # "refuse" /\ Plan!ContainerAction(obs) = "probe-first"
                       -> "reprobe"
                  [] session # "refuse" /\ Plan!ContainerAction(obs) \in {"start", "acquire"}
                       -> "up"
                  [] OTHER -> AfterContainer(p, session, Settled(obs))
<1>1. /\ at[p] = "probe" /\ at[p] # "over" /\ cmd'[p] = cmd[p] /\ cmd[p] # NULL
      /\ snap[p] \in SnapRow /\ snap[p].stored # NULL
      /\ cmd[p] \in Commands
  BY ProbesMove, AtWork DEF Moved, Has
<1>2. /\ snap'[p].session = session
      /\ at'[p] = "adopt" => session = "adopt"
      /\ session = "adopt" => snap'[p].live = snap[p].live
      /\ at'[p] \in ProbePlaces
  BY ProbesMove
<1>3. Step(p, {"open", "autostart"}, "probe", after)
  <2>1. left["faults"] = 0
    BY DEF Unwedged, Calm
  <2> QED
    BY <2>1 DEF Probes, Spend
<1>4. at'[p] = after
  BY <1>3, Stepped
<1>5. session \in {"none", "adopt", "create"} /\ (session = "adopt" => snap[p].live # NULL)
  <2>1. ~Plan!Refuses(snap[p], cmd[p].ws)
    BY <1>1 DEF Unwedged, Smooth
  <2> QED
    BY <1>1, <2>1, Planned DEF Plan!SessionAction
<1>6. /\ Plan!ContainerAction(obs) # "probe-first"
      /\ cmd[p].repo \in Containerized => obs # NULL
      /\ obs = NULL \/ obs.health \in {"present", "missing"}
  <2>1. snap[p].stored.binding \in Store!BindingRow \cup {NULL}
    BY <1>1 DEF SnapRow, StoredRow
  <2> QED
    BY <2>1, Observable
<1>7. at'[p] \notin {"fail", "reprobe"}
  <2> HIDE DEF session, obs
  <2>1. CASE Plan!ContainerAction(obs) = "none"
    <3>1. at'[p] = AfterContainer(p, session, Settled(obs))
      BY <1>4, <1>5, <2>1
    <3>2. cmd[p].container => Settled(obs) # NULL
      BY <1>1, <1>6, <2>1 DEF DemandsApply, Settled, Plan!ContainerAction
    <3> QED
      BY <3>1, <3>2 DEF AfterContainer
  <2>2. CASE Plan!ContainerAction(obs) # "none"
    BY <1>4, <1>5, <1>6, <2>2, ContainerPlans
  <2> QED
    BY <2>1, <2>2
<1>8. session = "adopt" => snap[p].live.name \in NamesOf(cmd[p].ws)
  BY <1>1, <1>5 DEF Unwedged, Smooth, Adopting
<1> HIDE DEF session, after, obs
<1> QED
  BY <1>1, <1>2, <1>7, <1>8 DEF Smooth, Adopting, ProbePlaces

\* A devcontainer up leads on as well.
LEMMA UpsSmoothly ==
  ASSUME Sound, Unwedged, NEW p \in Process, BeginsUp(p) \/ EndsUp(p),
         cmd[p].op = "open"
  PROVE  Smooth(p)'
<1>1. CASE BeginsUp(p)
  BY <1>1, BeginsUpMove, AtWork DEF Moved, Unwedged, Smooth, Adopting
<1>2. CASE EndsUp(p)
  <2>1. /\ at[p] = "upping" /\ at[p] # "over" /\ cmd'[p] = cmd[p]
        /\ snap'[p] = snap[p] /\ snap[p].container.container \in Container
        /\ at'[p] \in (ProbePlaces \cup {"error"}) \ {"reprobe", "up"}
        /\ at'[p] = "adopt" => snap[p].session = "adopt"
    BY <1>2, EndsUpMove DEF Moved
  <2>2. cmd[p] # NULL /\ snap[p].container # NULL
    BY <2>1, AtWork DEF Has
  <2>3. at'[p] = AfterContainer(p, snap[p].session, snap[p].container)
    <3>1. left["faults"] = 0 /\ docker[snap[p].container.container] # "removed"
      BY <2>1 DEF Unwedged, Calm
    <3>2. Step(p, {"open", "autostart"}, "upping",
               AfterContainer(p, snap[p].session, snap[p].container))
      BY <1>2, <3>1 DEF EndsUp, Answers, Spend
    <3> QED
      BY <3>2, Stepped
  <2>4. at'[p] \notin {"fail", "error"}
    BY <2>2, <2>3 DEF AfterContainer
  <2>5. at'[p] = "adopt" => snap[p].live.name \in NamesOf(cmd[p].ws)
    BY <2>1, <2>2 DEF Unwedged, Smooth, Adopting
  <2> QED
    BY <2>1, <2>4, <2>5 DEF Smooth, Adopting, ProbePlaces
<1> QED
  BY <1>1, <1>2

\* The name an open is given is free everywhere, and what it creates is there to
\* be confirmed.
LEMMA CreatesSmoothly ==
  ASSUME Sound, NamesApart, Unwedged, SessionsSafe, NEW p \in Process,
         \/ Allocates(p) \/ LooksForOccupant(p) \/ Creates(p) \/ Confirms(p)
  PROVE  Smooth(p)' /\ Created(p)'
<1>1. /\ cmd[p].op = "open" /\ cmd'[p] = cmd[p] /\ at[p] # "over"
      /\ at[p] \in {"allocate", "occupant", "create", "confirm"}
  BY AllocatesMove, SessionCallsMove, Stepped
     DEF Moved, Allocates, LooksForOccupant, Creates, Confirms, Answers
<1>2. cmd[p] # NULL
  BY <1>1, AtWork
<1>3. PICK ws \in Resolvable : ws = cmd[p].ws
  BY <1>1, AtWork
<1>4. at[p] \in {"occupant", "create", "confirm"} => snap[p].name \in NamesOf(ws)
  BY <1>1, <1>2, <1>3 DEF Unwedged, Smooth
<1>5. at[p] \in {"occupant", "create"} => ClaimantsOf(ws.id) = {}
  BY <1>1, <1>2, <1>3 DEF SessionsSafe, Intent, Unclaimed, Creating
<1>6. CASE Allocates(p)
  <2>1. Store!AllocateSessionName(ws.id, snap'[p].name) /\ at[p] = "allocate"
    BY <1>3, <1>6, AllocatesMove
  <2>2. snap'[p].name \in NamesOf(ws)
    BY <2>1, OwnAllocation DEF Unwedged
  <2>3. at'[p] = "occupant"
    <3>1. snap'[p].name # NULL
      BY <2>2, OwnNames
    <3>2. PICK name : /\ Step(p, {"open"}, "allocate",
                              IF name = NULL THEN "fail" ELSE "occupant")
                      /\ snap' = [snap EXCEPT ![p].name = name]
      BY <1>6 DEF Allocates
    <3>3. snap'[p].name = name
      BY <3>2 DEF Sound, Types, SnapRow
    <3> QED
      BY <3>1, <3>2, <3>3, Stepped
  <2> QED
    BY <1>1, <1>3, <2>2, <2>3 DEF Smooth, Adopting, Created
<1>7. CASE LooksForOccupant(p)
  <2>1. at[p] = "occupant" /\ snap' = snap
    BY <1>7, Stepped DEF LooksForOccupant
  <2> DEFINE view == TmuxView(ws.id, {snap[p].name})
  <2>2. view.state # "unknown" /\ view.by_name = {}
    BY <1>4, <1>5, <2>1, OwnView DEF Unwedged
  <2>3. Step(p, {"open"}, "occupant", IF view.state = "unknown" \/ view.by_name # {}
                                      THEN "fail" ELSE "create")
    BY <1>3, <1>7 DEF LooksForOccupant
  <2>4. at'[p] = "create"
    BY <2>2, <2>3, Stepped
  <2> QED
    BY <1>1, <1>3, <1>4, <2>1, <2>4 DEF Smooth, Adopting, Created
<1>8. CASE Creates(p)
  <2>1. at[p] = "create" /\ snap' = snap
    BY <1>8, Stepped DEF Creates, Answers
  <2>2. ~NameInUse(snap[p].name)
    <3> SUFFICES ASSUME NEW s \in tmux.sessions, s.name = snap[p].name PROVE FALSE
      BY DEF NameInUse
    <3>1. Plan!SessionBelongsTo(s, ws)
      BY <1>4, <2>1, NamesTell DEF Unwedged
    <3> QED
      BY <1>5, <2>1, <3>1 DEF Plan!SessionBelongsTo, Plan!KeysOf, ClaimantsOf, Plan!Claims
  <2>3. Step(p, {"open"}, "create", "confirm")
    BY <1>8, <2>2 DEF Creates, Answers, Spend, Unwedged, Calm
  <2>4. at'[p] = "confirm"
    BY <2>3, Stepped
  <2>5. tmux' = WithSession(snap[p].name, Plan!KeysOf(ws))
    BY <1>3, <1>8, <2>2 DEF Creates
  <2>6. \E s \in tmux'.sessions : Plan!SessionBelongsTo(s, ws) /\ s.name = snap[p].name
    <3> DEFINE new == [sid |-> tmux.next, name |-> snap[p].name, keys |-> Plan!KeysOf(ws)]
    <3>1. new \in tmux'.sessions
      BY <2>5 DEF WithSession
    <3>2. new.name = snap[p].name /\ new.keys = Plan!KeysOf(ws)
      OBVIOUS
    <3> HIDE DEF new
    <3> QED
      BY <3>1, <3>2 DEF Plan!SessionBelongsTo
  <2> QED
    BY <1>1, <1>3, <1>4, <2>1, <2>4, <2>6 DEF Smooth, Adopting, Created
<1>9. CASE Confirms(p)
  <2>1. at[p] = "confirm" /\ snap' = snap
    BY <1>9, Stepped DEF Confirms
  <2>2. PICK s \in tmux.sessions : Plan!SessionBelongsTo(s, ws) /\ s.name = snap[p].name
    BY <1>1, <1>2, <1>3, <2>1 DEF Unwedged, Created
  <2> DEFINE stored == StoredRecord(ws.id)
             view == TmuxView(ws.id, CandidateNames(ws, stored))
  <2>3. CandidateNames(ws, stored) \in SUBSET NamesOf(ws)
    <3>1. stored # NULL => Store!Known(ws.id) /\ stored.row = RowOf(ws)
      BY DEF StoredRecord, Store!Record, RowOf
    <3>2. stored # NULL => stored.row.actual_session \in NamesOf(ws) \cup {NULL}
      BY <3>1, RowsTell DEF Unwedged
    <3> HIDE DEF stored
    <3> QED
      BY <3>2, OwnCandidates
  <2>4. view.state = "live" /\ view.live = s
    BY <2>2, <2>3, OwnView
  <2>5. Plan!ConfirmsCreation(view, ws, snap[p].name)
    BY <2>2, <2>4 DEF Plan!ConfirmsCreation
  <2>6. Step(p, {"open"}, "confirm",
             IF Plan!ConfirmsCreation(view, ws, snap[p].name) THEN "commit" ELSE "fail")
    BY <1>3, <1>9 DEF Confirms
  <2>7. at'[p] = "commit"
    BY <2>5, <2>6, Stepped
  <2> QED
    BY <1>1, <1>3, <2>1, <2>7 DEF Smooth, Adopting, Created
<1> QED
  BY <1>6, <1>7, <1>8, <1>9

\* No call of an open or a bind goes wrong.
LEMMA CallsGoSmoothly ==
  ASSUME Sound, NamesApart, DemandsApply, Unwedged, SessionsSafe, Lone,
         NEW p \in Process, Call(p)
  PROVE  Smooth(p)' /\ Created(p)'
<1>1. /\ cmd'[p] = cmd[p] /\ cmd[p] # NULL /\ at[p] # "over"
      /\ cmd[p].op \in {"open", "stop", "bind", "autostart"}
      /\ Has(cmd[p], at[p], snap[p])
  BY CallsMove, AtWork DEF Moved, CommandShape
<1>2. Smooth(p)
  BY DEF Unwedged
<1>3. CASE cmd[p].op \in {"stop", "autostart"}
  BY <1>1, <1>3 DEF Smooth, Created
<1>4. CASE Allocates(p) \/ LooksForOccupant(p) \/ Creates(p) \/ Confirms(p)
  BY <1>4, CreatesSmoothly
<1>5. CASE cmd[p].op \in {"open", "bind"} /\ (Registers(p) \/ Binds(p) \/ Commits(p))
  <2>1. /\ at'[p] \in {"read", "bind", "ok"}
        /\ cmd[p].op = "bind" => ~Commits(p)
    BY <1>5, Stepped DEF Registers, Binds, Commits
  <2> QED
    BY <1>1, <1>5, <2>1 DEF Smooth, Adopting, Created
<1>6. CASE Reads(p)
  <2>1. at'[p] # "confirm"
    BY <1>6, ReadsMove
  <2> QED
    BY <1>1, <1>6, <2>1, ReadsSmoothly DEF Created
<1>7. CASE OpenLooks(p)
  <2>1. at'[p] # "confirm"
    BY <1>7, OpenLooksMove
  <2> QED
    BY <1>1, <1>7, <2>1, LooksSmoothly DEF Created
<1>8. CASE cmd[p].op = "open" /\ (Probes(p) \/ BeginsUp(p) \/ EndsUp(p))
  <2>1. at'[p] # "confirm"
    BY <1>8, ProbesMove, BeginsUpMove, EndsUpMove DEF ProbePlaces
  <2> QED
    BY <1>1, <1>8, <2>1, ProbesSmoothly, UpsSmoothly DEF Created
<1>9. CASE Adopts(p)
  <2>1. at'[p] = "commit"
    BY <1>2, <1>9, OwnAdoption DEF Unwedged
  <2>2. cmd[p].op = "open"
    BY <1>9, Stepped DEF Adopts
  <2> QED
    BY <1>1, <2>1, <2>2 DEF Smooth, Adopting, Created
<1>10. CASE cmd[p].op \in {"open", "bind"} /\ (RecordsFailure(p) \/ Reprobes(p))
  <2>1. at[p] \in {"fail", "reprobe"}
    BY <1>10, Stepped, ReprobesMove DEF RecordsFailure
  <2> QED
    BY <1>1, <1>2, <1>10, <2>1 DEF Smooth
<1>11. /\ ReadsRepository(p) \/ RecordsBinding(p) => cmd[p].op = "autostart"
       /\ ChecksSiblings(p) \/ StopLooks(p) \/ Kills(p) \/ StopsContainer(p)
            => cmd[p].op = "stop"
       /\ Probes(p) \/ BeginsUp(p) \/ EndsUp(p) \/ Reprobes(p)
            => cmd[p].op \in {"open", "autostart"}
  <2>1. ReadsRepository(p) \/ RecordsBinding(p) => cmd[p].op = "autostart"
    BY Stepped DEF ReadsRepository, RecordsBinding
  <2>2. ChecksSiblings(p) => cmd[p].op = "stop"
    BY Stepped DEF ChecksSiblings
  <2>3. StopLooks(p) \/ Kills(p) \/ StopsContainer(p) => cmd[p].op = "stop"
    <3>1. StopLooks(p) => cmd[p].op = "stop"
      BY StopLooksMove
    <3>2. Kills(p) => cmd[p].op = "stop"
      BY KillsMove
    <3>3. StopsContainer(p) => cmd[p].op = "stop"
      BY StopsContainerMove
    <3> QED
      BY <3>1, <3>2, <3>3
  <2>4. Probes(p) \/ BeginsUp(p) => cmd[p].op \in {"open", "autostart"}
    <3>1. Probes(p) => cmd[p].op \in {"open", "autostart"}
      BY ProbesMove
    <3>2. BeginsUp(p) => cmd[p].op \in {"open", "autostart"}
      BY BeginsUpMove
    <3> QED
      BY <3>1, <3>2
  <2>5. EndsUp(p) \/ Reprobes(p) => cmd[p].op \in {"open", "autostart"}
    <3>1. EndsUp(p) => cmd[p].op \in {"open", "autostart"}
      BY EndsUpMove
    <3>2. Reprobes(p) => cmd[p].op \in {"open", "autostart"}
      BY ReprobesMove
    <3> QED
      BY <3>1, <3>2
  <2> QED
    BY <2>1, <2>2, <2>3, <2>4, <2>5
<1> QED
  BY <1>1, <1>3, <1>4, <1>5, <1>6, <1>7, <1>8, <1>9, <1>10, <1>11 DEF Call

\* Whatever a step does, no open and no bind is on its way to a failure.
LEMMA StaysUnwedged ==
  ASSUME Sound, Sound', Locks!MutualExclusion, SessionsSafe, Lone, Aims, NamesApart,
         DemandsApply, Disturbances = {}, Unwedged, [Next]_vars
  PROVE  Unwedged'
<1>1. Calm' /\ \A p \in Process : ~CallFails(p)
  BY StaysCalm DEF Unwedged
<1>2. ~User
  BY DEF User, UserKills, UserRenames, UserOccupies, UserRetags, UserActsOnDocker,
     UserLosesDatabase, ByHand
<1>3. RowsOwn(db') /\ SessionsOwn(tmux'.sessions)
  <2>1. CASE \E p \in Process : Call(p) \/ CallFails(p)
    BY <2>1, RowsStayOwn, SessionsStayOwn DEF Unwedged
  <2>2. CASE UNCHANGED <<db, tmux>>
    BY <2>2 DEF Unwedged
  <2> QED
    BY <1>2, <2>1, <2>2, OthersLeaveWorld, Steps DEF vars
<1>4. ASSUME NEW p \in Process PROVE Smooth(p)' /\ Created(p)'
  <2>1. Smooth(p) /\ Created(p)
    BY DEF Unwedged
  <2>2. CASE Call(p)
    BY <2>2, CallsGoSmoothly
  <2>3. CASE at'[p] \in {"register", "read", "over"}
    <3>1. at'[p] = "over" => cmd'[p] = NULL
      BY DEF Sound, Prepared
    <3> QED
      BY <2>3, <3>1 DEF Smooth, Adopting, Created
  <2>4. CASE UNCHANGED <<cmd[p], at[p], snap[p]>> /\ ~Call(p)
    <3>1. Smooth(p)'
      BY <2>1, <2>4 DEF Smooth, Adopting
    <3>2. Created(p)'
      <4> SUFFICES ASSUME cmd[p] # NULL, cmd[p].op = "open", at[p] = "confirm"
                   PROVE  \E s \in tmux'.sessions :
                            Plan!SessionBelongsTo(s, cmd[p].ws) /\ s.name = snap[p].name
        BY <2>4 DEF Created
      <4>1. PICK s \in tmux.sessions :
              Plan!SessionBelongsTo(s, cmd[p].ws) /\ s.name = snap[p].name
        BY <2>1 DEF Created
      <4>2. phase[p] = "held" /\ at[p] # "over"
        BY DEF Sound, Prepared
      <4>3. ASSUME NEW q \in Process, Call(q) PROVE s \in tmux'.sessions
        <5>1. q # p /\ OnTarget(q)
          BY <2>4, <4>3, AimsHit
        <5>2. s.keys.id = cmd[p].ws.id
          BY <4>1 DEF Plan!SessionBelongsTo, Plan!KeysOf
        <5> QED
          BY <4>1, <4>2, <4>3, <5>1, <5>2, OthersSpareClaims
      <4>4. CASE UNCHANGED tmux
        BY <4>1, <4>4
      <4> QED
        BY <1>1, <1>2, <4>1, <4>3, <4>4, OthersLeaveWorld, Steps DEF vars
    <3> QED
      BY <3>1, <3>2
  <2> QED
    BY <1>1, <2>2, <2>3, <2>4, WhoMoves
<1> QED
  BY <1>1, <1>3, <1>4 DEF Unwedged

\* Where every call succeeds and no user interferes, no crash at any point of
\* any command makes a later open or bind fail or be refused: whatever an
\* interrupted command leaves behind, the next one finds a row, a session and a
\* container it can go on from (ensure.go, bind.go, plan.go).  Workspaces do not
\* compete for session names, no configuration asks for a container where none
\* applies, and at the start rows and sessions are projectmux's own, one session
\* for a workspace at most.
THEOREM CrashesNeverWedge ==
  ASSUME Disturbances = {}, "faults" \in DOMAIN Limits, Limits["faults"] = 0,
         NamesApart, DemandsApply,
         \A d \in InitialDatabases : RowsOwn(d), SessionsOwn(InitialSessions),
         \A s, t \in InitialSessions : s.keys.id = t.keys.id => s = t
  PROVE  Spec => []CrashNeverWedges
<1>1. Init => SessionsSafe /\ ContainersSafe /\ Aims /\ Unwedged
  <2> SUFFICES ASSUME Init PROVE SessionsSafe /\ ContainersSafe /\ Aims /\ Unwedged
    OBVIOUS
  <2>1. \A p \in Process : cmd[p] = NULL /\ at[p] = "over"
    BY DEF Init
  <2>2. SessionsSafe
    BY <2>1 DEF Init, SessionsSafe, Apart, Intent, Unclaimed, Creating
  <2>3. ContainersSafe /\ Aims
    BY <2>1 DEF Init, ContainersSafe, Lone, Alone, Exists, Aims, Standing, Aimed
  <2>4. Calm
    BY DEF Init, Calm
  <2>5. RowsOwn(db) /\ SessionsOwn(tmux.sessions)
    BY DEF Init
  <2> QED
    BY <2>1, <2>2, <2>3, <2>4, <2>5 DEF Unwedged, Smooth, Created
<1>2. /\ Sound /\ Sound' /\ Locks!MutualExclusion /\ SessionsSafe /\ ContainersSafe /\ Aims
      /\ Unwedged /\ [Next]_vars
      => (SessionsSafe /\ ContainersSafe /\ Aims /\ Unwedged)'
  BY SessionsStaySafe, ContainersStaySafe, AimsStay, StaysUnwedged DEF ContainersSafe
<1>3. Sound /\ Unwedged => CrashNeverWedges
  <2> SUFFICES ASSUME Sound, Unwedged, NEW p \in Process, phase[p] = "held",
                      cmd[p].op \in {"open", "bind"}, at[p] \in {"fail", "error"}
               PROVE  FALSE
    BY DEF CrashNeverWedges
  <2>1. cmd[p] # NULL
    BY DEF Sound, Prepared
  <2> QED
    BY <2>1 DEF Unwedged, Smooth
<1> QED
  BY <1>1, <1>2, <1>3, CommandsSoundly, CommandsExclude, PTL DEF Spec

-----------------------------------------------------------------------------
(***************************************************************************)
(* Success is true.  A command concludes what it reports from observations *)
(* it made several calls earlier.  The proof has two halves:               *)
(*   the frame   no step of another process changes what a command at work *)
(*               may have concluded from: its own row, the sessions that   *)
(*               claim its workspace, and, where it has the repository's   *)
(*               lock, the repository's containers and binding (Framed);   *)
(*   the calls   each call of the command leads from what it needs to what *)
(*               the next one does (Faithful), down to its success.        *)
(***************************************************************************)

\* The session a workspace's row names is live and the workspace's own.
HasSession(ws) ==
  \E s \in tmux.sessions :
    Plan!SessionBelongsTo(s, ws) /\ RowOf(ws).actual_session = s.name

\* A binding names a container of its own repository, ...
BindingsOwned ==
  \A r \in DOMAIN db.container_bindings :
    OwnerOf[db.container_bindings[r].container] = r

\* ... and so does what a command read or observed; a stop observes none but
\* the one it stopped.
Remembered(p) ==
  cmd[p] # NULL =>
    /\ snap[p].stored # NULL /\ snap[p].stored.binding # NULL
         => OwnerOf[snap[p].stored.binding.container] = cmd[p].repo
    /\ snap[p].container # NULL /\ snap[p].container.health = "present"
         => /\ snap[p].container.container \in Container
            /\ OwnerOf[snap[p].container.container] = cmd[p].repo
    /\ cmd[p].op = "stop" /\ snap[p].container # NULL
         => snap[p].container = Plan!MissingContainer /\ cmd[p].container

\* A command that waits for its locks has not begun.
Waiting(p) ==
  phase[p] \in {"repository", "workspace"} => at[p] = Entry(cmd[p])

\* A bind that was written is there.
Bound(p) ==
  /\ phase[p] = "held" /\ at[p] # "over"
  /\ \/ cmd[p].op = "bind" /\ at[p] = "ok"
     \/ /\ cmd[p].op = "open" /\ cmd[p].bind # NULL
        /\ at[p] \notin {"register", "bind", "fail", "error"}
  => Store!Known(cmd[p].ws.id) /\ RowOf(cmd[p].ws).bind = cmd[p].bind

\* Past its container, an open or autostart has one that runs, where one
\* applies.
Ready(p) ==
  LET obs == snap[p].container IN
  /\ cmd[p].op \in {"open", "autostart"}
  /\ at[p] \in {"adopt", "allocate", "occupant", "create", "confirm", "commit", "record"}
  => /\ cmd[p].repo \in Containerized => obs # NULL
     /\ obs # NULL => obs.health = "present" /\ docker[obs.container] = "running"

\* What an open has found of its session is still so: the one it will leave
\* alone is recorded, the one it will adopt is live, the one it creates has its
\* name recorded, and after that the row and the session agree.
Opened(p) ==
  LET ws == cmd[p].ws
      live == snap[p].live
      mine == live \in tmux.sessions /\ Plan!SessionBelongsTo(live, ws)
  IN cmd[p].op = "open" =>
     /\ at[p] \in {"look", "probe"}
          => snap[p].stored.row.actual_session = RowOf(ws).actual_session
     /\ at[p] = "probe" /\ snap[p].state = "live" => live \in ClaimantsOf(ws.id)
     /\ at[p] \in {"reprobe", "up", "upping"} /\ snap[p].session = "none"
          => HasSession(ws)
     /\ at[p] \in {"reprobe", "up", "upping"} /\ snap[p].session = "adopt" => mine
     /\ at[p] = "adopt" => mine
     /\ at[p] \in {"occupant", "create", "confirm"}
          => RowOf(ws).actual_session = snap[p].name
     /\ at[p] \in {"commit", "ok"} => HasSession(ws)
     /\ at[p] = "ok" /\ snap[p].session = "create"
          => RowOf(ws).applied_digest = cmd[p].digest

\* A stop kills all there is, and afterwards there is none.
Stopped(p) ==
  cmd[p].op = "stop" =>
    /\ at[p] = "kill"
         => \A s \in ClaimantsOf(cmd[p].ws.id) : s.sid = snap[p].live.sid
    /\ at[p] \in {"stop_container", "commit", "ok"} => ClaimantsOf(cmd[p].ws.id) = {}

\* The container a stop read of is still the one bound, and once it was stopped
\* it is not running.
Quiet(p) ==
  LET stored == snap[p].stored
      now == Store!BindingOf(cmd[p].repo)
  IN /\ cmd[p].op = "stop" /\ cmd[p].container
     /\ at[p] \in {"siblings", "look", "kill", "stop_container", "commit", "ok"}
     => /\ stored = NULL => ~Store!Known(cmd[p].ws.id)
        /\ stored # NULL /\ stored.binding = NULL => now = NULL
        /\ stored # NULL /\ stored.binding # NULL =>
             /\ now # NULL /\ now.container = stored.binding.container
             /\ at[p] \in {"commit", "ok"}
                  => docker[stored.binding.container] # "running"

\* A success reported about a container is about the one bound.
Served(p) ==
  /\ cmd[p].op \in {"open", "autostart"} /\ at[p] = "ok"
  /\ cmd[p].repo \in Containerized
  => BindingPresent(cmd[p].repo)

Concludes(p) == Ready(p) /\ Opened(p) /\ Stopped(p) /\ Quiet(p) /\ Served(p)

Undisturbed(p) == phase[p] = "held" /\ at[p] # "over" /\ p \notin disturbed

Faithful(p) == Undisturbed(p) => Concludes(p)

\* What holds of every process whatever users do, and what it remembers.
Sincere ==
  /\ Aims /\ ContainersSafe /\ BindingsOwned /\ IsFiniteSet(tmux.sessions)
  /\ \A p \in Process : Remembered(p) /\ Waiting(p) /\ Bound(p) /\ Faithful(p)

\* What a step leaves alone of what command c, at work, concludes from.
Framed(c) ==
  /\ c.op # "autostart" =>
       /\ c.ws.id \in DOMAIN db'.workspaces <=> Store!Known(c.ws.id)
       /\ Store!Known(c.ws.id) => db'.workspaces[c.ws.id] = db.workspaces[c.ws.id]
       /\ \A s : s.keys.id = c.ws.id
                  => (s \in tmux'.sessions <=> s \in tmux.sessions)
  /\ OnContainers(c) =>
       /\ c.repo \in DOMAIN db'.container_bindings
            <=> c.repo \in DOMAIN db.container_bindings
       /\ c.repo \in DOMAIN db.container_bindings
            => db'.container_bindings[c.repo] = db.container_bindings[c.repo]
       /\ \A x \in Container : OwnerOf[x] = c.repo => docker'[x] = docker[x]

\* Autostart is configured for repositories under the IDs they resolve to.
AutostartsResolve ==
  \A c \in Commands :
    c.op = "autostart" => \E ws \in Resolvable : c.repo = ws.repository_id

-----------------------------------------------------------------------------
(* What calls do to the store *)

\* A commit or a record writes what was observed to the command's repository.
LEMMA OwnRecord ==
  ASSUME Sound, NEW q \in Process, Commits(q) \/ RecordsBinding(q)
  PROVE  /\ phase[q] = "held" /\ cmd[q] # NULL /\ cmd[q].repo \in RepositoryID
         /\ cmd[q].op \in {"open", "stop", "autostart"}
         /\ snap[q].container = NULL
              => db'.container_bindings = db.container_bindings
         /\ snap[q].container # NULL
              => /\ snap[q].container \in ContainerView
                 /\ db'.container_bindings
                      = Store!Recorded(db.container_bindings, cmd[q].repo,
                                       StateObservation(snap[q].container))
<1>1. CASE Commits(q)
  <2>1. /\ cmd[q].op \in {"open", "stop"} /\ phase[q] = "held" /\ at[q] = "commit"
    BY <1>1, Stepped DEF Commits
  <2>2. /\ cmd[q].ws \in Resolvable /\ cmd[q].repo = cmd[q].ws.repository_id
        /\ cmd[q].repo \in RepositoryID /\ cmd[q] # NULL
    BY <2>1, AtWork DEF CommandShape
  <2>3. CASE snap[q].container = NULL
    BY <1>1, <2>1, <2>2, <2>3, Tables
       DEF Commits, Store!RecordOperation, Store!CommitReconciliation
  <2>4. CASE snap[q].container # NULL
    <3>1. PICK digest : Store!CommitReconciliation(cmd[q].ws.id, digest,
                          StateObservation(snap[q].container), "ok")
      BY <1>1, <2>4 DEF Commits
    <3>2. snap[q].container \in ContainerView
      BY <2>1, <2>4, AtWork DEF SnapRow
    <3>3. [container |-> snap[q].container.container,
           health |-> snap[q].container.health] \in Store!Observation
      BY <3>2, StoreAssumption
         DEF ContainerView, Store!Observation, Plan!MissingContainer,
             Plan!UnknownContainer, Store!Health
    <3>4. StateObservation(snap[q].container) # NULL
      BY <3>3, RecordsAssumption DEF StateObservation
    <3>5. db.workspaces[cmd[q].ws.id].repository_id = cmd[q].repo
      BY <2>2, <3>1
         DEF Sound, StoreSound, Store!IsPlaced, Store!Known, Store!CommitReconciliation
    <3> QED
      BY <2>1, <2>2, <2>4, <3>1, <3>2, <3>4, <3>5, CommitWrites
  <2> QED
    BY <2>3, <2>4
<1>2. CASE RecordsBinding(q)
  <2>1. phase[q] = "held" /\ cmd[q].op = "autostart" /\ at[q] = "record"
    BY <1>2, Stepped DEF RecordsBinding
  <2>2. /\ cmd[q].repo \in RepositoryID /\ cmd[q] # NULL
        /\ snap[q].container # NULL /\ snap[q].container \in ContainerView
    BY <2>1, AtWork DEF CommandShape, Has, SnapRow
  <2> QED
    BY <1>2, <2>1, <2>2, Tables
       DEF RecordsBinding, Store!RecordContainerObservation
<1> QED
  BY <1>1, <1>2

\* ... and no binding but that of the repository it has locked, to which it
\* records what it observed.
LEMMA BindingsChange ==
  ASSUME Sound, NEW q \in Process, Call(q) \/ CallFails(q), Remembered(q)
  PROVE  \/ db'.container_bindings = db.container_bindings
         \/ Registers(q)
         \/ /\ phase[q] = "held" /\ OnContainers(cmd[q]) /\ cmd[q].repo \in RepositoryID
            /\ snap[q].container # NULL
            /\ db'.container_bindings
                 = Store!Recorded(db.container_bindings, cmd[q].repo,
                                  StateObservation(snap[q].container))
<1>1. CASE Commits(q) \/ RecordsBinding(q)
  <2>1. CASE snap[q].container = NULL
    BY <1>1, <2>1, OwnRecord
  <2>2. CASE snap[q].container # NULL
    <3>1. OnContainers(cmd[q])
      BY <1>1, <2>2, OwnRecord DEF Remembered, OnContainers
    <3> QED
      BY <1>1, <2>2, <3>1, OwnRecord
  <2> QED
    BY <2>1, <2>2
<1>2. CASE ~Commits(q) /\ ~RecordsBinding(q) /\ ~Registers(q)
  <2>1. \/ UNCHANGED db
        \/ \E b : Store!SetBind(cmd[q].ws.id, b)
        \/ \E n : Store!AdoptSessionName(cmd[q].ws.id, n)
        \/ \E n : Store!AllocateSessionName(cmd[q].ws.id, n)
        \/ \E op : Store!RecordOperation(cmd[q].ws.id, op)
    BY <1>2 DEF Call, CallFails, Reads, ReadsRepository, OpenLooks, Probes, Reprobes,
       BeginsUp, EndsUp, LooksForOccupant, Creates, Confirms, ChecksSiblings,
       StopLooks, Kills, StopsContainer, Binds, Adopts, Allocates, RecordsFailure
  <2> QED
    BY <2>1, Tables DEF Store!SetBind, Store!AdoptSessionName,
       Store!AllocateSessionName, Store!RecordOperation
<1> QED
  BY <1>1, <1>2

-----------------------------------------------------------------------------
(* The frame *)

\* A call starts and stops no container but one of the repository it has locked.
LEMMA DockerChanges ==
  ASSUME Sound, NEW q \in Process, Call(q) \/ CallFails(q), Remembered(q), Alone(q)
  PROVE  \/ UNCHANGED docker
         \/ /\ phase[q] = "held" /\ OnContainers(cmd[q])
            /\ \A c \in Container : OwnerOf[c] # cmd[q].repo => docker'[c] = docker[c]
<1>1. docker \in [Container -> DockerState]
  BY DEF Sound, Types
<1>2. CASE EndsUp(q)
  <2> DEFINE mine == snap[q].container.container
  <2>1. /\ phase[q] = "held" /\ at[q] = "upping" /\ OnContainers(cmd[q])
    BY <1>2, EndsUpMove DEF Moved, OnContainers
  <2>2. OwnerOf[mine] = cmd[q].repo
    BY <2>1 DEF Alone
  <2>3. UNCHANGED docker \/ docker' = [docker EXCEPT ![mine] = "running"]
    BY <1>2 DEF EndsUp
  <2> HIDE DEF mine
  <2> QED
    BY <1>1, <2>1, <2>2, <2>3
<1>3. CASE StopsContainer(q)
  <2> DEFINE mine == snap[q].stored.binding.container
  <2>1. phase[q] = "held" /\ at[q] = "stop_container"
    BY <1>3, StopsContainerMove DEF Moved
  <2>2. /\ OnContainers(cmd[q]) /\ cmd[q] # NULL
        /\ snap[q].stored # NULL /\ snap[q].stored.binding # NULL
    BY <2>1, AtWork DEF Has, OnContainers
  <2>3. OwnerOf[mine] = cmd[q].repo
    BY <2>2 DEF Remembered
  <2>4. \E x : docker' = [docker EXCEPT ![mine] = x]
    BY <1>3 DEF StopsContainer
  <2> HIDE DEF mine
  <2> QED
    BY <1>1, <2>1, <2>2, <2>3, <2>4
<1>4. CASE ~EndsUp(q) /\ ~StopsContainer(q)
  BY <1>4 DEF Call, CallFails, Registers, Binds, Reads,
     ReadsRepository, OpenLooks, Probes, Reprobes, BeginsUp, Adopts, Allocates,
     LooksForOccupant, Creates, Confirms, ChecksSiblings, StopLooks, Kills,
     Commits, RecordsBinding, RecordsFailure
<1> QED
  BY <1>2, <1>3, <1>4

\* The repository of a command at work is one that can be resolved.
LEMMA RepositoryResolves ==
  ASSUME Sound, AutostartsResolve, NEW p \in Process, at[p] # "over"
  PROVE  \E v \in Resolvable : cmd[p].repo = v.repository_id
BY AtWork DEF AutostartsResolve, CommandShape

\* Under its locks, another's call takes nothing from a command.
LEMMA OthersFrame ==
  ASSUME Sound, Locks!MutualExclusion, Sincere, AutostartsResolve,
         NEW p \in Process, phase[p] = "held", at[p] # "over",
         NEW q \in Process, q # p, Call(q) \/ CallFails(q)
  PROVE  Framed(cmd[p])
<1>1. /\ Aims /\ Remembered(q) /\ Alone(q) /\ OnTarget(q)
      /\ phase[q] = "held" /\ at[q] # "over" /\ cmd[q] # NULL
  BY AimsHit, CallsMove, AtWork DEF Sincere, ContainersSafe, Moved
<1>2. ASSUME cmd[p].op # "autostart"
      PROVE  /\ cmd[p].op \in {"open", "stop", "bind"}
             /\ cmd[p].ws \in Resolvable
  BY <1>2, AtWork DEF CommandShape
<1>3. ASSUME cmd[p].op # "autostart"
      PROVE  /\ cmd[p].ws.id \in DOMAIN db'.workspaces <=> Store!Known(cmd[p].ws.id)
             /\ Store!Known(cmd[p].ws.id) =>
                  db'.workspaces[cmd[p].ws.id] = db.workspaces[cmd[p].ws.id]
  <2>1. PICK v \in Resolvable : v = cmd[p].ws
    BY <1>2, <1>3
  <2>2. CASE Registers(q)
    <3>1. PICK ws \in Resolvable, d \in Digest :
            ws = cmd[q].ws /\ Store!RegisterWorkspace(ws, d)
      BY <2>2, RegistersOwn, AtWork
    <3>2. v.id # ws.id
      BY <1>1, <1>2, <1>3, <2>1, <2>2, <3>1, RegistersOwn, WorkspacesApart
    <3>3. StoreSound
      BY DEF Sound
    <3>4. /\ Store!Known(v.id)' <=> Store!Known(v.id)
          /\ Store!Known(v.id) => db'.workspaces[v.id] = db.workspaces[v.id]
      BY <3>1, <3>2, <3>3, RegistrationFrames
    <3> QED
      BY <2>1, <3>4 DEF Store!Known
  <2>3. CASE ~Registers(q)
    <3>1. cmd[q].op \in {"open", "stop", "bind"} => cmd[q].ws.id # cmd[p].ws.id
      BY <1>1, <1>2, <1>3, WorkspacesApart
    <3> QED
      BY <2>3, <3>1, RowsChange DEF Store!Known
  <2> QED
    BY <2>2, <2>3
<1>4. ASSUME cmd[p].op # "autostart"
      PROVE  \A s : s.keys.id = cmd[p].ws.id
                      => (s \in tmux'.sessions <=> s \in tmux.sessions)
  BY <1>1, <1>2, <1>4, OthersSpareClaims
<1>5. ASSUME OnContainers(cmd[p])
      PROVE  /\ cmd[p].repo \in DOMAIN db'.container_bindings
                  <=> cmd[p].repo \in DOMAIN db.container_bindings
             /\ cmd[p].repo \in DOMAIN db.container_bindings
                  => db'.container_bindings[cmd[p].repo]
                       = db.container_bindings[cmd[p].repo]
  <2>1. CASE Registers(q)
    <3>1. PICK ws \in Resolvable, d \in Digest : Store!RegisterWorkspace(ws, d)
      BY <2>1, RegistersOwn, AtWork
    <3>2. PICK v \in Resolvable : cmd[p].repo = v.repository_id
      BY RepositoryResolves
    <3>3. StoreSound
      BY DEF Sound
    <3>4. /\ Store!BindingOf(v.repository_id)' = Store!BindingOf(v.repository_id)
          /\ \A r \in DOMAIN db'.container_bindings :
               /\ r \in DOMAIN db.container_bindings
               /\ db'.container_bindings[r] = db.container_bindings[r]
      BY <3>1, <3>3, RegistrationFrames
    <3>5. v.repository_id \in DOMAIN db.container_bindings =>
            Store!BindingOf(v.repository_id) # NULL
      BY Tables, RecordsAssumption DEF Store!BindingOf
    <3> QED
      BY <3>2, <3>4, <3>5 DEF Store!BindingOf
  <2>2. CASE db'.container_bindings = db.container_bindings
    BY <2>2
  <2>3. CASE /\ OnContainers(cmd[q]) /\ cmd[q].repo \in RepositoryID
             /\ db'.container_bindings
                  = Store!Recorded(db.container_bindings, cmd[q].repo,
                                   StateObservation(snap[q].container))
    <3>1. cmd[q].repo # cmd[p].repo
      BY <1>1, <1>5, <2>3, RepositoriesApart
    <3> QED
      BY <2>3, <3>1, Tables DEF Store!Recorded, Store!With
  <2> QED
    BY <1>1, <2>1, <2>2, <2>3, BindingsChange
<1>6. ASSUME OnContainers(cmd[p]), NEW x \in Container, OwnerOf[x] = cmd[p].repo
      PROVE  docker'[x] = docker[x]
  <2>1. OnContainers(cmd[q]) => cmd[q].repo # cmd[p].repo
    BY <1>1, <1>6, RepositoriesApart
  <2> QED
    BY <1>1, <1>6, <2>1, DockerChanges
<1> QED
  BY <1>3, <1>4, <1>5, <1>6 DEF Framed

\* What a command has concluded stays so as long as it is framed.
LEMMA FrameKeeps ==
  ASSUME Sound, BindingsOwned, NEW p \in Process, phase[p] = "held", at[p] # "over",
         UNCHANGED <<cmd[p], at[p], snap[p], phase[p]>>,
         p \in disturbed => p \in disturbed', Framed(cmd[p]),
         Remembered(p), Bound(p), Faithful(p)
  PROVE  Bound(p)' /\ Faithful(p)'
<1>1. /\ cmd[p] # NULL /\ cmd[p].op \in {"open", "stop", "bind", "autostart"}
      /\ snap[p] \in SnapRow
  BY AtWork DEF CommandShape
<1>2. cmd[p].op = "open" /\ at[p] \notin {"register", "error"}
        => Store!Known(cmd[p].ws.id)
  BY <1>1 DEF Sound, Prepared
<1>3. ASSUME cmd[p].op # "autostart", Store!Known(cmd[p].ws.id)
      PROVE  /\ Store!Known(cmd[p].ws.id)' /\ RowOf(cmd[p].ws)' = RowOf(cmd[p].ws)
  BY <1>3 DEF Framed, Store!Known, RowOf
<1>4. ASSUME cmd[p].op # "autostart"
      PROVE  /\ ClaimantsOf(cmd[p].ws.id)' = ClaimantsOf(cmd[p].ws.id)
             /\ \A s : Plan!SessionBelongsTo(s, cmd[p].ws) =>
                  (s \in tmux'.sessions <=> s \in tmux.sessions)
             /\ Store!Known(cmd[p].ws.id)' <=> Store!Known(cmd[p].ws.id)
  <2>1. \A s : Plan!SessionBelongsTo(s, cmd[p].ws) => s.keys.id = cmd[p].ws.id
    BY DEF Plan!SessionBelongsTo, Plan!KeysOf
  <2>2. \A s : s.keys.id = cmd[p].ws.id
                  => (s \in tmux'.sessions <=> s \in tmux.sessions)
    BY <1>4 DEF Framed
  <2>3. \A s : s \in ClaimantsOf(cmd[p].ws.id)' <=> s \in ClaimantsOf(cmd[p].ws.id)
    BY <2>2 DEF ClaimantsOf, Plan!Claims
  <2>4. Store!Known(cmd[p].ws.id)' <=> Store!Known(cmd[p].ws.id)
    BY <1>4 DEF Framed, Store!Known
  <2>5. ClaimantsOf(cmd[p].ws.id)' = ClaimantsOf(cmd[p].ws.id)
    <3> DEFINE claimants == ClaimantsOf(cmd[p].ws.id)
    <3> QED
      BY <2>3 DEF ClaimantsOf
  <2> QED
    BY <2>1, <2>2, <2>4, <2>5
<1>5. ASSUME OnContainers(cmd[p])
      PROVE  /\ Store!BindingOf(cmd[p].repo)' = Store!BindingOf(cmd[p].repo)
             /\ \A x \in Container : OwnerOf[x] = cmd[p].repo => docker'[x] = docker[x]
  BY <1>5 DEF Framed, Store!BindingOf
<1>6. Bound(p)'
  BY <1>1, <1>3 DEF Bound
<1>7. ASSUME Undisturbed(p)'
      PROVE  Ready(p)' /\ Opened(p)' /\ Stopped(p)' /\ Quiet(p)' /\ Served(p)'
  <2>1. Ready(p) /\ Opened(p) /\ Stopped(p) /\ Quiet(p) /\ Served(p)
    BY <1>7 DEF Undisturbed, Faithful, Concludes
  <2>2. Ready(p)'
    BY <1>1, <1>5, <2>1 DEF Ready, OnContainers, Remembered
  <2>3. Opened(p)'
    <3>1. CASE cmd[p].op = "open" /\ at[p] \notin {"register", "error"}
      <4>1. /\ RowOf(cmd[p].ws)' = RowOf(cmd[p].ws)
            /\ \A s : Plan!SessionBelongsTo(s, cmd[p].ws) =>
                  (s \in tmux'.sessions <=> s \in tmux.sessions)
        BY <1>2, <1>3, <1>4, <3>1
      <4>2. HasSession(cmd[p].ws) => HasSession(cmd[p].ws)'
        BY <4>1 DEF HasSession
      <4>3. ClaimantsOf(cmd[p].ws.id)' = ClaimantsOf(cmd[p].ws.id)
        BY <1>4, <3>1
      <4> QED
        BY <2>1, <3>1, <4>1, <4>2, <4>3 DEF Opened
    <3>2. CASE cmd[p].op # "open" \/ at[p] \in {"register", "error"}
      BY <3>2 DEF Opened
    <3> QED
      BY <3>1, <3>2
  <2>4. Stopped(p)'
    BY <1>4, <2>1 DEF Stopped
  <2>5. Quiet(p)'
    <3>1. CASE cmd[p].op = "stop" /\ cmd[p].container
      <4>1. /\ Store!Known(cmd[p].ws.id)' <=> Store!Known(cmd[p].ws.id)
            /\ Store!BindingOf(cmd[p].repo)' = Store!BindingOf(cmd[p].repo)
            /\ \A x \in Container : OwnerOf[x] = cmd[p].repo => docker'[x] = docker[x]
        BY <1>4, <1>5, <3>1 DEF OnContainers
      <4>2. snap[p].stored # NULL /\ snap[p].stored.binding # NULL
              => /\ snap[p].stored.binding.container \in Container
                 /\ OwnerOf[snap[p].stored.binding.container] = cmd[p].repo
        BY <1>1 DEF Remembered, SnapRow, StoredRow, Store!BindingRow
      <4> QED
        BY <2>1, <3>1, <4>1, <4>2 DEF Quiet
    <3>2. CASE ~(cmd[p].op = "stop" /\ cmd[p].container)
      BY <3>2 DEF Quiet
    <3> QED
      BY <3>1, <3>2
  <2>6. Served(p)'
    <3>1. CASE OnContainers(cmd[p]) /\ BindingPresent(cmd[p].repo)
      <4>1. /\ Store!BindingOf(cmd[p].repo) \in Store!BindingRow
            /\ OwnerOf[Store!BindingOf(cmd[p].repo).container] = cmd[p].repo
        BY <3>1, Tables DEF BindingPresent, Store!BindingOf, BindingsOwned
      <4> QED
        BY <1>5, <3>1, <4>1 DEF Served, BindingPresent, Store!BindingRow
    <3>2. CASE ~OnContainers(cmd[p]) \/ ~BindingPresent(cmd[p].repo)
      BY <2>1, <3>2 DEF Served, OnContainers
    <3> QED
      BY <3>1, <3>2
  <2> QED
    BY <2>2, <2>3, <2>4, <2>5, <2>6
<1> QED
  BY <1>6, <1>7 DEF Faithful, Concludes

-----------------------------------------------------------------------------
(* The calls *)

\* A call of a command, seen from the command.
LEMMA OwnCall ==
  ASSUME Sound, Sincere, NEW p \in Process, Call(p) \/ CallFails(p)
  PROVE  /\ phase[p] = "held" /\ phase'[p] = "held" /\ at[p] # "over"
         /\ cmd'[p] = cmd[p] /\ cmd[p] # NULL
         /\ cmd[p].op \in {"open", "stop", "bind", "autostart"}
         /\ cmd[p].op # "autostart" =>
              cmd[p].ws \in Resolvable /\ cmd[p].repo = cmd[p].ws.repository_id
         /\ snap[p] \in SnapRow /\ snap'[p] \in SnapRow
         /\ Undisturbed(p)' => Undisturbed(p) /\ Concludes(p)
         /\ Remembered(p) /\ Bound(p) /\ Has(cmd[p], at[p], snap[p])
<1>1. /\ phase[p] = "held" /\ phase'[p] = "held" /\ at[p] # "over"
      /\ cmd'[p] = cmd[p] /\ snap'[p] \in SnapRow
  BY CallsMove DEF Moved, lockVars
<1>2. disturbed' = disturbed
  BY DEF Call, CallFails, Step, Answers, Registers, Binds, Reads,
     ReadsRepository, OpenLooks, Probes, Reprobes, BeginsUp, EndsUp, Adopts,
     Allocates, LooksForOccupant, Creates, Confirms, ChecksSiblings, StopLooks,
     Kills, StopsContainer, Commits, RecordsBinding, RecordsFailure
<1>3. Undisturbed(p)' => Undisturbed(p)
  BY <1>1, <1>2 DEF Undisturbed
<1>4. Undisturbed(p) => Concludes(p)
  BY DEF Sincere, Faithful
<1>5. cmd[p].op # "autostart" =>
        cmd[p].ws \in Resolvable /\ cmd[p].repo = cmd[p].ws.repository_id
  BY <1>1, AtWork DEF CommandShape
<1> QED
  BY <1>1, <1>3, <1>4, <1>5, AtWork DEF Sincere, CommandShape

\* In these places a command has nothing to be sure of.
LEMMA PlainPlaces ==
  ASSUME NEW p \in Process, at'[p] \in {"register", "bind", "read", "fail", "error"}
  PROVE  Concludes(p)'
BY DEF Concludes, Ready, Opened, Stopped, Quiet, Served

\* Only the calls that write a bind change one.
LEMMA BindKept ==
  ASSUME Sound, NEW p \in Process, Call(p) \/ CallFails(p), ~Registers(p), ~Binds(p),
         NEW id \in DOMAIN db.workspaces
  PROVE  /\ id \in DOMAIN db'.workspaces
         /\ db'.workspaces[id].bind = db.workspaces[id].bind
<1>1. ASSUME NEW x, NEW name, db' = [db EXCEPT !.workspaces[x].actual_session = name]
      PROVE  /\ id \in DOMAIN db'.workspaces
             /\ db'.workspaces[id].bind = db.workspaces[id].bind
  BY <1>1, Tables DEF Store!WorkspaceRow
<1>2. CASE Adopts(p) \/ Allocates(p)
  BY <1>1, <1>2 DEF Adopts, Allocates, Store!AdoptSessionName,
     Store!AllocateSessionName
<1>3. CASE Commits(p)
  <2>1. \/ Store!RecordOperation(cmd[p].ws.id, "ok")
        \/ \E digest, obs : Store!CommitReconciliation(cmd[p].ws.id, digest, obs, "ok")
    BY <1>3 DEF Commits
  <2>2. ASSUME NEW digest, NEW obs,
               Store!CommitReconciliation(cmd[p].ws.id, digest, obs, "ok")
        PROVE  /\ id \in DOMAIN db'.workspaces
               /\ db'.workspaces[id].bind = db.workspaces[id].bind
    BY <2>2, CommitWrites
  <2> QED
    BY <2>1, <2>2, Tables DEF Store!RecordOperation
<1>4. CASE ~Adopts(p) /\ ~Allocates(p) /\ ~Commits(p)
  <2>1. db'.workspaces = db.workspaces
    BY <1>4, Tables DEF Call, CallFails, Reads, ReadsRepository, OpenLooks, Probes,
       Reprobes, BeginsUp, EndsUp, LooksForOccupant, Creates, Confirms,
       ChecksSiblings, StopLooks, Kills, StopsContainer, RecordsBinding,
       RecordsFailure, Store!RecordOperation, Store!RecordContainerObservation
  <2> QED
    BY <2>1
<1> QED
  BY <1>2, <1>3, <1>4

\* A bind that a command reports was written by it, and stays.
LEMMA BoundStays ==
  ASSUME Sound, Sincere, NEW p \in Process, Call(p) \/ CallFails(p)
  PROVE  Bound(p)'
<1> USE OwnCall
<1>1. CASE Registers(p)
  BY <1>1, Stepped DEF Registers, Bound
<1>2. CASE Binds(p)
  <2>1. db'.workspaces[cmd[p].ws.id].bind = cmd[p].bind /\ cmd[p].ws.id \in DOMAIN db'.workspaces
    BY <1>2, Tables DEF Binds, Store!SetBind, Store!Known, Store!WorkspaceRow
  <2> QED
    BY <2>1 DEF Bound, RowOf, Store!Known
<1>3. CASE ~Registers(p) /\ ~Binds(p)
  <2>1. at[p] \notin {"register", "bind"} \/ CallFails(p)
    BY <1>3 DEF Call, Step, Answers, Reads, ReadsRepository, OpenLooks, Probes,
       Reprobes, BeginsUp, EndsUp, Adopts, Allocates, LooksForOccupant, Creates,
       Confirms, ChecksSiblings, StopLooks, Kills, StopsContainer, Commits,
       RecordsBinding, RecordsFailure
  <2>2. CallFails(p) => at'[p] \in {"fail", "error"}
    BY Stepped, ErrorPlaces DEF CallFails
  <2>3. cmd[p].op = "bind" => at'[p] # "ok"
    <3>1. cmd[p].op = "bind" => Reads(p) \/ CallFails(p)
      BY <1>3 DEF Call, Step, Answers, ReadsRepository, OpenLooks, Probes,
         Reprobes, BeginsUp, EndsUp, Adopts, Allocates, LooksForOccupant, Creates,
         Confirms, ChecksSiblings, StopLooks, Kills, StopsContainer, Commits,
         RecordsBinding, RecordsFailure
    <3>2. Reads(p) => at'[p] # "ok"
      BY ReadsMove
    <3> QED
      BY <2>2, <3>1, <3>2
  <2>4. at[p] \notin {"fail", "error"} \/ at'[p] \in {"fail", "error"}
    <3>1. RecordsFailure(p) => at'[p] = "error"
      BY Stepped DEF RecordsFailure
    <3>2. at[p] \notin {"fail", "error"} \/ CallFails(p) \/ RecordsFailure(p)
      BY <1>3 DEF Call, Step, Answers, Reads, ReadsRepository, OpenLooks, Probes,
         Reprobes, BeginsUp, EndsUp, Adopts, Allocates, LooksForOccupant, Creates,
         Confirms, ChecksSiblings, StopLooks, Kills, StopsContainer, Commits,
         RecordsBinding
    <3> QED
      BY <2>2, <3>1, <3>2
  <2>5. ASSUME Store!Known(cmd[p].ws.id), RowOf(cmd[p].ws).bind = cmd[p].bind
        PROVE  /\ cmd[p].ws.id \in DOMAIN db'.workspaces
               /\ db'.workspaces[cmd[p].ws.id].bind = cmd[p].bind
    BY <1>3, <2>5, BindKept DEF Store!Known, RowOf
  <2> QED
    BY <2>1, <2>2, <2>3, <2>4, <2>5 DEF Bound, Store!Known, RowOf
<1> QED
  BY <1>1, <1>2, <1>3

-----------------------------------------------------------------------------
(* Where each call lands *)

\* A step leaves process p with what it may remember and conclude.
Lands(p) == Remembered(p)' /\ Faithful(p)'

\* An observation shows a running container of the repository it is about, where
\* it shows one; a plan that needs nothing takes it as it is.
LEMMA Observing ==
  ASSUME Sound, NEW r, NEW binding \in Store!BindingRow \cup {NULL},
         binding # NULL => OwnerOf[binding.container] = r, NEW obs,
         \/ obs \in {Observed(r, binding), Plan!UnknownContainer}
         \/ \E c : c.repo = r /\ obs = Reobserved(c, binding)
  PROVE  /\ obs # NULL /\ obs.health = "present"
              => /\ obs.container \in Container /\ OwnerOf[obs.container] = r
                 /\ docker[obs.container] = "running"
         /\ Plan!ContainerAction(obs) = "none" => Settled(obs) = obs
         /\ obs # NULL /\ Plan!ContainerAction(obs) = "none" => obs.health = "present"
         /\ r \in Containerized => obs # NULL
         /\ Settled(obs) \in {obs, NULL}
<1> DEFINE IsSeen(o) ==
             \/ o \in {Plan!MissingContainer, Plan!UnknownContainer}
             \/ \E c \in Container, b \in BOOLEAN :
                  /\ o = Plan!PresentContainer(c, b)
                  /\ OwnerOf[c] = r /\ docker[c] = "running"
<1>1. ASSUME NEW c \in Container, OwnerOf[c] = r
      PROVE  IsSeen(Probed(c))
  BY <1>1 DEF Probed
<1>2. IsSeen(Discovered(r))
  <2> DEFINE running == {c \in Container : OwnerOf[c] = r /\ docker[c] = "running"}
  <2>1. running # {} => (CHOOSE c \in running : TRUE) \in running
    OBVIOUS
  <2>2. Discovered(r) = CASE Cardinality(running) > 1 -> Plan!UnknownContainer
                          [] running = {} -> Plan!MissingContainer
                          [] OTHER -> Plan!PresentContainer(CHOOSE c \in running : TRUE, FALSE)
    BY DEF Discovered
  <2>3. CASE Cardinality(running) > 1 /\ running = {}
    BY <2>3, FS_EmptySet
  <2>4. CASE Cardinality(running) > 1 /\ running # {}
    <3> HIDE DEF running
    <3>1. Discovered(r) = Plan!UnknownContainer
      BY <2>2, <2>4
    <3> QED
      BY <3>1
  <2>5. CASE ~(Cardinality(running) > 1) /\ running = {}
    <3> HIDE DEF running
    <3>1. Discovered(r) = Plan!MissingContainer
      BY <2>2, <2>5
    <3> QED
      BY <3>1
  <2>6. CASE ~(Cardinality(running) > 1) /\ running # {}
    <3>1. PICK c : c \in running /\ c = CHOOSE x \in running : TRUE
      BY <2>1, <2>6
    <3>2. Discovered(r) = Plan!PresentContainer(c, FALSE)
      <4> HIDE DEF running
      <4> QED
        BY <2>2, <2>6, <3>1
    <3>3. c \in Container /\ OwnerOf[c] = r /\ docker[c] = "running"
      BY <3>1
    <3> HIDE DEF running
    <3> QED
      BY <3>2, <3>3
  <2> QED
    BY <2>3, <2>4, <2>5, <2>6
<1>3. binding # NULL => binding.container \in Container
  BY DEF Store!BindingRow
<1>4. \/ r \notin Containerized /\ Observed(r, binding) = NULL
      \/ IsSeen(Observed(r, binding))
  <2> HIDE DEF IsSeen
  <2> QED
    BY <1>1, <1>2, <1>3 DEF Observed
<1>5. ASSUME NEW c, c.repo = r
      PROVE  \/ r \notin Containerized /\ Reobserved(c, binding) = NULL
             \/ IsSeen(Reobserved(c, binding))
  <2> HIDE DEF IsSeen
  <2> QED
    BY <1>1, <1>3, <1>4, <1>5 DEF Reobserved
<1>6. (r \notin Containerized /\ obs = NULL) \/ IsSeen(obs)
  <2>1. IsSeen(Plan!UnknownContainer)
    OBVIOUS
  <2> HIDE DEF IsSeen
  <2> QED
    BY <1>4, <1>5, <2>1
<1>7. CASE r \notin Containerized /\ obs = NULL
  BY <1>7 DEF Settled
<1>8. CASE obs \in {Plan!MissingContainer, Plan!UnknownContainer}
  <2>1. obs # NULL
    BY <1>8, RecordsAssumption DEF ContainerView
  <2> QED
    BY <1>8, <2>1 DEF Settled, Plan!MissingContainer, Plan!UnknownContainer,
       Plan!ContainerAction
<1>9. ASSUME NEW c \in Container, NEW b \in BOOLEAN,
             obs = Plan!PresentContainer(c, b), OwnerOf[c] = r, docker[c] = "running"
      PROVE  /\ obs # NULL /\ obs.health = "present" /\ obs.container = c
  <2>1. obs \in ContainerView
    BY <1>9 DEF ContainerView, Plan!PresentContainer
  <2> QED
    BY <1>9, <2>1, RecordsAssumption DEF Plan!PresentContainer
<1>10. CASE \E c \in Container, b \in BOOLEAN :
              /\ obs = Plan!PresentContainer(c, b)
              /\ OwnerOf[c] = r /\ docker[c] = "running"
  BY <1>9, <1>10 DEF Settled
<1> QED
  BY <1>6, <1>7, <1>8, <1>10

\* Once its container is settled, an open or autostart concludes that it runs,
\* and, as it planned, where its session is.
LEMMA SettledConcludes ==
  ASSUME NEW p \in Process, cmd' = cmd, cmd[p].op \in {"open", "autostart"},
         at'[p] = AfterContainer(p, snap'[p].session, snap'[p].container),
         cmd[p].repo \in Containerized => snap'[p].container # NULL,
         snap'[p].container # NULL =>
           /\ snap'[p].container.health = "present"
           /\ docker'[snap'[p].container.container] = "running",
         cmd[p].op = "open" /\ snap'[p].session = "none" => HasSession(cmd[p].ws)',
         cmd[p].op = "open" /\ snap'[p].session = "adopt" =>
           /\ snap'[p].live \in tmux'.sessions
           /\ Plan!SessionBelongsTo(snap'[p].live, cmd[p].ws)
  PROVE  Concludes(p)'
<1>1. /\ at'[p] \in {"ok", "record", "fail", "commit", "adopt", "allocate"}
      /\ at'[p] \in {"ok", "record"} <=> cmd[p].op = "autostart"
      /\ at'[p] = "ok" => snap'[p].container = NULL
      /\ at'[p] = "adopt" => snap'[p].session = "adopt"
      /\ at'[p] = "commit" => snap'[p].session = "none"
  BY AfterContainerPlaces DEF AfterContainer
<1>2. Ready(p)'
  BY <1>1 DEF Ready
<1>3. Opened(p)'
  BY <1>1 DEF Opened
<1>4. Stopped(p)' /\ Quiet(p)'
  BY DEF Stopped, Quiet
<1>5. Served(p)'
  BY <1>1 DEF Served
<1> QED
  BY <1>2, <1>3, <1>4, <1>5 DEF Concludes

\* What is remembered is not lost.
LEMMA RemembersOn ==
  ASSUME NEW p \in Process, cmd'[p] = cmd[p], Remembered(p),
         snap'[p].stored \in {snap[p].stored, NULL},
         snap'[p].container = snap[p].container
  PROVE  Remembered(p)'
BY DEF Remembered

\* Calls that write to the store on the way, or report a failure.
LEMMA StoreCallsLand ==
  ASSUME Sound, Sincere, NEW p \in Process,
         Registers(p) \/ Binds(p) \/ RecordsFailure(p) \/ CallFails(p)
  PROVE  Lands(p)
<1>1. /\ cmd'[p] = cmd[p] /\ Remembered(p) /\ snap' = snap
  BY OwnCall, StoreCallsMove DEF Call
<1>2. Remembered(p)'
  BY <1>1, RemembersOn
<1>3. \/ at'[p] \in {"register", "bind", "read", "fail", "error"}
      \/ at'[p] = "ok" /\ cmd[p].op = "bind"
  <2>1. CASE CallFails(p)
    BY <2>1, Stepped, ErrorPlaces DEF CallFails
  <2>2. CASE Registers(p) \/ Binds(p) \/ RecordsFailure(p)
    BY <2>2, Stepped DEF Registers, Binds, RecordsFailure
  <2> QED
    BY <2>1, <2>2
<1>4. CASE at'[p] = "ok" /\ cmd[p].op = "bind"
  <2>1. Concludes(p)'
    BY <1>1, <1>4 DEF Concludes, Ready, Opened, Stopped, Quiet, Served
  <2> QED
    BY <1>2, <2>1 DEF Lands, Faithful
<1> QED
  BY <1>2, <1>3, <1>4, PlainPlaces DEF Lands, Faithful

\* A read of the record: it is the record.
LEMMA ReadsLand ==
  ASSUME Sound, Sincere, NEW p \in Process, Reads(p)
  PROVE  Lands(p)
<1>1. /\ cmd'[p] = cmd[p] /\ cmd[p] # NULL /\ Remembered(p)
      /\ cmd[p].ws \in Resolvable /\ cmd[p].repo = cmd[p].ws.repository_id
      /\ cmd[p].op \in {"open", "stop", "bind"} /\ UNCHANGED <<db, tmux, docker>>
      /\ at'[p] \in {"look", "siblings", "register", "bind"}
      /\ snap'[p].stored = StoredRecord(cmd[p].ws.id)
      /\ snap'[p].container = snap[p].container
      /\ cmd[p].op = "open" => Store!Known(cmd[p].ws.id)
  BY OwnCall, ReadsMove DEF Call, Sound, Prepared
<1> DEFINE id == cmd[p].ws.id
           stored == snap'[p].stored
<1>2. /\ stored # NULL <=> Store!Known(id)
      /\ Store!Known(id) =>
           /\ stored.row = RowOf(cmd[p].ws)
           /\ stored.binding = Store!BindingOf(cmd[p].repo)
  <2>1. Store!Known(id) => db.workspaces[id].repository_id = cmd[p].repo
    BY <1>1 DEF Sound, StoreSound, Store!IsPlaced, Store!Known
  <2>2. StoredRecord(id) # NULL <=> Store!Known(id)
    BY StoredTyped DEF Sound
  <2> QED
    BY <1>1, <2>1, <2>2, SMTT(30) DEF StoredRecord, Store!Record, RowOf
<1>3. Remembered(p)'
  <2>1. \A r : Store!BindingOf(r) # NULL =>
                 OwnerOf[Store!BindingOf(r).container] = r
    BY DEF Sincere, BindingsOwned, Store!BindingOf
  <2> HIDE DEF stored
  <2>2. stored # NULL /\ stored.binding # NULL
          => OwnerOf[stored.binding.container] = cmd[p].repo
    BY <1>2, <2>1
  <2> QED
    BY <1>1, <2>2 DEF Remembered, stored
<1>4. Concludes(p)'
  <2>1. Ready(p)' /\ Stopped(p)' /\ Served(p)'
    BY <1>1 DEF Ready, Stopped, Served
  <2>2. Opened(p)'
    BY <1>1, <1>2 DEF Opened, RowOf
  <2>3. Quiet(p)'
    BY <1>1, <1>2 DEF Quiet, Store!Known, Store!BindingOf
  <2> QED
    BY <2>1, <2>2, <2>3 DEF Concludes
<1> QED
  BY <1>3, <1>4 DEF Lands, Faithful

\* autostart's read of its repository.
LEMMA ReadsRepositoryLands ==
  ASSUME Sound, Sincere, NEW p \in Process, ReadsRepository(p)
  PROVE  Lands(p)
<1>1. /\ cmd'[p] = cmd[p] /\ Remembered(p) /\ cmd[p].op = "autostart"
      /\ at'[p] \in {"probe", "error"}
      /\ snap'[p].stored.binding = Store!BindingOf(cmd[p].repo)
      /\ snap'[p].container = snap[p].container
  BY OwnCall, ReadsRepositoryMoves DEF Call
<1>2. Remembered(p)'
  <2>1. \A r : Store!BindingOf(r) # NULL =>
                 OwnerOf[Store!BindingOf(r).container] = r
    BY DEF Sincere, BindingsOwned, Store!BindingOf
  <2> QED
    BY <1>1, <2>1 DEF Remembered
<1>3. Concludes(p)'
  BY <1>1 DEF Concludes, Ready, Opened, Stopped, Quiet, Served
<1> QED
  BY <1>2, <1>3 DEF Lands, Faithful

\* An open's look: the live session it saw claims the workspace.
LEMMA OpenLooksLand ==
  ASSUME Sound, Sincere, NEW p \in Process, OpenLooks(p)
  PROVE  Lands(p)
<1> DEFINE view == TmuxView(cmd[p].ws.id, CandidateNames(cmd[p].ws, snap[p].stored))
<1>1. view.state = "live" => view.live \in ClaimantsOf(cmd[p].ws.id)
  BY Views DEF Sound
<1> HIDE DEF view
<1>2. /\ cmd'[p] = cmd[p] /\ Remembered(p) /\ cmd[p].op = "open" /\ at[p] = "look"
      /\ at'[p] = "probe" /\ UNCHANGED <<db, tmux, docker>>
      /\ snap'[p].stored = snap[p].stored /\ snap'[p].container = snap[p].container
      /\ \/ snap'[p].state = "unknown"
         \/ snap'[p].state = view.state /\ snap'[p].live = view.live
      /\ Undisturbed(p)' => Concludes(p)
  BY OwnCall, OpenLooksMove DEF Call, view
<1>3. Remembered(p)'
  BY <1>2, RemembersOn
<1>4. ASSUME Concludes(p) PROVE Concludes(p)'
  <2>1. Opened(p)'
    BY <1>1, <1>2, <1>4 DEF Concludes, Opened, ClaimantsOf, RowOf
  <2>2. Ready(p)' /\ Stopped(p)' /\ Quiet(p)' /\ Served(p)'
    BY <1>2 DEF Ready, Stopped, Quiet, Served
  <2> QED
    BY <2>1, <2>2 DEF Concludes
<1> QED
  BY <1>2, <1>3, <1>4 DEF Lands, Faithful

\* An open's plan holds: it leaves alone the session recorded, and adopts a
\* live one.
LEMMA PlansHold ==
  ASSUME NEW p \in Process, Opened(p), cmd[p].op = "open", at[p] = "probe"
  PROVE  LET session == Plan!SessionAction(snap[p], cmd[p].ws) IN
         /\ session = "none" => HasSession(cmd[p].ws)
         /\ session = "adopt" =>
              /\ snap[p].live \in tmux.sessions
              /\ Plan!SessionBelongsTo(snap[p].live, cmd[p].ws)
<1>1. /\ snap[p].stored.row.actual_session = RowOf(cmd[p].ws).actual_session
      /\ snap[p].state = "live" => snap[p].live \in tmux.sessions
  BY DEF Opened, ClaimantsOf
<1> QED
  BY <1>1 DEF Plan!SessionAction, Plan!Refuses, HasSession

\* The container is observed, and the plan made.
LEMMA ProbesLand ==
  ASSUME Sound, Sincere, NEW p \in Process, Probes(p)
  PROVE  Lands(p)
<1>1. PICK obs \in {Observed(cmd[p].repo, snap[p].stored.binding),
                    Plan!UnknownContainer} :
        /\ snap'[p].container = Settled(obs)
        /\ \/ at'[p] \in {"fail", "reprobe", "up"}
           \/ /\ Plan!ContainerAction(obs) = "none"
              /\ at'[p] = AfterContainer(p, snap'[p].session, snap'[p].container)
  BY ProbesMove
<1>2. /\ cmd'[p] = cmd[p] /\ cmd' = cmd /\ Remembered(p) /\ snap[p] \in SnapRow
      /\ cmd[p] # NULL /\ Has(cmd[p], at[p], snap[p])
      /\ Undisturbed(p)' => Concludes(p)
  BY OwnCall, CallsMove DEF Call, Moved
<1>3. /\ at[p] = "probe" /\ cmd[p].op \in {"open", "autostart"}
      /\ cmd[p].op = "open" =>
              /\ snap'[p].session = Plan!SessionAction(snap[p], cmd[p].ws)
              /\ snap'[p].session = "adopt" => snap'[p].live = snap[p].live
      /\ UNCHANGED <<db, tmux, docker>> /\ snap'[p].stored \in {snap[p].stored, NULL}
  BY ProbesMove
<1>4. /\ snap[p].stored \in StoredRow /\ snap[p].stored # NULL
      /\ snap[p].stored.binding \in Store!BindingRow \cup {NULL}
      /\ snap[p].stored.binding # NULL =>
           OwnerOf[snap[p].stored.binding.container] = cmd[p].repo
  BY <1>2, <1>3 DEF Has, SnapRow, StoredRow, Remembered
<1>5. /\ obs # NULL /\ obs.health = "present"
           => /\ obs.container \in Container /\ OwnerOf[obs.container] = cmd[p].repo
              /\ docker[obs.container] = "running"
      /\ Plan!ContainerAction(obs) = "none" => Settled(obs) = obs
      /\ obs # NULL /\ Plan!ContainerAction(obs) = "none" => obs.health = "present"
      /\ cmd[p].repo \in Containerized => obs # NULL
      /\ Settled(obs) \in {obs, NULL}
  BY <1>4, Observing
<1>6. Remembered(p)'
  BY <1>1, <1>2, <1>3, <1>5 DEF Remembered
<1>7. ASSUME Concludes(p) PROVE Concludes(p)'
  <2>1. cmd[p].op = "open" =>
          /\ snap'[p].session = "none" => HasSession(cmd[p].ws)'
          /\ snap'[p].session = "adopt" =>
               /\ snap'[p].live \in tmux'.sessions
               /\ Plan!SessionBelongsTo(snap'[p].live, cmd[p].ws)
    <3>1. cmd[p].op = "open" =>
            /\ snap'[p].session = "none" => HasSession(cmd[p].ws)
            /\ snap'[p].session = "adopt" =>
                 /\ snap[p].live \in tmux.sessions
                 /\ Plan!SessionBelongsTo(snap[p].live, cmd[p].ws)
      BY <1>3, <1>7, PlansHold DEF Concludes
    <3> QED
      BY <1>2, <1>3, <3>1 DEF HasSession, RowOf
  <2>2. CASE at'[p] \in {"fail", "reprobe", "up"}
    <3>1. Opened(p)'
      BY <1>2, <2>1, <2>2 DEF Opened
    <3> QED
      BY <1>2, <1>3, <2>2, <3>1 DEF Concludes, Ready, Stopped, Quiet, Served
  <2>3. CASE /\ Plan!ContainerAction(obs) = "none"
             /\ at'[p] = AfterContainer(p, snap'[p].session, snap'[p].container)
    BY <1>1, <1>2, <1>3, <1>5, <2>1, <2>3, SettledConcludes
  <2> QED
    BY <1>1, <2>2, <2>3
<1> QED
  BY <1>2, <1>6, <1>7 DEF Lands, Faithful

\* A container that could not be observed is observed again.
LEMMA ReprobesLand ==
  ASSUME Sound, Sincere, NEW p \in Process, Reprobes(p)
  PROVE  Lands(p)
<1>1. PICK obs :
        /\ obs = Reobserved(cmd[p], snap[p].stored.binding)
        /\ snap'[p].container = Settled(obs)
        /\ \/ at'[p] \in {"fail", "error", "up"}
           \/ /\ Plan!ContainerAction(obs) = "none"
              /\ at'[p] = AfterContainer(p, snap[p].session, snap'[p].container)
  BY ReprobesMove
<1>2. /\ cmd'[p] = cmd[p] /\ cmd' = cmd /\ Remembered(p) /\ snap[p] \in SnapRow
      /\ cmd[p] # NULL /\ Has(cmd[p], at[p], snap[p])
      /\ Undisturbed(p)' => Concludes(p)
  BY OwnCall, CallsMove DEF Call, Moved
<1>3. /\ at[p] = "reprobe" /\ cmd[p].op \in {"open", "autostart"}
      /\ snap'[p].session = snap[p].session /\ snap'[p].live = snap[p].live
      /\ UNCHANGED <<db, tmux, docker>> /\ snap'[p].stored = NULL
  BY ReprobesMove
<1>4. /\ snap[p].stored \in StoredRow /\ snap[p].stored # NULL
      /\ snap[p].stored.binding \in Store!BindingRow \cup {NULL}
      /\ snap[p].stored.binding # NULL =>
           OwnerOf[snap[p].stored.binding.container] = cmd[p].repo
  BY <1>2, <1>3 DEF Has, SnapRow, StoredRow, Remembered
<1>5. /\ obs # NULL /\ obs.health = "present"
           => /\ obs.container \in Container /\ OwnerOf[obs.container] = cmd[p].repo
              /\ docker[obs.container] = "running"
      /\ Plan!ContainerAction(obs) = "none" => Settled(obs) = obs
      /\ obs # NULL /\ Plan!ContainerAction(obs) = "none" => obs.health = "present"
      /\ cmd[p].repo \in Containerized => obs # NULL
      /\ Settled(obs) \in {obs, NULL}
  <2>1. PICK binding \in Store!BindingRow \cup {NULL} :
          binding = snap[p].stored.binding
    BY <1>4
  <2>2. binding # NULL => OwnerOf[binding.container] = cmd[p].repo
    BY <1>4, <2>1
  <2>3. \E c : c.repo = cmd[p].repo /\ obs = Reobserved(c, binding)
    BY <1>1, <2>1
  <2>4. PICK r : r = cmd[p].repo
    OBVIOUS
  <2> QED
    BY <2>2, <2>3, <2>4, Observing
<1>6. Remembered(p)'
  BY <1>1, <1>2, <1>3, <1>5, SMTT(30) DEF Remembered
<1>7. ASSUME Concludes(p) PROVE Concludes(p)'
  <2>1. cmd[p].op = "open" =>
          /\ snap'[p].session = "none" => HasSession(cmd[p].ws)'
          /\ snap'[p].session = "adopt" =>
               /\ snap'[p].live \in tmux'.sessions
               /\ Plan!SessionBelongsTo(snap'[p].live, cmd[p].ws)
    BY <1>2, <1>3, <1>7 DEF Concludes, Opened, HasSession, RowOf
  <2>2. CASE at'[p] \in {"fail", "error", "up"}
    <3>1. Opened(p)'
      BY <1>2, <2>1, <2>2 DEF Opened
    <3> QED
      BY <1>2, <1>3, <2>2, <3>1 DEF Concludes, Ready, Stopped, Quiet, Served
  <2>3. CASE /\ Plan!ContainerAction(obs) = "none"
             /\ at'[p] = AfterContainer(p, snap[p].session, snap'[p].container)
    BY <1>1, <1>2, <1>3, <1>5, <2>1, <2>3, SettledConcludes
  <2> QED
    BY <1>1, <2>2, <2>3
<1> QED
  BY <1>2, <1>6, <1>7 DEF Lands, Faithful

\* devcontainer up begins with a container of the repository.
LEMMA BeginsUpLands ==
  ASSUME Sound, Sincere, NEW p \in Process, BeginsUp(p)
  PROVE  Lands(p)
<1>1. /\ cmd'[p] = cmd[p] /\ Remembered(p)
      /\ at[p] = "up" /\ at'[p] = "upping" /\ cmd[p].op \in {"open", "autostart"}
      /\ snap'[p].session = snap[p].session /\ snap'[p].live = snap[p].live
      /\ snap'[p].stored = snap[p].stored
      /\ snap'[p].container.container \in UpTargets(cmd[p].repo)
      /\ Undisturbed(p)' => Concludes(p)
  BY OwnCall, BeginsUpMove DEF Call
<1>2. UNCHANGED <<db, tmux, docker>>
  BY DEF BeginsUp
<1>3. Remembered(p)'
  BY <1>1 DEF Remembered, UpTargets
<1>4. ASSUME Concludes(p) PROVE Concludes(p)'
  <2>1. Opened(p)'
    BY <1>1, <1>2, <1>4 DEF Concludes, Opened, HasSession, RowOf
  <2> QED
    BY <1>1, <2>1 DEF Concludes, Ready, Stopped, Quiet, Served
<1> QED
  BY <1>1, <1>3, <1>4 DEF Lands, Faithful

\* It ends with that container running.
LEMMA EndsUpLands ==
  ASSUME Sound, Sincere, NEW p \in Process, EndsUp(p)
  PROVE  Lands(p)
<1>1. /\ cmd'[p] = cmd[p] /\ cmd' = cmd /\ Remembered(p) /\ snap[p] \in SnapRow
      /\ cmd[p] # NULL /\ Has(cmd[p], at[p], snap[p])
      /\ Undisturbed(p)' => Concludes(p)
  BY OwnCall, CallsMove DEF Call, Moved
<1>2. /\ at[p] = "upping" /\ snap' = snap /\ snap[p].container.container \in Container
      /\ cmd[p].op \in {"open", "autostart"} /\ UNCHANGED <<db, tmux>>
      /\ \/ at'[p] \in {"fail", "error"}
         \/ /\ at'[p] = AfterContainer(p, snap[p].session, snap[p].container)
            /\ docker' = [docker EXCEPT ![snap[p].container.container] = "running"]
  BY EndsUpMove
<1>3. Remembered(p)'
  BY <1>1, <1>2, RemembersOn
<1>4. snap[p].container # NULL /\ snap[p].container.health = "present"
  <2>1. snap[p].container # NULL /\ snap[p].container \in ContainerView
    BY <1>1, <1>2 DEF Has, SnapRow
  <2>2. NULL \notin Container
    BY StoreAssumption DEF Store!NullIsNoValue
  <2> QED
    BY <1>2, <2>1, <2>2
       DEF ContainerView, Plan!MissingContainer, Plan!UnknownContainer
<1>5. CASE at'[p] \in {"fail", "error"}
  BY <1>3, <1>5, PlainPlaces DEF Lands, Faithful
<1>6. ASSUME Concludes(p),
             at'[p] = AfterContainer(p, snap[p].session, snap[p].container),
             docker' = [docker EXCEPT ![snap[p].container.container] = "running"]
      PROVE  Concludes(p)'
  <2>1. cmd[p].op = "open" =>
          /\ snap'[p].session = "none" => HasSession(cmd[p].ws)'
          /\ snap'[p].session = "adopt" =>
               /\ snap'[p].live \in tmux'.sessions
               /\ Plan!SessionBelongsTo(snap'[p].live, cmd[p].ws)
    BY <1>1, <1>2, <1>6 DEF Concludes, Opened, HasSession, RowOf
  <2>2. docker'[snap'[p].container.container] = "running"
    BY <1>2, <1>6 DEF Sound, Types
  <2> QED
    BY <1>1, <1>2, <1>4, <1>6, <2>1, <2>2, SettledConcludes
<1> QED
  BY <1>1, <1>2, <1>3, <1>5, <1>6 DEF Lands, Faithful

\* The session that is adopted is there, and its name recorded.
LEMMA AdoptsLand ==
  ASSUME Sound, Sincere, NEW p \in Process, Adopts(p)
  PROVE  Lands(p)
<1>1. /\ cmd'[p] = cmd[p] /\ Remembered(p)
      /\ Undisturbed(p)' => Concludes(p)
      /\ snap' = snap
  BY OwnCall, SessionCallsMove DEF Call
<1>2. /\ at[p] = "adopt" /\ cmd[p].op = "open" /\ UNCHANGED <<tmux, docker>>
      /\ \/ at'[p] = "fail"
         \/ at'[p] = "commit" /\ Store!AdoptSessionName(cmd[p].ws.id, snap[p].live.name)
  BY Stepped DEF Adopts
<1>3. Remembered(p)'
  BY <1>1, RemembersOn
<1>4. CASE at'[p] = "fail"
  BY <1>3, <1>4, PlainPlaces DEF Lands, Faithful
<1>5. ASSUME Concludes(p), at'[p] = "commit",
             Store!AdoptSessionName(cmd[p].ws.id, snap[p].live.name)
      PROVE  Concludes(p)'
  <2>1. db'.workspaces[cmd[p].ws.id].actual_session = snap[p].live.name
    BY <1>5, Tables DEF Store!AdoptSessionName, Store!Known, Store!WorkspaceRow
  <2>2. /\ snap[p].live \in tmux.sessions
        /\ Plan!SessionBelongsTo(snap[p].live, cmd[p].ws)
    BY <1>2, <1>5 DEF Concludes, Opened
  <2>3. HasSession(cmd[p].ws)'
    BY <1>1, <1>2, <2>1, <2>2 DEF HasSession, RowOf
  <2>4. Ready(p)'
    BY <1>1, <1>2, <1>5 DEF Concludes, Ready
  <2> QED
    BY <1>1, <1>2, <1>5, <2>3, <2>4 DEF Concludes, Opened, Stopped, Quiet, Served
<1> QED
  BY <1>1, <1>2, <1>3, <1>4, <1>5 DEF Lands, Faithful

\* The name an open creates its session under is recorded.
LEMMA AllocatesLand ==
  ASSUME Sound, Sincere, NEW p \in Process, Allocates(p)
  PROVE  Lands(p)
<1>1. /\ cmd'[p] = cmd[p] /\ Remembered(p)
      /\ Undisturbed(p)' => Concludes(p)
      /\ at[p] = "allocate" /\ at'[p] \in {"fail", "occupant"}
      /\ snap'[p].stored = snap[p].stored /\ snap'[p].container = snap[p].container
      /\ Store!AllocateSessionName(cmd[p].ws.id, snap'[p].name)
      /\ at'[p] = "occupant" => snap'[p].name # NULL
  BY OwnCall, AllocatesMove DEF Call
<1>2. cmd[p].op = "open" /\ UNCHANGED <<tmux, docker>>
  BY Stepped DEF Allocates
<1>3. Remembered(p)'
  BY <1>1, RemembersOn
<1>4. CASE at'[p] = "fail"
  BY <1>3, <1>4, PlainPlaces DEF Lands, Faithful
<1>5. ASSUME Concludes(p), at'[p] = "occupant"
      PROVE  Concludes(p)'
  <2>1. PICK name : name = snap'[p].name
    OBVIOUS
  <2>2. db'.workspaces[cmd[p].ws.id].actual_session = name
    <3>1. Store!AllocateSessionName(cmd[p].ws.id, name) /\ name # NULL
      BY <1>1, <1>5, <2>1
    <3>2. CASE UNCHANGED db /\ name = db.workspaces[cmd[p].ws.id].actual_session
      BY <3>2
    <3>3. CASE db' = [db EXCEPT !.workspaces[cmd[p].ws.id].actual_session = name]
      <4>1. /\ cmd[p].ws.id \in DOMAIN db.workspaces
            /\ db.workspaces[cmd[p].ws.id] \in Store!WorkspaceRow
        BY <3>1, Tables DEF Store!AllocateSessionName, Store!Known
      <4>2. db'.workspaces
              = [db.workspaces EXCEPT ![cmd[p].ws.id].actual_session = name]
        BY <3>3, Tables
      <4> QED
        BY <4>1, <4>2 DEF Store!WorkspaceRow
    <3> QED
      BY <3>1, <3>2, <3>3 DEF Store!AllocateSessionName
  <2>3. Ready(p)'
    BY <1>1, <1>2, <1>5 DEF Concludes, Ready
  <2> QED
    BY <1>1, <1>2, <1>5, <2>1, <2>2, <2>3
       DEF Concludes, Opened, Stopped, Quiet, Served, RowOf
<1> QED
  BY <1>1, <1>3, <1>4, <1>5 DEF Lands, Faithful

\* The calls that create a session: the row goes on naming it, and what is
\* confirmed is it.
LEMMA CreationLands ==
  ASSUME Sound, Sincere, NEW p \in Process,
         LooksForOccupant(p) \/ Creates(p) \/ Confirms(p)
  PROVE  Lands(p)
<1>1. /\ cmd'[p] = cmd[p] /\ Remembered(p)
      /\ Undisturbed(p)' => Concludes(p)
      /\ snap' = snap
  BY OwnCall, SessionCallsMove DEF Call
<1>2. /\ at[p] \in {"occupant", "create", "confirm"} /\ cmd[p].op = "open"
      /\ UNCHANGED <<db, docker>>
      /\ \/ at'[p] \in {"fail", "error", "create", "confirm"}
         \/ at'[p] = "commit" /\ Confirms(p) /\ UNCHANGED tmux
  BY Stepped, ErrorPlaces DEF LooksForOccupant, Creates, Confirms, Answers
<1>3. Remembered(p)'
  BY <1>1, RemembersOn
<1>4. CASE at'[p] \in {"fail", "error"}
  BY <1>3, <1>4, PlainPlaces DEF Lands, Faithful
<1>5. ASSUME Concludes(p), at'[p] \in {"create", "confirm", "commit"},
             at'[p] = "commit" => HasSession(cmd[p].ws)'
      PROVE  Concludes(p)'
  <2>1. Ready(p)'
    BY <1>1, <1>2, <1>5 DEF Concludes, Ready
  <2>2. Opened(p)'
    BY <1>1, <1>2, <1>5 DEF Concludes, Opened, RowOf
  <2> QED
    BY <1>1, <1>2, <1>5, <2>1, <2>2 DEF Concludes, Stopped, Quiet, Served
<1>6. ASSUME Concludes(p), at'[p] = "commit", Confirms(p), UNCHANGED tmux
      PROVE  HasSession(cmd[p].ws)'
  <2> DEFINE ws == cmd[p].ws
             view == TmuxView(ws.id, CandidateNames(ws, StoredRecord(ws.id)))
  <2>1. /\ at[p] = "confirm"
        /\ at'[p] = IF Plan!ConfirmsCreation(view, ws, snap[p].name)
                    THEN "commit" ELSE "fail"
    BY <1>6, Stepped DEF Confirms
  <2>2. /\ view.state = "live" => view.live # NULL
        /\ view.live # NULL => view.live \in ClaimantsOf(ws.id)
    BY Views DEF Sound
  <2> HIDE DEF view
  <2>3. /\ view.state = "live" /\ Plan!SessionBelongsTo(view.live, ws)
        /\ view.live.name = snap[p].name
    BY <1>6, <2>1 DEF Plan!ConfirmsCreation
  <2>4. RowOf(ws).actual_session = snap[p].name
    BY <1>2, <1>6, <2>1 DEF Concludes, Opened
  <2>5. view.live \in tmux.sessions
    BY <2>2, <2>3 DEF ClaimantsOf
  <2>6. \E s \in tmux.sessions :
          Plan!SessionBelongsTo(s, ws) /\ RowOf(ws).actual_session = s.name
    BY <2>3, <2>4, <2>5
  <2> QED
    BY <1>1, <1>2, <1>6, <2>6 DEF HasSession, RowOf
<1> QED
  BY <1>1, <1>2, <1>3, <1>4, <1>5, <1>6 DEF Lands, Faithful

\* A look at the siblings changes nothing.
LEMMA ChecksSiblingsLands ==
  ASSUME Sound, Sincere, NEW p \in Process, ChecksSiblings(p)
  PROVE  Lands(p)
<1>1. /\ cmd'[p] = cmd[p] /\ Remembered(p)
      /\ Undisturbed(p)' => Concludes(p)
      /\ snap' = snap
  BY OwnCall, SessionCallsMove DEF Call
<1>2. /\ at[p] = "siblings" /\ cmd[p].op = "stop" /\ at'[p] \in {"fail", "look"}
      /\ UNCHANGED <<db, tmux, docker>>
  BY Stepped DEF ChecksSiblings
<1>3. Remembered(p)'
  BY <1>1, RemembersOn
<1>4. ASSUME Concludes(p) PROVE Concludes(p)'
  <2>1. Quiet(p)'
    BY <1>1, <1>2, <1>4 DEF Concludes, Quiet, Store!Known, Store!BindingOf
  <2> QED
    BY <1>1, <1>2, <2>1 DEF Concludes, Ready, Opened, Stopped, Served
<1> QED
  BY <1>1, <1>3, <1>4 DEF Lands, Faithful

\* A stop's look: the session it will kill is the only one.
LEMMA StopLooksLand ==
  ASSUME Sound, Sincere, NEW p \in Process, StopLooks(p)
  PROVE  Lands(p)
<1>1. /\ cmd'[p] = cmd[p] /\ Remembered(p)
      /\ Undisturbed(p)' => Concludes(p)
      /\ at[p] = "look" /\ cmd[p].op = "stop"
      /\ at'[p] \in {"kill", "stop_container", "commit", "ok", "fail", "error"}
      /\ snap'[p].stored = snap[p].stored /\ snap'[p].container = snap[p].container
      /\ UNCHANGED <<db, tmux, docker>>
  BY OwnCall, StopLooksMove DEF Call
<1>2. /\ at'[p] = "kill" => /\ snap'[p].live \in ClaimantsOf(cmd[p].ws.id)
                            /\ ~(Cardinality(ClaimantsOf(cmd[p].ws.id)) > 1)
      /\ at'[p] \in {"stop_container", "commit", "ok"} =>
           ClaimantsOf(cmd[p].ws.id) = {} /\ at'[p] = AfterSession(p)
  BY StopLooksMove
<1>3. Remembered(p)'
  BY <1>1, RemembersOn
<1>4. CASE at'[p] \in {"fail", "error"}
  BY <1>3, <1>4, PlainPlaces DEF Lands, Faithful
<1>5. ASSUME Concludes(p), at'[p] \in {"kill", "stop_container", "commit", "ok"}
      PROVE  Concludes(p)'
  <2>1. ClaimantsOf(cmd[p].ws.id)' = ClaimantsOf(cmd[p].ws.id)
    BY <1>1 DEF ClaimantsOf
  <2>2. IsFiniteSet(ClaimantsOf(cmd[p].ws.id))
    BY FS_Subset DEF Sincere, ClaimantsOf
  <2>3. at'[p] = "kill" =>
          \A s \in ClaimantsOf(cmd[p].ws.id) : s = snap'[p].live
    BY <1>2, <2>2, NotTwo
  <2>4. Stopped(p)'
    BY <1>1, <1>2, <2>1, <2>3 DEF Stopped
  <2>5. Quiet(p)'
    <3>1. at'[p] \in {"commit", "ok"} /\ cmd[p].container =>
            snap[p].stored = NULL \/ snap[p].stored.binding = NULL
      BY <1>2 DEF AfterSession
    <3> QED
      BY <1>1, <1>5, <3>1 DEF Concludes, Quiet, Store!Known, Store!BindingOf
  <2> QED
    BY <1>1, <1>5, <2>4, <2>5 DEF Concludes, Ready, Opened, Served
<1> QED
  BY <1>1, <1>3, <1>4, <1>5 DEF Lands, Faithful

\* A kill leaves no session.
LEMMA KillsLand ==
  ASSUME Sound, Sincere, NEW p \in Process, Kills(p)
  PROVE  Lands(p)
<1>1. /\ cmd'[p] = cmd[p] /\ Remembered(p)
      /\ Undisturbed(p)' => Concludes(p)
      /\ at[p] = "kill" /\ cmd[p].op = "stop" /\ snap' = snap
      /\ at'[p] \in {"stop_container", "commit", "ok", "fail", "error"}
      /\ at'[p] \in {"fail", "error"} \/ at'[p] = AfterSession(p)
  BY OwnCall, KillsMove DEF Call
<1>2. Remembered(p)'
  BY <1>1, RemembersOn
<1>3. CASE at'[p] \in {"fail", "error"}
  BY <1>2, <1>3, PlainPlaces DEF Lands, Faithful
<1>4. ASSUME Concludes(p), at'[p] = AfterSession(p)
      PROVE  Concludes(p)'
  <2> DEFINE id == cmd[p].ws.id
             targets == {s \in tmux.sessions : s.sid = snap[p].live.sid}
  <2>1. \A s \in ClaimantsOf(id) : s \in targets
    BY <1>1, <1>4 DEF Concludes, Stopped, ClaimantsOf
  <2>2. /\ UNCHANGED <<db, docker>>
        /\ IF targets = {} THEN UNCHANGED tmux
           ELSE \E s \in targets : tmux' = WithoutSession(s)
    BY DEF Kills
  <2>3. TmuxTyped
    BY DEF Sound, Types, TmuxTyped
  <2>4. tmux'.sessions \cap ClaimantsOf(id) = {} /\ tmux'.sessions \subseteq tmux.sessions
    <3>1. CASE targets = {}
      BY <2>1, <2>2, <3>1
    <3>2. CASE targets # {}
      <4>1. PICK s \in targets : tmux' = WithoutSession(s)
        BY <2>2, <3>2
      <4>2. tmux'.sessions = tmux.sessions \ {s}
        BY <2>3, <4>1, RemovedTyped DEF Removed
      <4>3. \A t \in ClaimantsOf(id) : t = s
        BY <2>1 DEF Sound, Numbered
      <4> QED
        BY <4>2, <4>3
    <3> QED
      BY <3>1, <3>2
  <2>5. ClaimantsOf(id)' = {}
    BY <1>1, <2>4 DEF ClaimantsOf
  <2>6. Stopped(p)'
    BY <1>1, <2>5 DEF Stopped
  <2>7. Quiet(p)'
    <3>1. at'[p] \in {"commit", "ok"} /\ cmd[p].container =>
            snap[p].stored = NULL \/ snap[p].stored.binding = NULL
      BY <1>4 DEF AfterSession
    <3> QED
      BY <1>1, <1>4, <2>2, <3>1 DEF Concludes, Quiet, Store!Known, Store!BindingOf
  <2> QED
    BY <1>1, <2>6, <2>7 DEF Concludes, Ready, Opened, Served
<1> QED
  BY <1>1, <1>2, <1>3, <1>4 DEF Lands, Faithful

\* The container that was stopped does not run.
LEMMA StopsContainerLands ==
  ASSUME Sound, Sincere, NEW p \in Process, StopsContainer(p)
  PROVE  Lands(p)
<1>1. /\ cmd'[p] = cmd[p] /\ Remembered(p) /\ snap[p] \in SnapRow
      /\ Undisturbed(p)' => Concludes(p)
      /\ at[p] = "stop_container" /\ cmd[p].op = "stop"
      /\ at'[p] \in {"commit", "fail", "error"}
      /\ snap'[p] = [snap[p] EXCEPT !.container = Plan!MissingContainer]
      /\ Has(cmd[p], at[p], snap[p])
  BY OwnCall, StopsContainerMove DEF Call
<1>2. /\ snap'[p].stored = snap[p].stored
      /\ snap'[p].container = Plan!MissingContainer
      /\ cmd[p].container
      /\ snap[p].stored # NULL /\ snap[p].stored.binding # NULL
  BY <1>1 DEF SnapRow, Has
<1>3. Remembered(p)'
  BY <1>1, <1>2 DEF Remembered, Plan!MissingContainer
<1>4. CASE at'[p] \in {"fail", "error"}
  BY <1>3, <1>4, PlainPlaces DEF Lands, Faithful
<1>5. ASSUME Concludes(p), at'[p] = "commit"
      PROVE  Concludes(p)'
  <2> DEFINE c == snap[p].stored.binding.container
  <2>1. /\ UNCHANGED <<db, tmux>>
        /\ docker' = [docker EXCEPT ![c] = IF @ = "running" THEN "stopped" ELSE @]
    BY DEF StopsContainer
  <2>2. Stopped(p)'
    BY <1>1, <1>5, <2>1 DEF Concludes, Stopped, ClaimantsOf
  <2>3. c \in Container
    BY <1>1, <1>2 DEF SnapRow, StoredRow, Store!BindingRow
  <2>4. docker'[c] # "running"
    <3> HIDE DEF c
    <3> QED
      BY <2>1, <2>3 DEF Sound, Types
  <2>5. Quiet(p)'
    BY <1>1, <1>2, <1>5, <2>1, <2>4
       DEF Concludes, Quiet, Store!Known, Store!BindingOf
  <2> QED
    BY <1>1, <1>5, <2>2, <2>5 DEF Concludes, Ready, Opened, Served
<1> QED
  BY <1>1, <1>3, <1>4, <1>5 DEF Lands, Faithful

\* What a recorded observation leaves as the binding of its repository.
LEMMA RecordedBinding ==
  ASSUME Sound, NEW r \in RepositoryID, NEW view \in ContainerView,
         db'.container_bindings
           = Store!Recorded(db.container_bindings, r, StateObservation(view))
  PROVE  /\ view.health = "present" =>
              /\ r \in DOMAIN db'.container_bindings
              /\ db'.container_bindings[r].container = view.container
              /\ db'.container_bindings[r].health = "present"
         /\ view.health # "present" =>
              /\ DOMAIN db'.container_bindings = DOMAIN db.container_bindings
              /\ \A x \in DOMAIN db.container_bindings :
                   db'.container_bindings[x].container
                     = db.container_bindings[x].container
         /\ \A x \in DOMAIN db'.container_bindings :
              x # r => /\ x \in DOMAIN db.container_bindings
                       /\ db'.container_bindings[x] = db.container_bindings[x]
<1> DEFINE obs == StateObservation(view)
           old == db.container_bindings
           new == db'.container_bindings
<1>1. obs.health = view.health /\ obs.container = view.container
  BY DEF StateObservation
<1>2. old \in [DOMAIN old -> Store!BindingRow]
  BY Tables
<1>3. CASE view.health = "present"
  <2>1. new = Store!With(old, r, obs)
    BY <1>1, <1>3 DEF Store!Recorded
  <2> HIDE DEF obs
  <2> QED
    BY <1>1, <1>3, <2>1 DEF Store!With
<1>4. CASE view.health # "present" /\ r \in DOMAIN old
  <2>1. new = [old EXCEPT ![r].health = view.health]
    BY <1>1, <1>4 DEF Store!Recorded
  <2> HIDE DEF obs
  <2> QED
    BY <1>2, <1>4, <2>1 DEF Store!BindingRow
<1>5. CASE view.health # "present" /\ r \notin DOMAIN old
  BY <1>1, <1>5 DEF Store!Recorded
<1> QED
  BY <1>3, <1>4, <1>5

\* After a call, too, every binding is there.
LEMMA BindingsThere ==
  ASSUME Sound, NEW p \in Process, Call(p) \/ CallFails(p)
  PROVE  /\ DOMAIN db'.container_bindings \subseteq RepositoryID
         /\ \A r \in DOMAIN db'.container_bindings :
              /\ db'.container_bindings[r] # NULL
              /\ db'.container_bindings[r].container \in Container
<1>1. StoreSound'
  BY CallsTransact, TransactionKeeps DEF Sound
<1>2. /\ db'.container_bindings
           \in [DOMAIN db'.container_bindings -> Store!BindingRow]
      /\ DOMAIN db'.container_bindings \subseteq RepositoryID
  BY <1>1 DEF StoreSound, Store!TypeOK, Store!IsDatabase, Store!IsTable
<1> QED
  BY <1>2, RecordsAssumption DEF Store!BindingRow

\* A commit leaves what an open or a stop found, and its binding.
LEMMA CommitsLand ==
  ASSUME Sound, Sincere, NEW p \in Process, Commits(p)
  PROVE  Lands(p)
<1>1. /\ cmd'[p] = cmd[p] /\ Remembered(p)
      /\ Undisturbed(p)' => Concludes(p)
      /\ snap' = snap /\ UNCHANGED <<tmux, docker>> /\ cmd[p].repo \in RepositoryID
      /\ cmd[p] # NULL /\ cmd[p].ws \in Resolvable
  BY OwnCall, StoreCallsMove, OwnRecord, Stepped DEF Call, Commits
<1>2. /\ at[p] = "commit" /\ at'[p] = "ok" /\ cmd[p].op \in {"open", "stop"}
      /\ cmd[p].op = "open" => cmd[p].digest # NULL
  BY Stepped, AtWork, CommandsAssumption DEF Commits
<1>3. Remembered(p)'
  BY <1>1, RemembersOn
<1> DEFINE id == cmd[p].ws.id
           digest == IF snap[p].session = "create" THEN cmd[p].digest ELSE NULL
<1>4. /\ DOMAIN db'.workspaces = DOMAIN db.workspaces /\ id \in DOMAIN db.workspaces
      /\ db'.workspaces[id].actual_session = db.workspaces[id].actual_session
      /\ digest # NULL => db'.workspaces[id].applied_digest = digest
  <2>1. CASE Store!RecordOperation(id, "ok") /\ digest = NULL
    BY <2>1, Tables DEF Store!RecordOperation, Store!Known
  <2>2. CASE \E obs : Store!CommitReconciliation(id, digest, obs, "ok")
    <3>1. PICK obs, d : d = digest /\ Store!CommitReconciliation(id, d, obs, "ok")
      BY <2>2
    <3> HIDE DEF digest
    <3> QED
      BY <3>1, CommitWrites
  <2> QED
    BY <2>1, <2>2 DEF Commits
<1>5. ASSUME Concludes(p), cmd[p].op = "open"
      PROVE  Concludes(p)'
  <2>1. HasSession(cmd[p].ws)'
    BY <1>1, <1>2, <1>4, <1>5 DEF Concludes, Opened, HasSession, RowOf
  <2>2. Opened(p)'
    BY <1>1, <1>2, <1>4, <1>5, <2>1 DEF Opened, RowOf
  <2>3. Served(p)'
    <3>1. CASE cmd[p].repo \in Containerized
      <4>1. /\ snap[p].container # NULL /\ snap[p].container.health = "present"
            /\ docker[snap[p].container.container] = "running"
        BY <1>2, <1>5, <3>1 DEF Concludes, Ready
      <4>2. /\ snap[p].container \in ContainerView
            /\ db'.container_bindings
                 = Store!Recorded(db.container_bindings, cmd[p].repo,
                                  StateObservation(snap[p].container))
        BY <4>1, OwnRecord
      <4>3. /\ cmd[p].repo \in DOMAIN db'.container_bindings
            /\ db'.container_bindings[cmd[p].repo].container
                 = snap[p].container.container
            /\ db'.container_bindings[cmd[p].repo].health = "present"
        BY <1>1, <4>1, <4>2, RecordedBinding
      <4>4. db'.container_bindings[cmd[p].repo] # NULL
        BY <4>3, BindingsThere DEF Call
      <4>5. BindingPresent(cmd[p].repo)'
        BY <1>1, <4>1, <4>3, <4>4 DEF BindingPresent, Store!BindingOf
      <4> QED
        BY <1>1, <4>5 DEF Served
    <3>2. CASE cmd[p].repo \notin Containerized
      BY <1>1, <3>2 DEF Served
    <3> QED
      BY <3>1, <3>2
  <2> QED
    BY <1>1, <1>2, <1>5, <2>2, <2>3 DEF Concludes, Ready, Stopped, Quiet
<1>6. ASSUME Concludes(p), cmd[p].op = "stop"
      PROVE  Concludes(p)'
  <2>1. Stopped(p)'
    BY <1>1, <1>2, <1>6 DEF Concludes, Stopped, ClaimantsOf
  <2>2. /\ DOMAIN db'.container_bindings = DOMAIN db.container_bindings
        /\ \A x \in DOMAIN db.container_bindings :
             db'.container_bindings[x].container = db.container_bindings[x].container
    <3>1. CASE snap[p].container = NULL
      BY <3>1, OwnRecord
    <3>2. CASE snap[p].container # NULL
      <4>1. snap[p].container.health # "present"
        BY <1>1, <1>6, <3>2 DEF Remembered, Plan!MissingContainer
      <4> QED
        BY <1>1, <3>2, <4>1, OwnRecord, RecordedBinding
    <3> QED
      BY <3>1, <3>2
  <2>3. Quiet(p)'
    <3> DEFINE r == cmd[p].repo
               now == Store!BindingOf(r)
               new == IF r \in DOMAIN db'.container_bindings
                      THEN db'.container_bindings[r] ELSE NULL
    <3>1. /\ now = NULL => new = NULL
          /\ now # NULL => new # NULL /\ new.container = now.container
      <4>1. r \in DOMAIN db.container_bindings => now # NULL
        BY Tables, RecordsAssumption DEF Store!BindingOf
      <4> QED
        BY <2>2, <4>1, BindingsThere DEF Call, Store!BindingOf
    <3>2. Store!BindingOf(r)' = new
      BY <1>1 DEF Store!BindingOf
    <3> HIDE DEF now, new
    <3>3. cmd[p].container =>
            /\ snap[p].stored = NULL => ~Store!Known(id)
            /\ snap[p].stored # NULL /\ snap[p].stored.binding = NULL => now = NULL
            /\ snap[p].stored # NULL /\ snap[p].stored.binding # NULL =>
                 /\ now # NULL /\ now.container = snap[p].stored.binding.container
                 /\ docker[snap[p].stored.binding.container] # "running"
      BY <1>2, <1>6 DEF Concludes, Quiet, now
    <3>4. (Store!Known(id))' <=> Store!Known(id)
      BY <1>1, <1>4 DEF Store!Known
    <3> QED
      BY <1>1, <3>1, <3>2, <3>3, <3>4 DEF Quiet
  <2> QED
    BY <1>1, <1>2, <1>6, <2>1, <2>3 DEF Concludes, Ready, Opened, Served
<1> QED
  BY <1>1, <1>2, <1>3, <1>5, <1>6 DEF Lands, Faithful

\* What an autostart records is the container it found or started.
LEMMA RecordsBindingLands ==
  ASSUME Sound, Sincere, NEW p \in Process, RecordsBinding(p)
  PROVE  Lands(p)
<1>1. /\ cmd'[p] = cmd[p] /\ Remembered(p)
      /\ Undisturbed(p)' => Concludes(p)
      /\ snap' = snap /\ UNCHANGED <<tmux, docker>> /\ cmd[p].repo \in RepositoryID
      /\ cmd[p] # NULL /\ Has(cmd[p], at[p], snap[p])
  BY OwnCall, StoreCallsMove, OwnRecord DEF Call
<1>2. at[p] = "record" /\ at'[p] = "ok" /\ cmd[p].op = "autostart"
  BY Stepped DEF RecordsBinding
<1>3. Remembered(p)'
  BY <1>1, RemembersOn
<1>4. ASSUME Concludes(p) PROVE Concludes(p)'
  <2>1. /\ snap[p].container # NULL /\ snap[p].container.health = "present"
        /\ docker[snap[p].container.container] = "running"
    BY <1>1, <1>2, <1>4 DEF Concludes, Ready, Has
  <2>2. /\ snap[p].container \in ContainerView
        /\ db'.container_bindings
             = Store!Recorded(db.container_bindings, cmd[p].repo,
                              StateObservation(snap[p].container))
    BY <2>1, OwnRecord
  <2>3. /\ cmd[p].repo \in DOMAIN db'.container_bindings
        /\ db'.container_bindings[cmd[p].repo].container = snap[p].container.container
        /\ db'.container_bindings[cmd[p].repo].health = "present"
    BY <1>1, <2>1, <2>2, RecordedBinding
  <2>4. db'.container_bindings[cmd[p].repo] # NULL
    BY <2>3, BindingsThere DEF Call
  <2>5. BindingPresent(cmd[p].repo)'
    BY <1>1, <2>1, <2>3, <2>4 DEF BindingPresent, Store!BindingOf
  <2>6. Served(p)'
    BY <1>1, <2>5 DEF Served
  <2> QED
    BY <1>1, <1>2, <2>6 DEF Concludes, Ready, Opened, Stopped, Quiet
<1> QED
  BY <1>1, <1>3, <1>4 DEF Lands, Faithful

\* Every call lands.
LEMMA CallsLand ==
  ASSUME Sound, Sincere, NEW p \in Process, Call(p) \/ CallFails(p)
  PROVE  Lands(p)
BY StoreCallsLand, ReadsLand, ReadsRepositoryLands, OpenLooksLand, ProbesLand,
   ReprobesLand, BeginsUpLands, EndsUpLands, AdoptsLand, AllocatesLand,
   CreationLands, ChecksSiblingsLands, StopLooksLand, KillsLand,
   StopsContainerLands, CommitsLand, RecordsBindingLands DEF Call

-----------------------------------------------------------------------------
(* Every step keeps the commands sincere *)

\* A call leaves every binding with a container of its own repository.
LEMMA BindingsStayOwned ==
  ASSUME Sound, Sincere, NEW q \in Process, Call(q) \/ CallFails(q)
  PROVE  BindingsOwned'
<1>1. BindingsOwned /\ Remembered(q)
  BY DEF Sincere
<1>2. CASE db'.container_bindings = db.container_bindings
  BY <1>1, <1>2 DEF BindingsOwned
<1>3. CASE Registers(q)
  <2>1. PICK ws \in Resolvable, d \in Digest : Store!RegisterWorkspace(ws, d)
    BY <1>3, RegistersOwn, AtWork
  <2>2. \A r \in DOMAIN db'.container_bindings :
          /\ r \in DOMAIN db.container_bindings
          /\ db'.container_bindings[r] = db.container_bindings[r]
    BY <2>1, RegistrationFrames DEF Sound
  <2> QED
    BY <1>1, <2>2 DEF BindingsOwned
<1>4. CASE /\ phase[q] = "held" /\ at[q] # "over" /\ cmd[q].repo \in RepositoryID
           /\ snap[q].container # NULL
           /\ db'.container_bindings
                = Store!Recorded(db.container_bindings, cmd[q].repo,
                                 StateObservation(snap[q].container))
  <2>1. cmd[q] # NULL /\ snap[q].container \in ContainerView
    BY <1>4, AtWork DEF SnapRow
  <2>2. snap[q].container.health = "present"
          => OwnerOf[snap[q].container.container] = cmd[q].repo
    BY <1>1, <1>4, <2>1 DEF Remembered
  <2> QED
    BY <1>1, <1>4, <2>1, <2>2, RecordedBinding DEF BindingsOwned
<1>5. at[q] # "over"
  BY CallsMove DEF Moved
<1> QED
  BY <1>1, <1>2, <1>3, <1>4, <1>5, BindingsChange

\* The server never has infinitely many sessions.
LEMMA SessionsStayFinite ==
  ASSUME Sound, [Next]_vars, IsFiniteSet(tmux.sessions)
  PROVE  IsFiniteSet(tmux'.sessions)
<1>1. TmuxTyped
  BY DEF Sound, Types, TmuxTyped
<1>2. ASSUME NEW s, Removed(s) PROVE IsFiniteSet(tmux'.sessions)
  BY <1>1, <1>2, RemovedTyped, FS_Subset
<1>3. ASSUME NEW s, NEW t, Altered(s, t) PROVE IsFiniteSet(tmux'.sessions)
  <2>1. tmux'.sessions = (tmux.sessions \ {s}) \cup {t}
    BY <1>1, <1>3, AlteredTyped
  <2>2. IsFiniteSet(tmux.sessions \ {s})
    BY FS_Subset
  <2> QED
    BY <2>1, <2>2, FS_AddElement
<1>4. ASSUME NEW n, NEW keys \in SessionKeys, Added(n, keys)
      PROVE  IsFiniteSet(tmux'.sessions)
  <2>1. PICK new : tmux'.sessions = tmux.sessions \cup {new}
    BY <1>1, <1>4, AddedTyped
  <2> QED
    BY <2>1, FS_AddElement
<1> QED
  BY <1>2, <1>3, <1>4, TmuxSteps

\* What one process may remember and conclude.
OfOne(p) == Remembered(p) /\ Waiting(p) /\ Bound(p) /\ Faithful(p)

\* A call keeps every process's.
LEMMA CallsKeepSincere ==
  ASSUME Sound, Locks!MutualExclusion, Sincere, AutostartsResolve,
         NEW q \in Process, Call(q) \/ CallFails(q), NEW p \in Process
  PROVE  OfOne(p)'
<1>1. /\ Moved(q) /\ disturbed' = disturbed /\ UNCHANGED lockVars
  <2>1. disturbed' = disturbed
    BY DEF Call, CallFails, Step, Answers, Registers, Binds, Reads,
       ReadsRepository, OpenLooks, Probes, Reprobes, BeginsUp, EndsUp, Adopts,
       Allocates, LooksForOccupant, Creates, Confirms, ChecksSiblings, StopLooks,
       Kills, StopsContainer, Commits, RecordsBinding, RecordsFailure
  <2> QED
    BY <2>1, CallsMove DEF Moved
<1>2. CASE p = q
  <2>1. phase'[p] = "held"
    BY <1>2, OwnCall
  <2> QED
    BY <1>2, <2>1, CallsLand, BoundStays DEF Lands, OfOne, Waiting
<1>3. CASE p # q
  <2>1. UNCHANGED <<cmd[p], at[p], snap[p], phase[p]>>
    BY <1>1, <1>3 DEF Moved, lockVars, Sound, Types
  <2>2. OfOne(p) /\ BindingsOwned
    BY DEF Sincere, OfOne
  <2>3. Remembered(p)' /\ Waiting(p)'
    BY <2>1, <2>2 DEF OfOne, Remembered, Waiting
  <2>4. CASE phase[p] = "held" /\ at[p] # "over"
    <3>1. Framed(cmd[p])
      BY <1>3, <2>4, OthersFrame
    <3> QED
      BY <1>1, <2>1, <2>2, <2>3, <2>4, <3>1, FrameKeeps DEF OfOne
  <2>5. CASE phase[p] # "held" \/ at[p] = "over"
    BY <2>1, <2>3, <2>5 DEF OfOne, Bound, Faithful, Undisturbed
  <2> QED
    BY <2>4, <2>5
<1> QED
  BY <1>2, <1>3

\* So do the steps that only take or give back a lock, begin or end.
LEMMA OthersKeepSincere ==
  ASSUME Sound, Locks!TypeOK, Sincere, NEW q \in Process,
         Starts(q) \/ TakesLock(q) \/ GivesUp(q) \/ Releases(q) \/ Crashes(q),
         NEW p \in Process
  PROVE  OfOne(p)'
<1>1. /\ cmd \in [Process -> Commands \cup {NULL}]
      /\ at \in [Process -> Places] /\ snap \in [Process -> SnapRow]
      /\ phase \in [Process -> Locks!Phase] /\ want \in [Process -> Locks!Footprint]
      /\ Prepared(p) /\ OfOne(p) /\ BindingsOwned
  BY DEF Sound, Types, Locks!TypeOK, Sincere, OfOne
<1>2. UNCHANGED <<db, tmux, docker>>
  BY OthersLeaveWorld
<1>3. CASE p # q
  <2>1. /\ UNCHANGED <<cmd[p], at[p], snap[p], phase[p]>>
        /\ p \in disturbed => p \in disturbed'
    BY <1>1, <1>3 DEF Starts, TakesLock, GivesUp, Releases, Crashes, Forgets, Goto,
       Locks!Begin, Locks!TakeRepository, Locks!TakeWorkspace, Locks!TimeOut,
       Locks!GiveUp, Locks!Finish, Locks!UnlockWorkspace, Locks!UnlockRepository,
       Locks!Crash, Locks!Enter
  <2>2. Remembered(p)' /\ Waiting(p)'
    BY <1>1, <2>1 DEF OfOne, Remembered, Waiting
  <2>3. CASE phase[p] = "held" /\ at[p] # "over"
    <3>1. Framed(cmd[p])
      BY <1>2 DEF Framed, Store!Known
    <3> QED
      BY <1>1, <2>1, <2>2, <2>3, <3>1, FrameKeeps DEF OfOne
  <2>4. CASE phase[p] # "held" \/ at[p] = "over"
    BY <2>1, <2>2, <2>4 DEF OfOne, Bound, Faithful, Undisturbed
  <2> QED
    BY <2>3, <2>4
<1>4. CASE p = q /\ Starts(p)
  <2>1. /\ phase[p] = "idle" /\ phase'[p] \in {"repository", "workspace"}
        /\ snap' = snap /\ at'[p] = Entry(cmd'[p])
    BY <1>1, <1>4 DEF Starts, Goto, Locks!Begin, Locks!Enter
  <2>2. snap'[p].stored = NULL /\ snap'[p].container = NULL
    BY <1>1, <2>1 DEF Prepared, NoSnap
  <2> QED
    BY <2>1, <2>2 DEF OfOne, Remembered, Waiting, Bound, Faithful, Undisturbed
<1>5. CASE p = q /\ TakesLock(p)
  <2>1. /\ UNCHANGED <<cmd, at, snap>> /\ phase[p] \in {"repository", "workspace"}
    BY <1>5 DEF TakesLock, Locks!TakeRepository, Locks!TakeWorkspace
  <2>2. at'[p] = Entry(cmd[p]) /\ cmd' = cmd
    BY <1>1, <2>1 DEF OfOne, Waiting
  <2>3. Remembered(p)' /\ Waiting(p)'
    BY <1>1, <2>1, <2>2 DEF OfOne, Remembered, Waiting
  <2>4. at'[p] \in {"register", "read"} /\ (cmd[p].op = "open" => at'[p] = "register")
    BY <2>2 DEF Entry
  <2> QED
    BY <2>2, <2>3, <2>4, PlainPlaces DEF OfOne, Bound, Faithful
<1>6. CASE p = q /\ phase'[p] = "idle" /\ Forgets(p)
  <2>1. cmd'[p] = NULL
    BY <1>1, <1>6 DEF Forgets
  <2> QED
    BY <1>6, <2>1 DEF OfOne, Remembered, Waiting, Bound, Faithful, Undisturbed
<1>7. CASE /\ p = q /\ UNCHANGED <<cmd, at, snap>>
           /\ phase'[p] \in {"unlock_workspace", "unlock_repository"}
  BY <1>1, <1>7 DEF OfOne, Remembered, Waiting, Bound, Faithful, Undisturbed
<1>8. CASE p = q /\ (GivesUp(p) \/ Releases(p) \/ Crashes(p))
  <2>1. phase'[p] \in {"idle", "unlock_workspace", "unlock_repository"}
    BY <1>1, <1>8 DEF GivesUp, Releases, Crashes, Locks!TimeOut, Locks!GiveUp,
       Locks!Finish, Locks!UnlockWorkspace, Locks!UnlockRepository, Locks!Crash,
       Locks!Enter
  <2>2. IF phase'[p] = "idle" THEN Forgets(p) ELSE UNCHANGED <<cmd, at, snap>>
    BY <1>1, <1>8 DEF GivesUp, Releases, Crashes, Locks!Crash, Locks!Enter
  <2> QED
    BY <1>6, <1>7, <1>8, <2>1, <2>2
<1> QED
  BY <1>3, <1>4, <1>5, <1>8

\* A user's act disturbs every command there is.
LEMMA UsersKeepSincere ==
  ASSUME Sound, Locks!TypeOK, Sincere, User, NEW p \in Process
  PROVE  OfOne(p)'
<1>1. /\ UNCHANGED <<phase, cmd, at, snap>> /\ disturbed' = disturbed \cup Active
  BY DEF User, ByHand, lockVars, UserKills, UserRenames, UserOccupies, UserRetags,
     UserActsOnDocker, UserLosesDatabase
<1>2. OfOne(p)
  BY DEF Sincere, OfOne
<1>3. Remembered(p)' /\ Waiting(p)'
  BY <1>1, <1>2 DEF OfOne, Remembered, Waiting
<1>4. Faithful(p)'
  BY <1>1 DEF Faithful, Undisturbed, Active
<1>5. Bound(p)'
  <2>1. CASE UNCHANGED db
    BY <1>1, <1>2, <2>1 DEF OfOne, Bound, RowOf, Store!Known
  <2>2. CASE UserLosesDatabase
    BY <1>1, <2>2 DEF Bound, UserLosesDatabase, Active
  <2> QED
    BY <2>1, <2>2, UsersKeepCommands
<1> QED
  BY <1>3, <1>4, <1>5 DEF OfOne

\* Every step keeps the commands sincere.
LEMMA SincereStays ==
  ASSUME Sound, Locks!TypeOK, Locks!MutualExclusion, AutostartsResolve,
         ExitEmpty => "kill" \notin Disturbances, [Next]_vars, Sincere
  PROVE  Sincere'
<1>1. Aims' /\ ContainersSafe' /\ IsFiniteSet(tmux'.sessions)
  BY AimsStay, ContainersStaySafe, SessionsStayFinite DEF Sincere
<1>2. BindingsOwned'
  <2>1. CASE UNCHANGED db
    BY <2>1 DEF Sincere, BindingsOwned
  <2>2. CASE UserLosesDatabase
    BY <2>2 DEF UserLosesDatabase, BindingsOwned, Store!EmptyDatabase, Store!NoRows
  <2> QED
    BY <2>1, <2>2, BindingsStayOwned, UsersKeepCommands, OthersLeaveWorld, Steps
       DEF vars
<1>3. ASSUME NEW p \in Process PROVE OfOne(p)'
  <2>1. CASE UNCHANGED vars
    <3>1. OfOne(p) /\ UNCHANGED <<db, tmux, docker, phase, cmd, at, snap, disturbed>>
      BY <2>1 DEF Sincere, OfOne, vars, lockVars
    <3>2. Remembered(p)' /\ Waiting(p)' /\ Bound(p)'
      BY <3>1 DEF OfOne, Remembered, Waiting, Bound, RowOf, Store!Known
    <3>3. CASE phase[p] = "held" /\ at[p] # "over"
      <4>1. Framed(cmd[p]) /\ BindingsOwned
        BY <3>1 DEF Framed, Store!Known, Sincere
      <4> QED
        BY <3>1, <3>2, <3>3, <4>1, FrameKeeps DEF OfOne
    <3>4. CASE phase[p] # "held" \/ at[p] = "over"
      BY <3>1, <3>2, <3>4 DEF OfOne, Faithful, Undisturbed
    <3> QED
      BY <3>3, <3>4
  <2> QED
    BY <2>1, CallsKeepSincere, OthersKeepSincere, UsersKeepSincere, Steps
<1> QED
  BY <1>1, <1>2, <1>3 DEF Sincere, OfOne

\* At first nobody has begun, and the databases there may be are honest.
LEMMA SincereAtFirst ==
  ASSUME Init,
         \A d \in InitialDatabases : \A r \in DOMAIN d.container_bindings :
           OwnerOf[d.container_bindings[r].container] = r
  PROVE  Sincere
<1>1. Aims
  BY DEF Init, Aims, Standing, Aimed
<1>2. ContainersSafe
  BY DEF Init, ContainersSafe, Lone, Exists, Alone
<1>3. BindingsOwned /\ IsFiniteSet(tmux.sessions)
  BY SessionsAssumption DEF Init, BindingsOwned
<1>4. \A p \in Process : Remembered(p) /\ Waiting(p) /\ Bound(p) /\ Faithful(p)
  BY DEF Init, Locks!Init, Remembered, Waiting, Bound, Faithful, Undisturbed
<1> QED
  BY <1>1, <1>2, <1>3, <1>4 DEF Sincere

\* A command that concluded what it had to has achieved what it reports.
LEMMA SincereSucceed ==
  ASSUME Sound, Sincere
  PROVE  SuccessIsTrue
<1> SUFFICES ASSUME NEW p \in Process, phase[p] = "held", at[p] = "ok",
                    p \notin disturbed
             PROVE  Achieved(cmd[p], snap[p].session = "create")
  BY DEF SuccessIsTrue
<1>1. Ready(p) /\ Opened(p) /\ Stopped(p) /\ Quiet(p) /\ Served(p) /\ Bound(p)
  BY DEF Sincere, Faithful, Undisturbed, Concludes
<1>2. cmd[p] # NULL /\ cmd[p].op \in {"open", "stop", "bind", "autostart"}
  BY AtWork DEF CommandShape
<1>3. CASE cmd[p].op = "open"
  <2>1. Store!Known(cmd[p].ws.id)
    BY <1>2, <1>3 DEF Sound, Prepared
  <2> QED
    BY <1>1, <1>3, <2>1 DEF Achieved, Opened, HasSession, Served, Bound
<1>4. CASE cmd[p].op = "stop"
  BY <1>1, <1>4 DEF Achieved, Stopped, Quiet
<1>5. CASE cmd[p].op = "bind"
  BY <1>1, <1>5 DEF Achieved, Bound
<1>6. CASE cmd[p].op = "autostart"
  BY <1>1, <1>6 DEF Achieved, Served
<1> QED
  BY <1>2, <1>3, <1>4, <1>5, <1>6

\* A command that reports success tells the truth while it still holds its
\* locks, unless a user acted meanwhile: of its session, its container, its
\* applied digest and its bind, whatever the other commands do, fail at or die
\* of (ensure.go, stop.go, bind.go, autostart.go).  The databases at the start
\* bind each repository to a container of its own; autostart works on the IDs
\* that repositories resolve to; and users who kill sessions by hand find a
\* server that outlives its last one.
THEOREM CommandsTellTheTruth ==
  ASSUME ExitEmpty => "kill" \notin Disturbances, AutostartsResolve,
         \A d \in InitialDatabases : \A r \in DOMAIN d.container_bindings :
           OwnerOf[d.container_bindings[r].container] = r
  PROVE  Spec => []SuccessIsTrue
<1>1. Init => Sincere
  BY SincereAtFirst
<1>2. Sound /\ Locks!TypeOK /\ Locks!MutualExclusion /\ Sincere /\ [Next]_vars
        => Sincere'
  BY SincereStays
<1>3. Sound /\ Sincere => SuccessIsTrue
  BY SincereSucceed
<1> QED
  BY <1>1, <1>2, <1>3, CommandsSoundly, CommandsLockTyped, CommandsExclude, PTL
     DEF Spec
=============================================================================
