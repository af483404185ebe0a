------------------------------ MODULE StateStore -----------------------------
(***************************************************************************)
(* The SQLite state database (internal/state).  Every mutating method of   *)
(* Store is one immediate transaction, so each is one action on db.        *)
(*                                                                         *)
(* A table is a function from the primary keys present to their rows.      *)
(* Timestamps, slugs and error summaries are left out, and a container     *)
(* binding's kind, ID, user and working directory are one identity.        *)
(* An absent nullable column is NULL.                                      *)
(***************************************************************************)
EXTENDS Naturals, Sequences, FiniteSets

CONSTANTS
  RepositoryID, \* keys of repositories
  WorkspaceID,  \* keys of workspaces, the stale ones of schema 1 included
  Root,         \* canonical repository roots
  Session,      \* session components
  Name,         \* tmux session names
  Candidates,   \* the names AllocateSessionName tries for each proposed name
  Digest,       \* configuration digests, the empty one included
  Container,    \* container identities
  Bind,         \* directories a session may be bound to
  NULL

\* The proposed name comes first, then numbered variants, all different.
CandidatesDiffer ==
  \A n \in DOMAIN Candidates :
    /\ n \in Name
    /\ Candidates[n] \in Seq(Name)
    /\ Len(Candidates[n]) > 0
    /\ Candidates[n][1] = n
    /\ \A i, j \in 1..Len(Candidates[n]) :
         Candidates[n][i] = Candidates[n][j] => i = j

NullIsNoValue ==
  NULL \notin UNION {RepositoryID, WorkspaceID, Root, Session, Name, Digest,
                     Container, Bind}

ASSUME CandidatesAssumption == CandidatesDiffer
ASSUME NullAssumption == NullIsNoValue

VARIABLE db

\* A resolved workspace (internal/resolve): what registration is called with.
Identity == [id : WorkspaceID, repository_id : RepositoryID, repo_root : Root,
             session : Session, session_name : DOMAIN Candidates]

RepositoryRow == [repo_root : Root]

WorkspaceRow ==
  [repository_id : RepositoryID, session : Session,
   proposed_session : DOMAIN Candidates, actual_session : Name \cup {NULL},
   desired_digest : Digest \cup {NULL}, applied_digest : Digest \cup {NULL},
   bind : Bind \cup {NULL}]

Health == {"present", "missing", "unknown"}

BindingRow == [container : Container, health : Health]

\* One observation to record: only a present one carries an identity.
Observation == [container : Container, health : {"present"}]
                 \cup [container : {NULL}, health : Health]

\* The last operation of a workspace, down to its outcome.
OperationRow == {"ok", "failed"}

NoRows == [k \in {} |-> NULL]

EmptyDatabase == [repositories |-> NoRows, workspaces |-> NoRows,
                  container_bindings |-> NoRows, last_operations |-> NoRows]

-----------------------------------------------------------------------------
(* Rows and projections *)

Without(table, keys) == [k \in DOMAIN table \ keys |-> table[k]]

With(table, k, row) ==
  [x \in DOMAIN table \cup {k} |-> IF x = k THEN row ELSE table[x]]

Known(id) == id \in DOMAIN db.workspaces

KnownRepository(r) == r \in DOMAIN db.repositories

BindingOf(r) ==
  IF r \in DOMAIN db.container_bindings THEN db.container_bindings[r] ELSE NULL

\* The joined record of a registered workspace: the container is its
\* repository's binding, whichever session recorded it.
Record(id) == [row |-> db.workspaces[id],
               binding |-> BindingOf(db.workspaces[id].repository_id)]

\* The UNIQUE constraint on actual_session.
NameTaken(n, id) ==
  \E other \in DOMAIN db.workspaces \ {id} :
    db.workspaces[other].actual_session = n

-----------------------------------------------------------------------------
(* Registration *)

\* Repositories recorded at the same root under another ID, and what hangs
\* from them.
StaleRepositories(ws) ==
  {r \in DOMAIN db.repositories :
     db.repositories[r].repo_root = ws.repo_root /\ r # ws.repository_id}

OnRepositories(rs) ==
  {w \in DOMAIN db.workspaces : db.workspaces[w].repository_id \in rs}

\* The row that already holds (repository_id, session) under another ID.
StaleIDs(ws) ==
  {w \in DOMAIN db.workspaces \ OnRepositories(StaleRepositories(ws)) :
     /\ db.workspaces[w].repository_id = ws.repository_id
     /\ db.workspaces[w].session = ws.session
     /\ w # ws.id}

\* Mutant: the stale row is deleted instead of re-keyed.
RekeyedByDeleting(table, stale, id) == Without(table, stale)

\* UPDATE workspaces SET id, with ON UPDATE CASCADE behind it.
Rekeyed(table, stale, id) ==
  IF stale \cap DOMAIN table = {} THEN table
  ELSE With(Without(table, stale), id, table[CHOOSE w \in stale : TRUE])

FreshRow(ws) ==
  [repository_id |-> ws.repository_id, session |-> ws.session,
   proposed_session |-> ws.session_name, actual_session |-> NULL,
   desired_digest |-> NULL, applied_digest |-> NULL, bind |-> NULL]

\* What the upsert refreshes; the assigned name, the applied digest and the
\* bind stay as they are.
Refreshed(row, ws, desired) ==
  [row EXCEPT !.repository_id = ws.repository_id, !.session = ws.session,
              !.proposed_session = ws.session_name, !.desired_digest = desired]

RegisterWorkspace(ws, desired) ==
  LET gone == StaleRepositories(ws)
      dead == OnRepositories(gone)
      stale == StaleIDs(ws)
      kept == Rekeyed(Without(db.workspaces, dead), stale, ws.id)
      row == IF ws.id \in DOMAIN kept THEN kept[ws.id] ELSE FreshRow(ws)
  IN db' = [repositories |->
              With(Without(db.repositories, gone), ws.repository_id,
                   [repo_root |-> ws.repo_root]),
            workspaces |-> With(kept, ws.id, Refreshed(row, ws, desired)),
            container_bindings |-> Without(db.container_bindings, gone),
            last_operations |->
              Rekeyed(Without(db.last_operations, dead), stale, ws.id)]

\* DELETE FROM repositories, and the cascade behind it.
DropRepository(r) ==
  LET dead == OnRepositories({r})
  IN db' = [repositories |-> Without(db.repositories, {r}),
            workspaces |-> Without(db.workspaces, dead),
            container_bindings |-> Without(db.container_bindings, {r}),
            last_operations |-> Without(db.last_operations, dead)]

-----------------------------------------------------------------------------
(* Session names *)

\* AllocateSessionName returns name; NULL is the error after the last
\* candidate.  A recorded name is returned as it is.
AllocateSessionName(id, name) ==
  /\ Known(id)
  /\ LET row == db.workspaces[id]
         names == Candidates[row.proposed_session]
         free == {i \in DOMAIN names : ~NameTaken(names[i], id)}
     IN \/ /\ row.actual_session # NULL
           /\ name = row.actual_session
           /\ UNCHANGED db
        \/ /\ row.actual_session = NULL
           /\ free = {}
           /\ name = NULL
           /\ UNCHANGED db
        \/ /\ row.actual_session = NULL
           /\ \E i \in free :
                /\ \A j \in free : i <= j
                /\ name = names[i]
           /\ db' = [db EXCEPT !.workspaces[id].actual_session = name]

\* Mutant: the recorded names of other workspaces are not consulted.
AdoptSessionNameUnchecked(id, name) ==
  /\ Known(id)
  /\ db' = [db EXCEPT !.workspaces[id].actual_session = name]

\* AdoptSessionName, when the UNIQUE constraint lets it.
AdoptSessionName(id, name) ==
  /\ Known(id)
  /\ ~NameTaken(name, id)
  /\ db' = [db EXCEPT !.workspaces[id].actual_session = name]

-----------------------------------------------------------------------------
(* Observations and outcomes *)

\* Mutant: every observation replaces the binding.
RecordedAlways(bindings, r, obs) == With(bindings, r, obs)

\* recordContainer inside a transaction: a present observation replaces the
\* binding, the others change the health of a binding that exists.
Recorded(bindings, r, obs) ==
  IF obs.health = "present" THEN With(bindings, r, obs)
  ELSE IF r \in DOMAIN bindings THEN [bindings EXCEPT ![r].health = obs.health]
  ELSE bindings

\* Mutant: nothing is asked of a present observation.
RecordableAlways(obs) == TRUE

\* A present observation without a container is refused.
Recordable(obs) == obs.health = "present" => obs.container # NULL

RecordContainerObservation(r, obs) ==
  /\ KnownRepository(r)
  /\ Recordable(obs)
  /\ db' = [db EXCEPT !.container_bindings = Recorded(@, r, obs)]

RecordOperation(id, op) ==
  /\ Known(id)
  /\ db' = [db EXCEPT !.last_operations = With(@, id, op)]

\* The applied digest, the container and the outcome in one transaction; a
\* NULL digest or observation leaves its columns alone.
CommitReconciliation(id, digest, obs, op) ==
  /\ Known(id)
  /\ obs # NULL => Recordable(obs)
  /\ db' = [db EXCEPT
       !.workspaces[id].applied_digest = IF digest = NULL THEN @ ELSE digest,
       !.container_bindings =
         IF obs = NULL THEN @
         ELSE Recorded(@, db.workspaces[id].repository_id, obs),
       !.last_operations = With(@, id, op)]

SetBind(id, bind) ==
  /\ Known(id)
  /\ db' = [db EXCEPT !.workspaces[id].bind = bind]

-----------------------------------------------------------------------------
(***************************************************************************)
(* The store on its own: any transaction of any caller, in any order.      *)
(* The commands of module Controller call the same actions in the order    *)
(* the code does.                                                          *)
(***************************************************************************)
CONSTANTS
  Resolvable,       \* the workspaces resolution can produce
  InitialDatabases  \* databases an installation may start from

\* Both IDs are digests, of the root and of the root with the session
\* (internal/resolve), and distinct texts have distinct digests.
IDsAreDigests ==
  /\ Resolvable \subseteq Identity
  /\ \A v, w \in Resolvable :
       /\ v.repository_id = w.repository_id <=> v.repo_root = w.repo_root
       /\ v.id = w.id <=> v.repo_root = w.repo_root /\ v.session = w.session

ASSUME ResolvableAssumption == IDsAreDigests

Init == db \in InitialDatabases

Register == \E ws \in Resolvable, d \in Digest : RegisterWorkspace(ws, d)

Drop == \E r \in RepositoryID : KnownRepository(r) /\ DropRepository(r)

Allocate == \E w \in WorkspaceID, n \in Name \cup {NULL} : AllocateSessionName(w, n)

Adopt == \E w \in WorkspaceID, n \in Name : AdoptSessionName(w, n)

Observe ==
  \E r \in RepositoryID, obs \in Observation : RecordContainerObservation(r, obs)

Operate == \E w \in WorkspaceID, op \in OperationRow : RecordOperation(w, op)

Commit ==
  \E w \in WorkspaceID, d \in Digest \cup {NULL}, op \in OperationRow,
     obs \in Observation \cup {NULL} : CommitReconciliation(w, d, obs, op)

Rebind == \E w \in WorkspaceID, b \in Bind \cup {NULL} : SetBind(w, b)

Next == \/ Register \/ Drop \/ Allocate \/ Adopt
        \/ Observe \/ Operate \/ Commit \/ Rebind

Spec == Init /\ [][Next]_db

-----------------------------------------------------------------------------

IsTable(table, keys, rows) ==
  DOMAIN table \subseteq keys /\ table \in [DOMAIN table -> rows]

IsDatabase(d) ==
  /\ d = [repositories |-> d.repositories, workspaces |-> d.workspaces,
          container_bindings |-> d.container_bindings,
          last_operations |-> d.last_operations]
  /\ IsTable(d.repositories, RepositoryID, RepositoryRow)
  /\ IsTable(d.workspaces, WorkspaceID, WorkspaceRow)
  /\ IsTable(d.container_bindings, RepositoryID, BindingRow)
  /\ IsTable(d.last_operations, WorkspaceID, OperationRow)

\* One owner per session name, one row per session of a repository, one
\* repository per root, and no row without the row it hangs from.
IsIntact(d) ==
  /\ \A v, w \in DOMAIN d.workspaces : v # w =>
       /\ \/ d.workspaces[v].actual_session = NULL
          \/ d.workspaces[v].actual_session # d.workspaces[w].actual_session
       /\ \/ d.workspaces[v].repository_id # d.workspaces[w].repository_id
          \/ d.workspaces[v].session # d.workspaces[w].session
  /\ \A q, r \in DOMAIN d.repositories :
       d.repositories[q].repo_root = d.repositories[r].repo_root => q = r
  /\ \A w \in DOMAIN d.workspaces :
       d.workspaces[w].repository_id \in DOMAIN d.repositories
  /\ DOMAIN d.container_bindings \subseteq DOMAIN d.repositories
  /\ DOMAIN d.last_operations \subseteq DOMAIN d.workspaces

\* A row under the ID of a workspace is that workspace's row, and one under the
\* ID of its repository is at its root.
IsPlaced(d) ==
  \A ws \in Resolvable :
    /\ ws.id \in DOMAIN d.workspaces =>
         /\ d.workspaces[ws.id].repository_id = ws.repository_id
         /\ d.workspaces[ws.id].session = ws.session
    /\ ws.repository_id \in DOMAIN d.repositories =>
         d.repositories[ws.repository_id].repo_root = ws.repo_root

\* The schema holds of every database that could be opened, and a row is only
\* ever written under a digest of what it says.
InitialsAreSound ==
  \A d \in InitialDatabases : IsDatabase(d) /\ IsIntact(d) /\ IsPlaced(d)

ASSUME InitialAssumption == InitialsAreSound

\* Every table holds rows of its own shape.
TypeOK == IsDatabase(db)

(***************************************************************************)
(* What the schema promises (migrations/0002) holds of every state.        *)
(* Registration rewrites keys of three tables to stay inside it.           *)
(***************************************************************************)
Integrity == IsIntact(db)

\* The IDs under which ws's session is recorded on its own repository.
RecordedAs(ws) ==
  {w \in DOMAIN db.workspaces :
     /\ db.workspaces[w].repository_id = ws.repository_id
     /\ db.workspaces[w].session = ws.session}

OperationOf(w) ==
  IF w \in DOMAIN db.last_operations THEN db.last_operations[w] ELSE NULL

(***************************************************************************)
(* Registering a session again, under a new ID too, keeps its assigned     *)
(* name, applied digest, bind, last operation and container binding, and   *)
(* leaves every other session of its repository alone (store.go,           *)
(* RegisterWorkspace).                                                     *)
(***************************************************************************)
RegistrationPreserves ==
  [][\A ws \in Resolvable, d \in Digest : RegisterWorkspace(ws, d) =>
       /\ \A w \in RecordedAs(ws) :
            /\ db'.workspaces[ws.id].actual_session = db.workspaces[w].actual_session
            /\ db'.workspaces[ws.id].applied_digest = db.workspaces[w].applied_digest
            /\ db'.workspaces[ws.id].bind = db.workspaces[w].bind
            /\ OperationOf(ws.id)' = OperationOf(w)
       /\ BindingOf(ws.repository_id)' = BindingOf(ws.repository_id)
       /\ \A w \in OnRepositories({ws.repository_id}) \ RecordedAs(ws) :
            /\ w \in DOMAIN db'.workspaces
            /\ db'.workspaces[w] = db.workspaces[w]
            /\ OperationOf(w)' = OperationOf(w)]_db

(***************************************************************************)
(* "Missing or unknown health never clears the identity fields; only a     *)
(* successful replacement overwrites them" (types.go, ContainerBinding),   *)
(* and a binding goes only with its repository.                            *)
(***************************************************************************)
BindingIdentityKept ==
  [][\A r \in DOMAIN db.container_bindings :
       r \in DOMAIN db'.repositories =>
         /\ r \in DOMAIN db'.container_bindings
         /\ \/ db'.container_bindings[r].container = db.container_bindings[r].container
            \/ db'.container_bindings[r].health = "present"]_db
=============================================================================
