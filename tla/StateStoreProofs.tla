--------------------------- MODULE StateStoreProofs --------------------------
(***************************************************************************)
(* Proofs about StateStore: for any workspaces, names and databases, the   *)
(* transactions keep the tables' types and what the schema promises, a     *)
(* registration loses nothing that it does not name, and a container       *)
(* binding keeps its identity.                                             *)
(*                                                                         *)
(* Registration needs more than the schema to keep its own promise: that a *)
(* row under the ID of a workspace is a row of that workspace (IsPlaced).  *)
(* Otherwise re-keying would overwrite somebody else's row.                *)
(***************************************************************************)
EXTENDS StateStore, TLAPS

IInv == TypeOK /\ Integrity /\ IsPlaced(db)

-----------------------------------------------------------------------------
(* Tables *)

\* A row is inserted or replaced.
LEMMA WithTyped ==
  ASSUME NEW keys, NEW rows, NEW table, IsTable(table, keys, rows),
         NEW k \in keys, NEW row \in rows
  PROVE  IsTable(With(table, k, row), keys, rows)
BY DEF IsTable, With

\* Rows are deleted, and the others stay.
LEMMA WithoutRows ==
  ASSUME NEW table, NEW gone
  PROVE  /\ DOMAIN Without(table, gone) = DOMAIN table \ gone
         /\ \A x \in DOMAIN table \ gone : Without(table, gone)[x] = table[x]
BY DEF Without

\* Rows deleted leave a table.
LEMMA WithoutTyped ==
  ASSUME NEW keys, NEW rows, NEW table, IsTable(table, keys, rows), NEW gone
  PROVE  IsTable(Without(table, gone), keys, rows)
BY DEF IsTable, Without

\* Where at most one key is stale, its row moves to the new one.
LEMMA RekeyedRow ==
  ASSUME NEW table, NEW stale, \A v, w \in stale : v = w, NEW id, id \notin stale
  PROVE  LET new == Rekeyed(table, stale, id) IN
         /\ DOMAIN new = IF stale \cap DOMAIN table = {} THEN DOMAIN table
                         ELSE (DOMAIN table \ stale) \cup {id}
         /\ \A w \in stale \cap DOMAIN table : new[id] = table[w]
         /\ \A x \in DOMAIN table \ (stale \cup {id}) : new[x] = table[x]
         /\ stale \cap DOMAIN table = {} => new = table
<1>1. CASE stale \cap DOMAIN table = {}
  BY <1>1 DEF Rekeyed
<1>2. CASE stale \cap DOMAIN table # {}
  <2>1. PICK w \in stale \cap DOMAIN table : TRUE
    BY <1>2
  <2>2. stale = {w} /\ (CHOOSE v \in stale : TRUE) = w
    BY <2>1
  <2>3. Rekeyed(table, stale, id) = With(Without(table, stale), id, table[w])
    BY <1>2, <2>2 DEF Rekeyed
  <2>4. LET new == Rekeyed(table, stale, id) IN
        /\ DOMAIN new = DOMAIN Without(table, stale) \cup {id}
        /\ new[id] = table[w]
        /\ \A x \in DOMAIN Without(table, stale) \ {id} :
             new[x] = Without(table, stale)[x]
    BY <2>3 DEF With
  <2>5. /\ DOMAIN Without(table, stale) = DOMAIN table \ stale
        /\ \A x \in DOMAIN table \ stale : Without(table, stale)[x] = table[x]
    BY WithoutRows
  <2> QED
    BY <1>2, <2>2, <2>4, <2>5
<1> QED
  BY <1>1, <1>2

\* A row re-keyed leaves a table.
LEMMA RekeyedTyped ==
  ASSUME NEW keys, NEW rows, NEW table, IsTable(table, keys, rows),
         NEW stale, \A v, w \in stale : v = w, NEW id \in keys
  PROVE  IsTable(Rekeyed(table, stale, id), keys, rows)
<1>1. CASE stale \cap DOMAIN table = {}
  BY <1>1 DEF Rekeyed
<1>2. CASE stale \cap DOMAIN table # {}
  <2>1. PICK w \in stale \cap DOMAIN table : TRUE
    BY <1>2
  <2>2. (CHOOSE v \in stale : TRUE) = w
    BY <2>1
  <2>3. Rekeyed(table, stale, id) = With(Without(table, stale), id, table[w])
    BY <1>2, <2>2 DEF Rekeyed
  <2>4. IsTable(Without(table, stale), keys, rows)
    BY WithoutTyped
  <2>5. table[w] \in rows
    BY <2>1 DEF IsTable
  <2> QED
    BY <2>3, <2>4, <2>5, WithTyped
<1> QED
  BY <1>1, <1>2

-----------------------------------------------------------------------------
(* Registration *)

\* What RegisterWorkspace deletes, and the workspaces it then re-keys.
Gone(ws) == StaleRepositories(ws)
Dead(ws) == OnRepositories(Gone(ws))
Kept(ws) == Rekeyed(Without(db.workspaces, Dead(ws)), StaleIDs(ws), ws.id)

\* Of a workspace that is registered at most one row is recorded, under its
\* own ID or under a stale one.
LEMMA OneRecorded ==
  ASSUME IInv, NEW ws \in Resolvable
  PROVE  /\ ws.id \in WorkspaceID /\ ws.id \notin StaleIDs(ws)
         /\ \A v, w \in RecordedAs(ws) : v = w
         /\ StaleIDs(ws) = RecordedAs(ws) \ {ws.id}
         /\ ws.id \in DOMAIN db.workspaces => ws.id \in RecordedAs(ws)
         /\ RecordedAs(ws) \cap Dead(ws) = {}
<1>1. ws.id \in WorkspaceID
  BY ResolvableAssumption DEF IDsAreDigests, Identity
<1>2. \A v, w \in RecordedAs(ws) : v = w
  BY DEF IInv, Integrity, IsIntact, RecordedAs
<1>3. RecordedAs(ws) \cap Dead(ws) = {}
  BY DEF RecordedAs, Dead, Gone, OnRepositories, StaleRepositories
<1>4. StaleIDs(ws) = RecordedAs(ws) \ {ws.id}
  BY <1>3 DEF StaleIDs, RecordedAs, Dead, Gone
<1>5. ws.id \in DOMAIN db.workspaces => ws.id \in RecordedAs(ws)
  BY DEF IInv, IsPlaced, RecordedAs
<1> QED
  BY <1>1, <1>2, <1>3, <1>4, <1>5

\* The rows the upsert finds: nothing but the deleted ones is missing, and the
\* workspace's own has come along to its ID.
LEMMA KeptRows ==
  ASSUME IInv, NEW ws \in Resolvable
  PROVE  /\ IsTable(Kept(ws), WorkspaceID, WorkspaceRow)
         /\ \A w \in RecordedAs(ws) :
              ws.id \in DOMAIN Kept(ws) /\ Kept(ws)[ws.id] = db.workspaces[w]
         /\ ws.id \in DOMAIN Kept(ws) => RecordedAs(ws) # {}
         /\ DOMAIN Kept(ws) \ {ws.id}
              = DOMAIN db.workspaces \ (Dead(ws) \cup RecordedAs(ws))
         /\ \A w \in DOMAIN Kept(ws) \ {ws.id} : Kept(ws)[w] = db.workspaces[w]
<1> DEFINE rest == Without(db.workspaces, Dead(ws))
<1>1. IsTable(rest, WorkspaceID, WorkspaceRow)
  BY WithoutTyped DEF IInv, TypeOK, IsDatabase
<1>2. /\ DOMAIN rest = DOMAIN db.workspaces \ Dead(ws)
      /\ \A x \in DOMAIN db.workspaces \ Dead(ws) : rest[x] = db.workspaces[x]
  BY WithoutRows
<1>3. /\ RecordedAs(ws) \subseteq DOMAIN rest
      /\ ws.id \in DOMAIN rest => ws.id \in RecordedAs(ws)
  BY <1>2, OneRecorded DEF RecordedAs
<1>4. \A v, w \in StaleIDs(ws) : v = w
  BY OneRecorded
<1> HIDE DEF rest
<1>5. LET new == Rekeyed(rest, StaleIDs(ws), ws.id) IN
      /\ DOMAIN new = IF StaleIDs(ws) \cap DOMAIN rest = {} THEN DOMAIN rest
                      ELSE (DOMAIN rest \ StaleIDs(ws)) \cup {ws.id}
      /\ \A w \in StaleIDs(ws) \cap DOMAIN rest : new[ws.id] = rest[w]
      /\ \A x \in DOMAIN rest \ (StaleIDs(ws) \cup {ws.id}) : new[x] = rest[x]
      /\ StaleIDs(ws) \cap DOMAIN rest = {} => new = rest
  BY <1>4, OneRecorded, RekeyedRow
<1>6. Kept(ws) = Rekeyed(rest, StaleIDs(ws), ws.id)
  BY DEF Kept, rest
<1>9. IsTable(Kept(ws), WorkspaceID, WorkspaceRow)
  BY <1>1, <1>4, <1>6, OneRecorded, RekeyedTyped
<1>7. CASE ws.id \in RecordedAs(ws)
  <2>1. RecordedAs(ws) = {ws.id} /\ StaleIDs(ws) = {}
    BY <1>7, OneRecorded
  <2>2. Kept(ws) = rest
    BY <1>5, <1>6, <2>1
  <2> QED
    BY <1>2, <1>3, <1>9, <2>1, <2>2
<1>8. CASE ws.id \notin RecordedAs(ws)
  <2>1. StaleIDs(ws) = RecordedAs(ws) /\ ws.id \notin DOMAIN rest
    BY <1>3, <1>8, OneRecorded
  <2> QED
    BY <1>2, <1>3, <1>5, <1>6, <1>9, <2>1
<1> QED
  BY <1>7, <1>8

\* What a registration leaves of the four tables.
LEMMA Registration ==
  ASSUME IInv, NEW ws \in Resolvable, NEW d \in Digest, RegisterWorkspace(ws, d)
  PROVE  /\ IsDatabase(db')
         /\ DOMAIN db'.repositories
              = (DOMAIN db.repositories \ Gone(ws)) \cup {ws.repository_id}
         /\ db'.repositories[ws.repository_id].repo_root = ws.repo_root
         /\ \A r \in DOMAIN db'.repositories \ {ws.repository_id} :
              db'.repositories[r] = db.repositories[r]
         /\ DOMAIN db'.workspaces = DOMAIN Kept(ws) \cup {ws.id}
         /\ db'.workspaces[ws.id].repository_id = ws.repository_id
         /\ db'.workspaces[ws.id].session = ws.session
         /\ RecordedAs(ws) = {} => db'.workspaces[ws.id].actual_session = NULL
         /\ \A w \in RecordedAs(ws) :
              /\ db'.workspaces[ws.id].actual_session = db.workspaces[w].actual_session
              /\ db'.workspaces[ws.id].applied_digest = db.workspaces[w].applied_digest
              /\ db'.workspaces[ws.id].bind = db.workspaces[w].bind
         /\ \A w \in DOMAIN db'.workspaces \ {ws.id} :
              db'.workspaces[w] = db.workspaces[w]
         /\ db'.container_bindings = Without(db.container_bindings, Gone(ws))
         /\ db'.last_operations
              = Rekeyed(Without(db.last_operations, Dead(ws)), StaleIDs(ws), ws.id)
<1> DEFINE row == IF ws.id \in DOMAIN Kept(ws) THEN Kept(ws)[ws.id] ELSE FreshRow(ws)
           repos == Without(db.repositories, Gone(ws))
           bindings == Without(db.container_bindings, Gone(ws))
           ops == Rekeyed(Without(db.last_operations, Dead(ws)), StaleIDs(ws), ws.id)
<1>1. db' = [repositories |-> With(repos, ws.repository_id, [repo_root |-> ws.repo_root]),
             workspaces |-> With(Kept(ws), ws.id, Refreshed(row, ws, d)),
             container_bindings |-> bindings, last_operations |-> ops]
  BY DEF RegisterWorkspace, Kept, Dead, Gone
<1>2. ws \in Identity
  BY ResolvableAssumption DEF IDsAreDigests
<1>3. row \in WorkspaceRow
  <2>1. CASE ws.id \in DOMAIN Kept(ws)
    BY <2>1, KeptRows DEF IsTable
  <2>2. CASE ws.id \notin DOMAIN Kept(ws)
    BY <1>2, <2>2 DEF FreshRow, WorkspaceRow, Identity
  <2> QED
    BY <2>1, <2>2
<1>4. /\ Refreshed(row, ws, d) \in WorkspaceRow
      /\ Refreshed(row, ws, d).repository_id = ws.repository_id
      /\ Refreshed(row, ws, d).session = ws.session
      /\ Refreshed(row, ws, d).actual_session = row.actual_session
      /\ Refreshed(row, ws, d).applied_digest = row.applied_digest
      /\ Refreshed(row, ws, d).bind = row.bind
  BY <1>2, <1>3 DEF Refreshed, WorkspaceRow, Identity
<1>5. /\ RecordedAs(ws) = {} => row.actual_session = NULL
      /\ \A w \in RecordedAs(ws) : row = db.workspaces[w]
  BY KeptRows DEF FreshRow
<1>6. IsDatabase(db)
  BY DEF IInv, TypeOK
<1>7. IsTable(With(repos, ws.repository_id, [repo_root |-> ws.repo_root]),
              RepositoryID, RepositoryRow)
  <2>1. IsTable(repos, RepositoryID, RepositoryRow)
    BY <1>6, WithoutTyped DEF IsDatabase
  <2>2. [repo_root |-> ws.repo_root] \in RepositoryRow /\ ws.repository_id \in RepositoryID
    BY <1>2 DEF RepositoryRow, Identity
  <2> QED
    BY <2>1, <2>2, WithTyped
<1>8. IsTable(With(Kept(ws), ws.id, Refreshed(row, ws, d)), WorkspaceID, WorkspaceRow)
  BY <1>4, KeptRows, OneRecorded, WithTyped
<1>9. IsTable(bindings, RepositoryID, BindingRow)
  BY <1>6, WithoutTyped DEF IsDatabase
<1>10. IsTable(ops, WorkspaceID, OperationRow)
  <2>1. IsTable(Without(db.last_operations, Dead(ws)), WorkspaceID, OperationRow)
    BY <1>6, WithoutTyped DEF IsDatabase
  <2>2. \A v, w \in StaleIDs(ws) : v = w
    BY OneRecorded
  <2> QED
    BY <2>1, <2>2, OneRecorded, RekeyedTyped
<1> HIDE DEF row, repos, bindings, ops
<1>11. IsDatabase(db')
  BY <1>1, <1>7, <1>8, <1>9, <1>10 DEF IsDatabase
<1>12. LET new == db'.repositories IN
       /\ DOMAIN new = DOMAIN repos \cup {ws.repository_id}
       /\ new[ws.repository_id] = [repo_root |-> ws.repo_root]
       /\ \A r \in DOMAIN repos \ {ws.repository_id} : new[r] = repos[r]
  <2>1. db'.repositories = With(repos, ws.repository_id, [repo_root |-> ws.repo_root])
    BY <1>1
  <2> QED
    BY <2>1 DEF With
<1>13. /\ DOMAIN repos = DOMAIN db.repositories \ Gone(ws)
       /\ \A r \in DOMAIN db.repositories \ Gone(ws) : repos[r] = db.repositories[r]
  BY WithoutRows DEF repos
<1>14. LET new == db'.workspaces IN
       /\ DOMAIN new = DOMAIN Kept(ws) \cup {ws.id}
       /\ new[ws.id] = Refreshed(row, ws, d)
       /\ \A w \in DOMAIN Kept(ws) \ {ws.id} : new[w] = Kept(ws)[w]
  <2>1. db'.workspaces = With(Kept(ws), ws.id, Refreshed(row, ws, d))
    BY <1>1
  <2> QED
    BY <2>1 DEF With
<1>15. \A w \in DOMAIN db'.workspaces \ {ws.id} : db'.workspaces[w] = db.workspaces[w]
  BY <1>14, KeptRows
<1>16. db'.container_bindings = bindings /\ db'.last_operations = ops
  BY <1>1
<1> QED
  BY <1>4, <1>5, <1>11, <1>12, <1>13, <1>14, <1>15, <1>16 DEF bindings, ops

-----------------------------------------------------------------------------
(* The invariant *)

\* A registration keeps the invariant.
LEMMA RegisterKeeps ==
  ASSUME IInv, NEW ws \in Resolvable, NEW d \in Digest, RegisterWorkspace(ws, d)
  PROVE  IInv'
<1> DEFINE old == db.workspaces
           new == db'.workspaces
<1>1. TypeOK'
  BY Registration DEF TypeOK
<1>2. /\ \A w \in DOMAIN new \ {ws.id} :
            w \in DOMAIN old \ (Dead(ws) \cup RecordedAs(ws)) /\ new[w] = old[w]
      /\ ws.id \in DOMAIN new
  BY Registration, KeptRows
<1>3. ASSUME NEW v \in DOMAIN new, NEW w \in DOMAIN new, v # w
      PROVE  /\ new[v].actual_session = NULL \/ new[v].actual_session # new[w].actual_session
             /\ \/ new[v].repository_id # new[w].repository_id
                \/ new[v].session # new[w].session
  <2>1. ASSUME NEW u \in DOMAIN new \ {ws.id}
        PROVE  /\ new[ws.id].actual_session = NULL
                    \/ new[ws.id].actual_session # new[u].actual_session
               /\ \/ new[ws.id].repository_id # new[u].repository_id
                  \/ new[ws.id].session # new[u].session
    <3>1. u \in DOMAIN old /\ u \notin RecordedAs(ws) /\ new[u] = old[u]
      BY <1>2
    <3>2. \/ new[ws.id].repository_id # new[u].repository_id
          \/ new[ws.id].session # new[u].session
      BY <3>1, Registration DEF RecordedAs
    <3>3. CASE RecordedAs(ws) = {}
      BY <3>2, <3>3, Registration
    <3>4. ASSUME NEW r \in RecordedAs(ws)
          PROVE  old[r].actual_session = NULL \/ old[r].actual_session # old[u].actual_session
      BY <3>1 DEF IInv, Integrity, IsIntact, RecordedAs
    <3> QED
      BY <3>1, <3>2, <3>3, <3>4, Registration
  <2>2. CASE v = ws.id \/ w = ws.id
    BY <1>3, <2>1, <2>2
  <2>3. CASE v # ws.id /\ w # ws.id
    BY <1>2, <1>3, <2>3 DEF IInv, Integrity, IsIntact
  <2> QED
    BY <2>2, <2>3
<1>4. \A q, r \in DOMAIN db'.repositories :
        db'.repositories[q].repo_root = db'.repositories[r].repo_root => q = r
  <2>1. \A r \in DOMAIN db'.repositories \ {ws.repository_id} :
          /\ r \in DOMAIN db.repositories /\ db'.repositories[r] = db.repositories[r]
          /\ db'.repositories[r].repo_root # ws.repo_root
    <3>1. \A r \in DOMAIN db'.repositories \ {ws.repository_id} :
            r \in DOMAIN db.repositories \ Gone(ws) /\ db'.repositories[r] = db.repositories[r]
      BY Registration
    <3> QED
      BY <3>1 DEF Gone, StaleRepositories
  <2>2. db'.repositories[ws.repository_id].repo_root = ws.repo_root
    BY Registration
  <2> QED
    BY <2>1, <2>2 DEF IInv, Integrity, IsIntact
<1>5. \A w \in DOMAIN new : new[w].repository_id \in DOMAIN db'.repositories
  <2>1. DOMAIN db'.repositories
          = (DOMAIN db.repositories \ Gone(ws)) \cup {ws.repository_id}
    BY Registration
  <2>2. new[ws.id].repository_id = ws.repository_id
    BY Registration
  <2>3. \A w \in DOMAIN new \ {ws.id} : new[w].repository_id \notin Gone(ws)
    BY <1>2 DEF Dead, OnRepositories
  <2>4. \A w \in DOMAIN new \ {ws.id} : new[w].repository_id \in DOMAIN db.repositories
    BY <1>2 DEF IInv, Integrity, IsIntact
  <2> QED
    BY <2>1, <2>2, <2>3, <2>4
<1>6. DOMAIN db'.container_bindings \subseteq DOMAIN db'.repositories
  <2>1. db'.container_bindings = Without(db.container_bindings, Gone(ws))
    BY Registration
  <2>2. DOMAIN db'.container_bindings = DOMAIN db.container_bindings \ Gone(ws)
    BY <2>1 DEF Without
  <2>3. DOMAIN db.repositories \ Gone(ws) \subseteq DOMAIN db'.repositories
    BY Registration
  <2> QED
    BY <2>2, <2>3 DEF IInv, Integrity, IsIntact
<1>7. DOMAIN db'.last_operations \subseteq DOMAIN new
  <2> DEFINE ops == Without(db.last_operations, Dead(ws))
  <2>1. DOMAIN ops \subseteq DOMAIN old \ Dead(ws)
    BY DEF Without, IInv, Integrity, IsIntact
  <2> HIDE DEF ops
  <2>3. DOMAIN Rekeyed(ops, StaleIDs(ws), ws.id)
          \subseteq (DOMAIN ops \ StaleIDs(ws)) \cup {ws.id}
    BY DEF Rekeyed, With, Without
  <2>4. db'.last_operations = Rekeyed(ops, StaleIDs(ws), ws.id)
    BY Registration DEF ops
  <2>5. DOMAIN old \ (Dead(ws) \cup StaleIDs(ws)) \subseteq DOMAIN new
    BY Registration, KeptRows, OneRecorded
  <2> QED
    BY <1>2, <2>1, <2>3, <2>4, <2>5
<1>8. ASSUME NEW v \in Resolvable, v.id \in DOMAIN new
      PROVE  new[v.id].repository_id = v.repository_id /\ new[v.id].session = v.session
  <2>1. CASE v.id = ws.id
    BY <2>1, ResolvableAssumption, Registration DEF IDsAreDigests
  <2>2. CASE v.id # ws.id
    BY <1>2, <1>8, <2>2 DEF IInv, IsPlaced
  <2> QED
    BY <2>1, <2>2
<1>9. ASSUME NEW v \in Resolvable, v.repository_id \in DOMAIN db'.repositories
      PROVE  db'.repositories[v.repository_id].repo_root = v.repo_root
  <2>1. CASE v.repository_id = ws.repository_id
    BY <2>1, ResolvableAssumption, Registration DEF IDsAreDigests
  <2>2. CASE v.repository_id # ws.repository_id
    <3>1. /\ v.repository_id \in DOMAIN db.repositories
          /\ db'.repositories[v.repository_id] = db.repositories[v.repository_id]
      BY <1>9, <2>2, Registration
    <3> QED
      BY <3>1 DEF IInv, IsPlaced
  <2> QED
    BY <2>1, <2>2
<1>10. IsPlaced(db')
  BY <1>8, <1>9 DEF IsPlaced
<1> QED
  BY <1>1, <1>3, <1>4, <1>5, <1>6, <1>7, <1>10 DEF IInv, Integrity, IsIntact

\* The tables a transaction leaves behind, one by one.
LEMMA Intact ==
  ASSUME IInv,
         db' = [repositories |-> db.repositories, workspaces |-> db'.workspaces,
                container_bindings |-> db'.container_bindings,
                last_operations |-> db'.last_operations],
         IsTable(db'.container_bindings, RepositoryID, BindingRow),
         DOMAIN db'.container_bindings \subseteq DOMAIN db.repositories,
         IsTable(db'.last_operations, WorkspaceID, OperationRow),
         DOMAIN db'.last_operations \subseteq DOMAIN db.workspaces,
         IsTable(db'.workspaces, WorkspaceID, WorkspaceRow),
         DOMAIN db'.workspaces = DOMAIN db.workspaces,
         \A w \in DOMAIN db.workspaces :
           /\ db'.workspaces[w].repository_id = db.workspaces[w].repository_id
           /\ db'.workspaces[w].session = db.workspaces[w].session,
         \A v, w \in DOMAIN db.workspaces : v # w =>
           \/ db'.workspaces[v].actual_session = NULL
           \/ db'.workspaces[v].actual_session # db'.workspaces[w].actual_session
  PROVE  IInv'
<1>1. db'.repositories = db.repositories
  OBVIOUS
<1>2. TypeOK'
  BY <1>1 DEF TypeOK, IInv, IsDatabase
<1>3. Integrity'
  BY <1>1 DEF Integrity, IInv, IsIntact
<1>4. IsPlaced(db')
  BY DEF IInv, IsPlaced
<1> QED
  BY <1>2, <1>3, <1>4 DEF IInv

\* One row changes in columns other than its repository and session, and a new
\* name in it is nobody else's.
LEMMA RowChanged ==
  ASSUME IInv, NEW id, Known(id), NEW row \in WorkspaceRow,
         row.repository_id = db.workspaces[id].repository_id,
         row.session = db.workspaces[id].session,
         \/ row.actual_session = db.workspaces[id].actual_session
         \/ ~NameTaken(row.actual_session, id),
         db' = [repositories |-> db.repositories,
                workspaces |-> [db.workspaces EXCEPT ![id] = row],
                container_bindings |-> db'.container_bindings,
                last_operations |-> db'.last_operations],
         IsTable(db'.container_bindings, RepositoryID, BindingRow),
         DOMAIN db'.container_bindings \subseteq DOMAIN db.repositories,
         IsTable(db'.last_operations, WorkspaceID, OperationRow),
         DOMAIN db'.last_operations \subseteq DOMAIN db.workspaces
  PROVE  IInv'
<1>1. IsTable(db.workspaces, WorkspaceID, WorkspaceRow)
  BY DEF IInv, TypeOK, IsDatabase
<1>2. db'.workspaces = [db.workspaces EXCEPT ![id] = row]
  OBVIOUS
<1>3. /\ IsTable(db'.workspaces, WorkspaceID, WorkspaceRow)
      /\ DOMAIN db'.workspaces = DOMAIN db.workspaces
      /\ db'.workspaces[id] = row
      /\ \A w \in DOMAIN db.workspaces \ {id} : db'.workspaces[w] = db.workspaces[w]
  BY <1>1, <1>2 DEF IsTable, Known
<1>4. \A v, w \in DOMAIN db.workspaces : v # w =>
        \/ db'.workspaces[v].actual_session = NULL
        \/ db'.workspaces[v].actual_session # db'.workspaces[w].actual_session
  <2>1. \A v, w \in DOMAIN db.workspaces : v # w =>
          \/ db.workspaces[v].actual_session = NULL
          \/ db.workspaces[v].actual_session # db.workspaces[w].actual_session
    BY DEF IInv, Integrity, IsIntact
  <2>2. \A w \in DOMAIN db.workspaces \ {id} :
          \/ row.actual_session = NULL
          \/ row.actual_session # db.workspaces[w].actual_session
    BY <2>1 DEF NameTaken, Known
  <2> QED
    BY <1>3, <2>1, <2>2
<1>5. \A w \in DOMAIN db.workspaces :
        /\ db'.workspaces[w].repository_id = db.workspaces[w].repository_id
        /\ db'.workspaces[w].session = db.workspaces[w].session
  BY <1>3
<1>6. db' = [repositories |-> db.repositories, workspaces |-> db'.workspaces,
             container_bindings |-> db'.container_bindings,
             last_operations |-> db'.last_operations]
  BY <1>2
<1> QED
  BY <1>3, <1>4, <1>5, <1>6, Intact

\* What the invariant says of the tables that a transaction leaves alone.
LEMMA Unchanged ==
  ASSUME IInv
  PROVE  /\ db = [repositories |-> db.repositories, workspaces |-> db.workspaces,
                  container_bindings |-> db.container_bindings,
                  last_operations |-> db.last_operations]
         /\ IsTable(db.container_bindings, RepositoryID, BindingRow)
         /\ DOMAIN db.container_bindings \subseteq DOMAIN db.repositories
         /\ DOMAIN db.repositories \subseteq RepositoryID
         /\ IsTable(db.last_operations, WorkspaceID, OperationRow)
         /\ DOMAIN db.last_operations \subseteq DOMAIN db.workspaces
         /\ IsTable(db.workspaces, WorkspaceID, WorkspaceRow)
         /\ \A w \in DOMAIN db.workspaces :
              /\ w \in WorkspaceID /\ db.workspaces[w] \in WorkspaceRow
              /\ db.workspaces[w].repository_id \in DOMAIN db.repositories
<1>1. IsDatabase(db) /\ IsIntact(db)
  BY DEF IInv, TypeOK, Integrity
<1>2. \A w \in DOMAIN db.workspaces :
        w \in WorkspaceID /\ db.workspaces[w] \in WorkspaceRow
  BY <1>1 DEF IsDatabase, IsTable
<1> QED
  BY <1>1, <1>2 DEF IsDatabase, IsIntact, IsTable

\* Naming a workspace after nobody else keeps the invariant.
LEMMA NamingKeeps ==
  ASSUME IInv, NEW id, Known(id), NEW name \in Name \cup {NULL}, ~NameTaken(name, id),
         db' = [db EXCEPT !.workspaces[id].actual_session = name]
  PROVE  IInv'
<1> DEFINE row == [db.workspaces[id] EXCEPT !.actual_session = name]
<1>1. db.workspaces[id] \in WorkspaceRow
  BY Unchanged DEF Known
<1>2. /\ row \in WorkspaceRow /\ row.actual_session = name
      /\ row.repository_id = db.workspaces[id].repository_id
      /\ row.session = db.workspaces[id].session
  BY <1>1 DEF WorkspaceRow
<1>3. db' = [repositories |-> db.repositories,
             workspaces |-> [db.workspaces EXCEPT ![id] = row],
             container_bindings |-> db.container_bindings,
             last_operations |-> db.last_operations]
  BY Unchanged
<1> HIDE DEF row
<1>4. /\ db'.container_bindings = db.container_bindings
      /\ db'.last_operations = db.last_operations
  BY <1>3
<1> QED
  BY <1>2, <1>3, <1>4, Unchanged, RowChanged

\* An allocation keeps the invariant: the name is free.
LEMMA AllocateKeeps ==
  ASSUME IInv, NEW id \in WorkspaceID, NEW name \in Name \cup {NULL},
         AllocateSessionName(id, name)
  PROVE  IInv'
<1>1. CASE UNCHANGED db
  BY <1>1 DEF IInv, TypeOK, Integrity
<1>2. CASE db' # db
  <2>1. PICK i \in DOMAIN Candidates[db.workspaces[id].proposed_session] :
          /\ name = Candidates[db.workspaces[id].proposed_session][i]
          /\ ~NameTaken(name, id)
          /\ db' = [db EXCEPT !.workspaces[id].actual_session = name]
    BY <1>2 DEF AllocateSessionName
  <2> QED
    BY <2>1, NamingKeeps DEF AllocateSessionName
<1> QED
  BY <1>1, <1>2

\* So does an adoption, which the UNIQUE constraint lets through.
LEMMA AdoptKeeps ==
  ASSUME IInv, NEW id \in WorkspaceID, NEW name \in Name, AdoptSessionName(id, name)
  PROVE  IInv'
BY NamingKeeps DEF AdoptSessionName

\* A bind touches no key.
LEMMA BindKeeps ==
  ASSUME IInv, NEW id \in WorkspaceID, NEW bind \in Bind \cup {NULL}, SetBind(id, bind)
  PROVE  IInv'
<1> DEFINE row == [db.workspaces[id] EXCEPT !.bind = bind]
<1>1. db.workspaces[id] \in WorkspaceRow
  BY Unchanged DEF SetBind, Known
<1>2. /\ row \in WorkspaceRow
      /\ row.actual_session = db.workspaces[id].actual_session
      /\ row.repository_id = db.workspaces[id].repository_id
      /\ row.session = db.workspaces[id].session
  BY <1>1 DEF WorkspaceRow
<1>3. db' = [repositories |-> db.repositories,
             workspaces |-> [db.workspaces EXCEPT ![id] = row],
             container_bindings |-> db.container_bindings,
             last_operations |-> db.last_operations]
  BY Unchanged DEF SetBind
<1> HIDE DEF row
<1>4. /\ db'.container_bindings = db.container_bindings
      /\ db'.last_operations = db.last_operations
  BY <1>3
<1> QED
  BY <1>2, <1>3, <1>4, Unchanged, RowChanged DEF SetBind

\* An observation is recorded as a binding of its repository or not at all.
LEMMA RecordedTyped ==
  ASSUME NEW table, IsTable(table, RepositoryID, BindingRow), NEW r \in RepositoryID,
         NEW obs \in Observation, Recordable(obs)
  PROVE  /\ IsTable(Recorded(table, r, obs), RepositoryID, BindingRow)
         /\ DOMAIN Recorded(table, r, obs) \subseteq DOMAIN table \cup {r}
         /\ DOMAIN table \subseteq DOMAIN Recorded(table, r, obs)
         /\ \A q \in DOMAIN table :
              \/ Recorded(table, r, obs)[q].container = table[q].container
              \/ Recorded(table, r, obs)[q].health = "present"
<1>1. CASE obs.health = "present"
  <2>1. obs \in BindingRow
    BY <1>1 DEF Observation, Recordable, BindingRow, Health
  <2>2. Recorded(table, r, obs) = With(table, r, obs)
    BY <1>1 DEF Recorded
  <2>3. IsTable(With(table, r, obs), RepositoryID, BindingRow)
    BY <2>1, WithTyped
  <2> QED
    BY <1>1, <2>2, <2>3 DEF With
<1>2. CASE obs.health # "present" /\ r \in DOMAIN table
  <2>1. table[r] \in BindingRow /\ obs.health \in Health
    BY <1>2 DEF IsTable, Observation, Health
  <2>2. LET row == [table[r] EXCEPT !.health = obs.health] IN
          row \in BindingRow /\ row.container = table[r].container
    BY <2>1 DEF BindingRow
  <2>3. Recorded(table, r, obs)
          = [table EXCEPT ![r] = [table[r] EXCEPT !.health = obs.health]]
    BY <1>2 DEF Recorded
  <2> QED
    BY <1>2, <2>2, <2>3 DEF IsTable
<1>3. CASE obs.health # "present" /\ r \notin DOMAIN table
  BY <1>3 DEF Recorded
<1> QED
  BY <1>1, <1>2, <1>3

\* An observation needs the repository it hangs from.
LEMMA ObservationKeeps ==
  ASSUME IInv, NEW r \in RepositoryID, NEW obs \in Observation,
         RecordContainerObservation(r, obs)
  PROVE  IInv'
<1> DEFINE bindings == Recorded(db.container_bindings, r, obs)
<1>1. db' = [repositories |-> db.repositories, workspaces |-> db.workspaces,
             container_bindings |-> bindings, last_operations |-> db.last_operations]
  BY Unchanged DEF RecordContainerObservation
<1>2. /\ IsTable(bindings, RepositoryID, BindingRow)
      /\ DOMAIN bindings \subseteq DOMAIN db.repositories
  BY Unchanged, RecordedTyped DEF RecordContainerObservation, KnownRepository
<1> HIDE DEF bindings
<1>3. /\ db'.workspaces = db.workspaces
      /\ db'.container_bindings = bindings
      /\ db'.last_operations = db.last_operations
  BY <1>1
<1>4. \A v, w \in DOMAIN db.workspaces : v # w =>
        \/ db.workspaces[v].actual_session = NULL
        \/ db.workspaces[v].actual_session # db.workspaces[w].actual_session
  BY DEF IInv, Integrity, IsIntact
<1> QED
  BY <1>1, <1>2, <1>3, <1>4, Unchanged, Intact

\* An outcome needs the workspace it hangs from.
LEMMA OperationKeeps ==
  ASSUME IInv, NEW id \in WorkspaceID, NEW op \in OperationRow, RecordOperation(id, op)
  PROVE  IInv'
<1> DEFINE ops == With(db.last_operations, id, op)
<1>1. db' = [repositories |-> db.repositories, workspaces |-> db.workspaces,
             container_bindings |-> db.container_bindings, last_operations |-> ops]
  BY Unchanged DEF RecordOperation
<1>2. IsTable(ops, WorkspaceID, OperationRow)
  BY Unchanged, WithTyped
<1>3. DOMAIN ops \subseteq DOMAIN db.workspaces
  BY Unchanged DEF RecordOperation, Known, With
<1> HIDE DEF ops
<1>4. /\ db'.workspaces = db.workspaces
      /\ db'.container_bindings = db.container_bindings
      /\ db'.last_operations = ops
  BY <1>1
<1>5. \A v, w \in DOMAIN db.workspaces : v # w =>
        \/ db.workspaces[v].actual_session = NULL
        \/ db.workspaces[v].actual_session # db.workspaces[w].actual_session
  BY DEF IInv, Integrity, IsIntact
<1> QED
  BY <1>1, <1>2, <1>3, <1>4, <1>5, Unchanged, Intact

\* A commit is all three, on a row that is there.
LEMMA CommitKeeps ==
  ASSUME IInv, NEW id \in WorkspaceID, NEW digest \in Digest \cup {NULL},
         NEW obs \in Observation \cup {NULL}, NEW op \in OperationRow,
         CommitReconciliation(id, digest, obs, op)
  PROVE  IInv'
<1> DEFINE old == db.workspaces[id]
           row == [old EXCEPT !.applied_digest = IF digest = NULL THEN @ ELSE digest]
           bindings == IF obs = NULL THEN db.container_bindings
                       ELSE Recorded(db.container_bindings, old.repository_id, obs)
           ops == With(db.last_operations, id, op)
<1>1. old \in WorkspaceRow /\ old.repository_id \in DOMAIN db.repositories
  BY Unchanged DEF CommitReconciliation, Known
<1>2. /\ row \in WorkspaceRow
      /\ row.actual_session = old.actual_session
      /\ row.repository_id = old.repository_id
      /\ row.session = old.session
  <2> HIDE DEF old
  <2> QED
    BY <1>1 DEF WorkspaceRow
<1>3. db' = [repositories |-> db.repositories,
             workspaces |-> [db.workspaces EXCEPT ![id] = row],
             container_bindings |-> bindings, last_operations |-> ops]
  BY Unchanged DEF CommitReconciliation
<1>4. /\ IsTable(bindings, RepositoryID, BindingRow)
      /\ DOMAIN bindings \subseteq DOMAIN db.repositories
  <2>1. CASE obs = NULL
    BY <2>1, Unchanged
  <2>2. CASE obs # NULL
    <3>1. obs \in Observation /\ Recordable(obs) /\ old.repository_id \in RepositoryID
      BY <1>1, <2>2, Unchanged DEF CommitReconciliation
    <3>2. bindings = Recorded(db.container_bindings, old.repository_id, obs)
      BY <2>2
    <3> HIDE DEF bindings, old
    <3> QED
      BY <1>1, <3>1, <3>2, Unchanged, RecordedTyped
  <2> QED
    BY <2>1, <2>2
<1>5. IsTable(ops, WorkspaceID, OperationRow) /\ DOMAIN ops \subseteq DOMAIN db.workspaces
  <2>1. IsTable(ops, WorkspaceID, OperationRow)
    BY Unchanged, WithTyped
  <2>2. DOMAIN ops \subseteq DOMAIN db.workspaces
    BY Unchanged DEF CommitReconciliation, Known, With
  <2> QED
    BY <2>1, <2>2
<1>6. Known(id)
  BY DEF CommitReconciliation
<1> HIDE DEF row, bindings, ops
<1>7. db'.container_bindings = bindings /\ db'.last_operations = ops
  BY <1>3
<1> QED
  BY <1>2, <1>3, <1>4, <1>5, <1>6, <1>7, RowChanged

\* A removal takes everything that hangs from the repository.
LEMMA DropKeeps ==
  ASSUME IInv, NEW r \in RepositoryID, DropRepository(r)
  PROVE  IInv'
<1> DEFINE dead == OnRepositories({r})
           repos == Without(db.repositories, {r})
           rows == Without(db.workspaces, dead)
           bindings == Without(db.container_bindings, {r})
           ops == Without(db.last_operations, dead)
<1>1. db' = [repositories |-> repos, workspaces |-> rows,
             container_bindings |-> bindings, last_operations |-> ops]
  BY DEF DropRepository
<1>2. IsDatabase(db) /\ IsIntact(db) /\ IsPlaced(db)
  BY DEF IInv, TypeOK, Integrity
<1>3. /\ IsTable(repos, RepositoryID, RepositoryRow)
      /\ IsTable(rows, WorkspaceID, WorkspaceRow)
      /\ IsTable(bindings, RepositoryID, BindingRow)
      /\ IsTable(ops, WorkspaceID, OperationRow)
  BY <1>2, WithoutTyped DEF IsDatabase
<1>4. /\ DOMAIN repos = DOMAIN db.repositories \ {r}
      /\ \A q \in DOMAIN repos : repos[q] = db.repositories[q]
      /\ DOMAIN rows = DOMAIN db.workspaces \ dead
      /\ \A w \in DOMAIN rows : rows[w] = db.workspaces[w]
      /\ DOMAIN bindings = DOMAIN db.container_bindings \ {r}
      /\ DOMAIN ops = DOMAIN db.last_operations \ dead
  BY DEF Without
<1>5. \A w \in DOMAIN rows : rows[w].repository_id # r
  BY <1>4 DEF OnRepositories
<1> HIDE DEF dead, repos, rows, bindings, ops
<1>6. IsDatabase(db')
  BY <1>1, <1>3 DEF IsDatabase
<1>7. /\ db'.repositories = repos /\ db'.workspaces = rows
      /\ db'.container_bindings = bindings /\ db'.last_operations = ops
  BY <1>1
<1>8. IsIntact(db') /\ IsPlaced(db')
  BY <1>2, <1>4, <1>5, <1>7 DEF IsIntact, IsPlaced
<1> QED
  BY <1>6, <1>8 DEF IInv, TypeOK, Integrity

\* Every transaction of every caller keeps the invariant.
LEMMA StepKeeps == IInv /\ [Next]_db => IInv'
<1> SUFFICES ASSUME IInv, [Next]_db
             PROVE  IInv'
  OBVIOUS
<1>1. CASE Register
  BY <1>1, RegisterKeeps DEF Register
<1>2. CASE Drop
  BY <1>2, DropKeeps DEF Drop
<1>3. CASE Allocate
  BY <1>3, AllocateKeeps DEF Allocate
<1>4. CASE Adopt
  BY <1>4, AdoptKeeps DEF Adopt
<1>5. CASE Observe
  BY <1>5, ObservationKeeps DEF Observe
<1>6. CASE Operate
  BY <1>6, OperationKeeps DEF Operate
<1>7. CASE Commit
  BY <1>7, CommitKeeps DEF Commit
<1>8. CASE Rebind
  BY <1>8, BindKeeps DEF Rebind
<1>9. CASE UNCHANGED db
  BY <1>9 DEF IInv, TypeOK, Integrity
<1> QED
  BY <1>1, <1>2, <1>3, <1>4, <1>5, <1>6, <1>7, <1>8, <1>9 DEF Next

\* The inductive invariant holds in every state.
LEMMA StoreInvariant == Spec => []IInv
<1>1. Init => IInv
  BY InitialAssumption DEF InitialsAreSound, Init, IInv, TypeOK, Integrity
<1> QED
  BY <1>1, StepKeeps, PTL DEF Spec

\* Rows keep their types whatever the callers of internal/state do.
THEOREM StoreTyped == Spec => []TypeOK
BY StoreInvariant, PTL DEF IInv

\* The schema's promises hold after every transaction (migrations/0002):
\* re-keying and cascades leave no second owner of a name, no second row of a
\* session and no orphan.
THEOREM StoreIntact == Spec => []Integrity
BY StoreInvariant, PTL DEF IInv

-----------------------------------------------------------------------------
(* What a transaction may not do *)

\* The last operation follows its workspace to the new ID, and nothing else moves.
LEMMA OperationsFollow ==
  ASSUME IInv, NEW ws \in Resolvable, NEW d \in Digest, RegisterWorkspace(ws, d)
  PROVE  /\ \A w \in RecordedAs(ws) : OperationOf(ws.id)' = OperationOf(w)
         /\ \A w \in OnRepositories({ws.repository_id}) \ RecordedAs(ws) :
              OperationOf(w)' = OperationOf(w)
<1> DEFINE ops == Without(db.last_operations, Dead(ws))
           new == Rekeyed(ops, StaleIDs(ws), ws.id)
<1>1. db'.last_operations = new
  BY Registration
<1>2. /\ DOMAIN ops = DOMAIN db.last_operations \ Dead(ws)
      /\ \A w \in DOMAIN ops : ops[w] = db.last_operations[w]
  BY DEF Without
<1>3. DOMAIN db.last_operations \subseteq DOMAIN db.workspaces
  BY Unchanged
<1>4. \A v, w \in StaleIDs(ws) : v = w
  BY OneRecorded
<1> HIDE DEF ops
<1>5. /\ DOMAIN new = IF StaleIDs(ws) \cap DOMAIN ops = {} THEN DOMAIN ops
                      ELSE (DOMAIN ops \ StaleIDs(ws)) \cup {ws.id}
      /\ \A w \in StaleIDs(ws) \cap DOMAIN ops : new[ws.id] = ops[w]
      /\ \A x \in DOMAIN ops \ (StaleIDs(ws) \cup {ws.id}) : new[x] = ops[x]
      /\ StaleIDs(ws) \cap DOMAIN ops = {} => new = ops
  BY <1>4, OneRecorded, RekeyedRow
<1> HIDE DEF new
<1>6. ASSUME NEW w \in RecordedAs(ws)
      PROVE  OperationOf(ws.id)' = OperationOf(w)
  <2>1. RecordedAs(ws) = {w} /\ w \notin Dead(ws)
    BY OneRecorded
  <2>2. CASE w = ws.id
    <3>1. new = ops
      BY <1>5, <2>1, <2>2, OneRecorded
    <3> QED
      BY <1>1, <1>2, <2>1, <2>2, <3>1 DEF OperationOf
  <2>3. CASE w # ws.id
    <3>1. StaleIDs(ws) = {w} /\ ws.id \notin DOMAIN db.last_operations
      BY <1>3, <2>1, <2>3, OneRecorded
    <3> QED
      BY <1>1, <1>2, <1>5, <2>1, <3>1 DEF OperationOf
  <2> QED
    BY <2>2, <2>3
<1>7. ASSUME NEW w \in OnRepositories({ws.repository_id}) \ RecordedAs(ws)
      PROVE  OperationOf(w)' = OperationOf(w)
  <2>1. w \notin Dead(ws) /\ w \notin StaleIDs(ws) /\ w # ws.id
    BY OneRecorded DEF Dead, Gone, OnRepositories, StaleRepositories
  <2>2. w \in DOMAIN new <=> w \in DOMAIN db.last_operations
    BY <1>2, <1>5, <2>1
  <2>3. w \in DOMAIN new => new[w] = db.last_operations[w]
    BY <1>2, <1>5, <2>1
  <2> QED
    BY <1>1, <2>2, <2>3 DEF OperationOf
<1> QED
  BY <1>6, <1>7

\* Registering a session again, under a new ID too, keeps all that is recorded
\* of it and of its siblings (store.go, RegisterWorkspace).
THEOREM RegistrationLosesNothing == Spec => RegistrationPreserves
<1> DEFINE Preserved(ws) ==
      /\ \A w \in RecordedAs(ws) :
           /\ db'.workspaces[ws.id].actual_session = db.workspaces[w].actual_session
           /\ db'.workspaces[ws.id].applied_digest = db.workspaces[w].applied_digest
           /\ db'.workspaces[ws.id].bind = db.workspaces[w].bind
           /\ OperationOf(ws.id)' = OperationOf(w)
      /\ BindingOf(ws.repository_id)' = BindingOf(ws.repository_id)
      /\ \A w \in OnRepositories({ws.repository_id}) \ RecordedAs(ws) :
           /\ w \in DOMAIN db'.workspaces
           /\ db'.workspaces[w] = db.workspaces[w]
           /\ OperationOf(w)' = OperationOf(w)
<1>1. ASSUME IInv, NEW ws \in Resolvable, NEW d \in Digest, RegisterWorkspace(ws, d)
      PROVE  Preserved(ws)
  <2>1. \A w \in RecordedAs(ws) :
          /\ db'.workspaces[ws.id].actual_session = db.workspaces[w].actual_session
          /\ db'.workspaces[ws.id].applied_digest = db.workspaces[w].applied_digest
          /\ db'.workspaces[ws.id].bind = db.workspaces[w].bind
    BY <1>1, Registration
  <2>2. BindingOf(ws.repository_id)' = BindingOf(ws.repository_id)
    <3>1. db'.container_bindings = Without(db.container_bindings, Gone(ws))
      BY <1>1, Registration
    <3>2. ws.repository_id \notin Gone(ws)
      BY DEF Gone, StaleRepositories
    <3> QED
      BY <3>1, <3>2 DEF BindingOf, Without
  <2>3. ASSUME NEW w \in OnRepositories({ws.repository_id}) \ RecordedAs(ws)
        PROVE  w \in DOMAIN db'.workspaces /\ db'.workspaces[w] = db.workspaces[w]
    <3>1. w \in DOMAIN db.workspaces /\ w \notin Dead(ws) /\ w # ws.id
      BY <1>1, OneRecorded DEF Dead, Gone, OnRepositories, StaleRepositories
    <3>2. w \in DOMAIN Kept(ws) \ {ws.id}
      BY <1>1, <3>1, KeptRows
    <3>3. w \in DOMAIN db'.workspaces
      BY <1>1, <3>2, Registration
    <3> QED
      BY <1>1, <3>1, <3>3, Registration
  <2> QED
    BY <1>1, <2>1, <2>2, <2>3, OperationsFollow
<1>2. IInv => [\A ws \in Resolvable, d \in Digest :
                 RegisterWorkspace(ws, d) => Preserved(ws)]_db
  BY <1>1
<1> QED
  BY <1>2, StoreInvariant, PTL DEF RegistrationPreserves

\* "Missing or unknown health never clears the identity fields" (types.go): no
\* transaction takes a container from a repository that stays.
THEOREM BindingsKeepIdentity == Spec => BindingIdentityKept
<1> DEFINE Stays(r) ==
      r \in DOMAIN db'.repositories =>
        /\ r \in DOMAIN db'.container_bindings
        /\ \/ db'.container_bindings[r].container = db.container_bindings[r].container
           \/ db'.container_bindings[r].health = "present"
<1>1. ASSUME IInv, [Next]_db, NEW r \in DOMAIN db.container_bindings
      PROVE  Stays(r)
  <2>1. CASE UNCHANGED db.container_bindings
    BY <2>1
  <2>2. CASE Register
    <3>1. PICK ws \in Resolvable, d \in Digest : RegisterWorkspace(ws, d)
      BY <2>2 DEF Register
    <3>2. db'.container_bindings = Without(db.container_bindings, Gone(ws))
      BY <1>1, <3>1, Registration
    <3>3. DOMAIN db'.repositories
            = (DOMAIN db.repositories \ Gone(ws)) \cup {ws.repository_id}
      BY <1>1, <3>1, Registration
    <3>4. ws.repository_id \notin Gone(ws)
      BY DEF Gone, StaleRepositories
    <3> QED
      BY <3>2, <3>3, <3>4 DEF Without
  <2>3. CASE Drop
    BY <2>3 DEF Drop, DropRepository, Without
  <2>4. ASSUME NEW q \in RepositoryID, NEW obs \in Observation, Recordable(obs),
               db'.container_bindings = Recorded(db.container_bindings, q, obs)
        PROVE  Stays(r)
    <3>1. IsTable(db.container_bindings, RepositoryID, BindingRow)
      BY <1>1, Unchanged
    <3>2. LET new == Recorded(db.container_bindings, q, obs) IN
          /\ DOMAIN db.container_bindings \subseteq DOMAIN new
          /\ \/ new[r].container = db.container_bindings[r].container
             \/ new[r].health = "present"
      BY <2>4, <3>1, RecordedTyped
    <3> QED
      BY <2>4, <3>2
  <2>5. CASE Observe
    <3>1. PICK q \in RepositoryID, obs \in Observation : RecordContainerObservation(q, obs)
      BY <2>5 DEF Observe
    <3>2. db'.container_bindings = Recorded(db.container_bindings, q, obs)
      BY <1>1, <3>1, Unchanged DEF RecordContainerObservation
    <3> QED
      BY <2>4, <3>1, <3>2 DEF RecordContainerObservation
  <2>6. CASE Commit
    <3>1. PICK w \in WorkspaceID, d \in Digest \cup {NULL}, op \in OperationRow,
              obs \in Observation \cup {NULL} : CommitReconciliation(w, d, obs, op)
      BY <2>6 DEF Commit
    <3>2. db'.container_bindings
            = IF obs = NULL THEN db.container_bindings
              ELSE Recorded(db.container_bindings, db.workspaces[w].repository_id, obs)
      BY <1>1, <3>1, Unchanged DEF CommitReconciliation
    <3>3. db.workspaces[w].repository_id \in RepositoryID
      BY <1>1, <3>1, Unchanged DEF CommitReconciliation, Known
    <3>4. CASE obs = NULL
      BY <2>1, <3>2, <3>4
    <3>5. CASE obs # NULL
      BY <2>4, <3>1, <3>2, <3>3, <3>5 DEF CommitReconciliation
    <3> QED
      BY <3>4, <3>5
  <2>7. CASE Allocate \/ Adopt \/ Operate \/ Rebind \/ UNCHANGED db
    <3>1. UNCHANGED db.container_bindings
      BY <1>1, <2>7, Unchanged DEF Allocate, AllocateSessionName, Adopt,
         AdoptSessionName, Operate, RecordOperation, Rebind, SetBind
    <3> QED
      BY <2>1, <3>1
  <2> QED
    BY <1>1, <2>2, <2>3, <2>5, <2>6, <2>7 DEF Next
<1>2. IInv /\ [Next]_db
        => [\A r \in DOMAIN db.container_bindings : Stays(r)]_db
  BY <1>1
<1> QED
  BY <1>2, StoreInvariant, PTL DEF BindingIdentityKept, Spec
-----------------------------------------------------------------------------
(* Other workspaces *)

\* A registration gives its workspace a row and takes no other workspace's: one
\* that went with a stale repository, or under a stale ID, was nobody's who can
\* be resolved now.
LEMMA RegistrationSpares ==
  ASSUME IInv, NEW ws \in Resolvable, NEW d \in Digest, RegisterWorkspace(ws, d),
         NEW v \in Resolvable
  PROVE  /\ Known(ws.id)'
         /\ Known(v.id) /\ v.id # ws.id
              => Known(v.id)' /\ db'.workspaces[v.id] = db.workspaces[v.id]
<1>1. DOMAIN db'.workspaces = DOMAIN Kept(ws) \cup {ws.id}
  BY Registration
<1>2. ASSUME Known(v.id), v.id # ws.id
      PROVE  v.id \in DOMAIN Kept(ws)
  <2>1. /\ db.workspaces[v.id].repository_id = v.repository_id
        /\ db.workspaces[v.id].session = v.session
        /\ v.repository_id \in DOMAIN db.repositories
             => db.repositories[v.repository_id].repo_root = v.repo_root
    BY <1>2 DEF IInv, IsPlaced, Known
  <2>2. v.id \notin RecordedAs(ws)
    BY <1>2, <2>1, ResolvableAssumption DEF RecordedAs, IDsAreDigests
  <2>3. v.id \notin Dead(ws)
    BY <2>1, ResolvableAssumption
       DEF Dead, Gone, OnRepositories, StaleRepositories, IDsAreDigests
  <2> QED
    BY <1>2, <2>2, <2>3, KeptRows DEF Known
<1>3. ASSUME Known(v.id), v.id # ws.id
      PROVE  v.id \in DOMAIN db'.workspaces
             /\ db'.workspaces[v.id] = db.workspaces[v.id]
  BY <1>1, <1>2, <1>3, Registration
<1> QED
  BY <1>1, <1>3 DEF Known

\* Beside its own row a registration leaves what can be resolved as it is: no
\* other workspace gets a row, and no repository a container.
LEMMA RegistrationLeaves ==
  ASSUME IInv, NEW ws \in Resolvable, NEW d \in Digest, RegisterWorkspace(ws, d),
         NEW v \in Resolvable
  PROVE  /\ v.id # ws.id /\ ~Known(v.id) => ~Known(v.id)'
         /\ BindingOf(v.repository_id)' = BindingOf(v.repository_id)
         /\ \A r \in DOMAIN db'.container_bindings :
              /\ r \in DOMAIN db.container_bindings
              /\ db'.container_bindings[r] = db.container_bindings[r]
<1>1. /\ DOMAIN db'.workspaces = DOMAIN Kept(ws) \cup {ws.id}
      /\ db'.container_bindings = Without(db.container_bindings, Gone(ws))
  BY Registration
<1>2. v.id # ws.id /\ ~Known(v.id) => ~Known(v.id)'
  BY <1>1, KeptRows DEF Known
<1>3. v.repository_id \notin Gone(ws)
  BY ResolvableAssumption
     DEF IInv, IsPlaced, IDsAreDigests, Gone, StaleRepositories
<1>4. /\ DOMAIN db'.container_bindings = DOMAIN db.container_bindings \ Gone(ws)
      /\ \A r \in DOMAIN db.container_bindings \ Gone(ws) :
           db'.container_bindings[r] = db.container_bindings[r]
  <2> DEFINE bindings == db.container_bindings
  <2>1. db'.container_bindings = Without(bindings, Gone(ws))
    BY <1>1
  <2>2. /\ DOMAIN Without(bindings, Gone(ws)) = DOMAIN bindings \ Gone(ws)
        /\ \A r \in DOMAIN bindings \ Gone(ws) :
             Without(bindings, Gone(ws))[r] = bindings[r]
    BY WithoutRows
  <2> QED
    BY <2>1, <2>2
<1>5. BindingOf(v.repository_id)' = BindingOf(v.repository_id)
  BY <1>3, <1>4 DEF BindingOf
<1> QED
  BY <1>2, <1>4, <1>5

\* The transactions that leave a recorded session name alone.
Notes == Register \/ Allocate \/ Observe \/ Operate \/ Commit \/ Rebind

\* What the commands do to the database: everything but the removal of a
\* repository.
Records == Notes \/ Adopt

\* Nothing that a command records takes a workspace's row.
LEMMA KnownStays ==
  ASSUME IInv, Records, NEW v \in Resolvable, Known(v.id)
  PROVE  Known(v.id)'
<1>1. CASE Register
  BY <1>1, RegistrationSpares DEF Register
<1>2. CASE Commit
  <2>1. PICK w \in WorkspaceID, d \in Digest \cup {NULL}, op \in OperationRow,
             obs \in Observation \cup {NULL} : CommitReconciliation(w, d, obs, op)
    BY <1>2 DEF Commit
  <2> DEFINE digest == IF d = NULL THEN db.workspaces[w].applied_digest ELSE d
             bindings == IF obs = NULL THEN db.container_bindings
                         ELSE Recorded(db.container_bindings,
                                       db.workspaces[w].repository_id, obs)
             ops == With(db.last_operations, w, op)
  <2>2. db' = [db EXCEPT !.workspaces[w].applied_digest = digest,
                         !.container_bindings = bindings, !.last_operations = ops]
    BY <2>1 DEF CommitReconciliation
  <2> HIDE DEF digest, bindings, ops
  <2> QED
    BY <2>2, Unchanged DEF Known
<1>3. CASE Allocate \/ Adopt \/ Observe \/ Operate \/ Rebind
  <2>1. DOMAIN db'.workspaces = DOMAIN db.workspaces
    <3>1. CASE Allocate \/ Adopt
      <4>1. \/ UNCHANGED db
            \/ \E w, n : db' = [db EXCEPT !.workspaces[w].actual_session = n]
        BY <3>1 DEF Allocate, AllocateSessionName, Adopt, AdoptSessionName
      <4> QED
        BY <4>1, Unchanged
    <3>2. CASE Observe \/ Operate
      BY <3>2, Unchanged DEF Observe, RecordContainerObservation, Operate,
         RecordOperation
    <3>3. CASE Rebind
      BY <3>3, Unchanged DEF Rebind, SetBind
    <3> QED
      BY <1>3, <3>1, <3>2, <3>3
  <2> QED
    BY <2>1 DEF Known
<1> QED
  BY <1>1, <1>2, <1>3 DEF Records, Notes

\* A row that a command records is an earlier one, of the same repository, or
\* that of a workspace that had none.
LEMMA RowsAppear ==
  ASSUME IInv, Records, NEW w \in DOMAIN db'.workspaces
  PROVE  \/ /\ Known(w)
            /\ db'.workspaces[w].repository_id = db.workspaces[w].repository_id
         \/ ~Known(w) /\ \E v \in Resolvable : w = v.id
<1>1. ASSUME NEW ws \in Resolvable, NEW d \in Digest, RegisterWorkspace(ws, d)
      PROVE  \/ /\ Known(w)
                /\ db'.workspaces[w].repository_id = db.workspaces[w].repository_id
             \/ ~Known(w) /\ \E v \in Resolvable : w = v.id
  <2>1. CASE w = ws.id
    <3>1. db'.workspaces[w].repository_id = ws.repository_id
      BY <1>1, <2>1, Registration
    <3>2. Known(w) => db.workspaces[w].repository_id = ws.repository_id
      BY <2>1 DEF IInv, IsPlaced, Known
    <3> QED
      BY <2>1, <3>1, <3>2
  <2>2. CASE w # ws.id
    <3>1. w \in DOMAIN Kept(ws) /\ db'.workspaces[w] = db.workspaces[w]
      BY <1>1, <2>2, Registration
    <3>2. Known(w)
      BY <2>2, <3>1, KeptRows DEF Known
    <3> QED
      BY <3>1, <3>2
  <2> QED
    BY <2>1, <2>2
<1>2. CASE Commit
  <2>1. PICK x \in WorkspaceID, d \in Digest \cup {NULL}, op \in OperationRow,
             obs \in Observation \cup {NULL} : CommitReconciliation(x, d, obs, op)
    BY <1>2 DEF Commit
  <2> DEFINE digest == IF d = NULL THEN db.workspaces[x].applied_digest ELSE d
             bindings == IF obs = NULL THEN db.container_bindings
                         ELSE Recorded(db.container_bindings,
                                       db.workspaces[x].repository_id, obs)
             ops == With(db.last_operations, x, op)
  <2>2. db' = [db EXCEPT !.workspaces[x].applied_digest = digest,
                         !.container_bindings = bindings, !.last_operations = ops]
    BY <2>1 DEF CommitReconciliation
  <2> HIDE DEF digest, bindings, ops
  <2> QED
    BY <2>2, Unchanged DEF Known, WorkspaceRow
<1>3. CASE Observe \/ Operate
  <2>1. db'.workspaces = db.workspaces
    BY <1>3, Unchanged DEF Observe, RecordContainerObservation, Operate,
       RecordOperation
  <2> QED
    BY <2>1 DEF Known
<1>4. ASSUME NEW x, NEW name, db' = [db EXCEPT !.workspaces[x].actual_session = name]
      PROVE  Known(w) /\ db'.workspaces[w].repository_id = db.workspaces[w].repository_id
  BY <1>4, Unchanged DEF Known, WorkspaceRow
<1>5. ASSUME NEW x, NEW bind, db' = [db EXCEPT !.workspaces[x].bind = bind]
      PROVE  Known(w) /\ db'.workspaces[w].repository_id = db.workspaces[w].repository_id
  BY <1>5, Unchanged DEF Known, WorkspaceRow
<1>6. CASE Allocate \/ Adopt \/ Rebind
  <2>1. CASE UNCHANGED db
    BY <2>1 DEF Known
  <2> QED
    BY <1>4, <1>5, <1>6, <2>1 DEF Allocate, AllocateSessionName, Adopt,
       AdoptSessionName, Rebind, SetBind
<1> QED
  BY <1>1, <1>2, <1>3, <1>6 DEF Records, Notes, Register

\* A name once recorded stays in its row until another is adopted.
LEMMA NamesStay ==
  ASSUME IInv, Notes, NEW v \in Resolvable, Known(v.id),
         db.workspaces[v.id].actual_session # NULL
  PROVE  db'.workspaces[v.id].actual_session = db.workspaces[v.id].actual_session
<1> DEFINE Same == db'.workspaces[v.id].actual_session
                     = db.workspaces[v.id].actual_session
<1>1. ASSUME NEW ws \in Resolvable, NEW d \in Digest, RegisterWorkspace(ws, d)
      PROVE  Same
  <2>1. CASE v.id = ws.id
    <3>1. ws.id \in RecordedAs(ws)
      BY <2>1, OneRecorded DEF Known
    <3> QED
      BY <1>1, <2>1, <3>1, Registration
  <2>2. CASE v.id # ws.id
    BY <1>1, <2>2, RegistrationSpares
  <2> QED
    BY <2>1, <2>2
<1>2. CASE Commit
  <2>1. PICK x \in WorkspaceID, d \in Digest \cup {NULL}, op \in OperationRow,
             obs \in Observation \cup {NULL} : CommitReconciliation(x, d, obs, op)
    BY <1>2 DEF Commit
  <2> DEFINE digest == IF d = NULL THEN db.workspaces[x].applied_digest ELSE d
             bindings == IF obs = NULL THEN db.container_bindings
                         ELSE Recorded(db.container_bindings,
                                       db.workspaces[x].repository_id, obs)
             ops == With(db.last_operations, x, op)
  <2>2. db' = [db EXCEPT !.workspaces[x].applied_digest = digest,
                         !.container_bindings = bindings, !.last_operations = ops]
    BY <2>1 DEF CommitReconciliation
  <2> HIDE DEF digest, bindings, ops
  <2> QED
    BY <2>2, Unchanged DEF Known, WorkspaceRow
<1>3. CASE Observe \/ Operate
  <2>1. db'.workspaces = db.workspaces
    BY <1>3, Unchanged DEF Observe, RecordContainerObservation, Operate,
       RecordOperation
  <2> QED
    BY <2>1
<1>4. ASSUME NEW x, NEW name, db.workspaces[x].actual_session = NULL,
             db' = [db EXCEPT !.workspaces[x].actual_session = name]
      PROVE  Same
  BY <1>4, Unchanged DEF Known, WorkspaceRow
<1>5. CASE Allocate
  <2>1. CASE UNCHANGED db
    BY <2>1
  <2> QED
    BY <1>4, <1>5, <2>1 DEF Allocate, AllocateSessionName
<1>6. ASSUME NEW x, NEW bind, db' = [db EXCEPT !.workspaces[x].bind = bind]
      PROVE  Same
  BY <1>6, Unchanged DEF Known, WorkspaceRow
<1>7. CASE Rebind
  BY <1>6, <1>7 DEF Rebind, SetBind
<1> QED
  BY <1>1, <1>2, <1>3, <1>5, <1>7 DEF Notes, Register
=============================================================================
