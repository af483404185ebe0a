------------------------------- MODULE Opening -------------------------------
(***************************************************************************)
(* How commands open the state database together (internal/state: Open,    *)
(* migrate, OpenReadOnly; internal/cli/wiring.go; internal/target).        *)
(*                                                                         *)
(* A mutating command connects, which creates the file, its write-ahead    *)
(* log (-wal) and the log's index (-shm), and runs one migration per       *)
(* transaction until the schema is the one it was built for.  Whoever      *)
(* closes last checkpoints the log and removes both sidecars; a crash      *)
(* leaves them.  An inspection must not create, migrate or recover         *)
(* anything: it looks at the sidecars first, reads through the log only    *)
(* if both are there, and the bare file (immutable) only if there is no    *)
(* log, in which case it looks for one again when it has read.             *)
(*                                                                         *)
(* The content is a history of commits; a page of the file is the commit   *)
(* it was last written back from.  SQLite's automatic checkpoints of a     *)
(* large log are left out: the log stays, so every look still sees it.     *)
(***************************************************************************)
EXTENDS Naturals, Sequences

CONSTANTS
  Doctors,      \* doctor: only inspects
  Rebuilders,   \* rebuild: inspects, then opens what it may recover
  Selectors,    \* a command without a target: looks up binds, then opens
  Openers,      \* a command with a target: opens
  Supports,     \* the SchemaVersion of each command's build
  StartVersions,\* the schemas a database may be found at
  NULL          \* no writer

Command == Doctors \cup Rebuilders \cup Selectors \cup Openers

ASSUME OpeningAssumption ==
  /\ Supports \in [Command -> Nat \ {0}]
  /\ StartVersions \subseteq Nat
  /\ NULL \notin Command

VARIABLES
  exists, wal, shm,  \* which of the three files are there
  history,           \* the commits of the database, oldest first
  file,              \* the commit each page of state.db was written back from
  flaw,              \* whether the file is damaged, which nothing repairs
  writer,            \* the command whose immediate transaction is open
  connected,         \* the commands SQLite counts as connected
  pc,                \* where each command is
  next,              \* the migration a command's transaction is running
  since,             \* the newest commit when the command's inspection began
  cache,             \* the commit each page of an inspection was read from
  verdict            \* what the inspection found

disk == <<exists, wal, shm, history, file>>
finding == <<since, cache, verdict>>
openingVars == <<disk, flaw, writer, connected, pc, next, finding>>

Page == {"head", "body"}   \* the header with user_version, and the rows
Unread == [pg \in Page |-> 0]

Inspecting == {"stat", "wal", "shm", "ordinary", "check", "version",
               "immutable", "again", "decide", "rows"}
Opening == {"begin", "began", "applied", "ready", "close", "checkpoint",
            "unlink"}

Newest == Len(history)
Version == history[Newest].version

\* The last connection to close holds the file exclusively while it cleans up.
Exclusive == \E c \in Command : pc[c] \in {"checkpoint", "unlink"}

Goto(c, l) == pc' = [pc EXCEPT ![c] = l]
Concludes(c, v) == verdict' = [verdict EXCEPT ![c] = v] /\ Goto(c, "decide")
Disconnect(c) == connected' = connected \ {c}

-----------------------------------------------------------------------------
\* A database nobody has open: none at all, one closed properly, or one whose
\* last writer crashed, with the log and perhaps its index beside it.
Init ==
  /\ \E v \in StartVersions :
       /\ history \in {<<[ran |-> 0, version |-> v]>>,
                       <<[ran |-> 0, version |-> v], [ran |-> 0, version |-> v]>>}
       /\ exists \in BOOLEAN /\ wal \in BOOLEAN /\ shm \in BOOLEAN
       /\ ~exists => v = 0 /\ ~wal
       /\ ~wal => ~shm /\ Newest = 1
  /\ file = [pg \in Page |-> 1]
  /\ flaw \in BOOLEAN /\ (flaw => exists)
  /\ writer = NULL
  /\ connected = {}
  /\ pc = [c \in Command |-> IF c \in Openers THEN "begin" ELSE "stat"]
  /\ next = [c \in Command |-> 0]
  /\ since = [c \in Command |-> 0]
  /\ cache = [c \in Command |-> Unread]
  /\ verdict = [c \in Command |-> "none"]

-----------------------------------------------------------------------------
\* OpenReadOnly, one look or read at a time.

\* Usable's verdict of a schema version.
VersionVerdict(c, v) ==
  CASE v > Supports[c] -> "future"
    [] v < Supports[c] -> "pending"
    [] OTHER -> "usable"

StatDatabase(c) ==
  /\ pc[c] = "stat"
  /\ since' = [since EXCEPT ![c] = Newest]
  /\ IF exists THEN Goto(c, "wal") /\ UNCHANGED verdict
               ELSE Concludes(c, "missing")
  /\ UNCHANGED <<disk, flaw, writer, connected, next, cache>>

\* Mutant: a log is no reason not to read the bare file.
StatWalIgnored(c) ==
  /\ pc[c] = "wal"
  /\ Goto(c, "immutable")
  /\ UNCHANGED <<disk, flaw, writer, connected, next, finding>>

\* walStateOf looks for the log, and only then for its index.
StatWal(c) ==
  /\ pc[c] = "wal"
  /\ Goto(c, IF wal THEN "shm" ELSE "immutable")
  /\ UNCHANGED <<disk, flaw, writer, connected, next, finding>>

StatShm(c) ==
  /\ pc[c] = "shm"
  /\ IF shm THEN Goto(c, "ordinary") /\ UNCHANGED verdict
            ELSE Concludes(c, "incomplete")
  /\ UNCHANGED <<disk, flaw, writer, connected, next, since, cache>>

\* The ordinary path's first query connects; SQLite creates whichever sidecar
\* is no longer there.
Connect(c) ==
  /\ pc[c] = "ordinary" /\ ~Exclusive
  /\ connected' = connected \cup {c}
  /\ wal' = TRUE /\ shm' = TRUE
  /\ Goto(c, "check")
  /\ UNCHANGED <<exists, history, file, flaw, writer, next, finding>>

CheckIntegrity(c) ==
  /\ pc[c] = "check"
  /\ IF flaw THEN Concludes(c, "corrupt")
             ELSE Goto(c, "version") /\ UNCHANGED verdict
  /\ UNCHANGED <<disk, flaw, writer, connected, next, since, cache>>

ReadVersion(c) ==
  /\ pc[c] = "version"
  /\ Concludes(c, VersionVerdict(c, Version))
  /\ UNCHANGED <<disk, flaw, writer, connected, next, since, cache>>

\* The immutable path takes no lock and reads every page once; its later
\* queries are answered from the pages it has.
ReadPage(c, pg) ==
  /\ pc[c] = "immutable" /\ cache[c][pg] = 0
  /\ cache' = [cache EXCEPT ![c][pg] = file[pg]]
  /\ UNCHANGED <<disk, flaw, writer, connected, pc, next, since, verdict>>

\* Pages of different commits may or may not pass for a sound database.
CheckImage(c) ==
  /\ pc[c] = "immutable" /\ \A pg \in Page : cache[c][pg] # 0
  /\ \/ /\ ~flaw
        /\ verdict' = [verdict EXCEPT ![c] =
                         VersionVerdict(c, history[cache[c]["head"]].version)]
     \/ /\ flaw \/ cache[c]["head"] # cache[c]["body"]
        /\ verdict' = [verdict EXCEPT ![c] = "corrupt"]
  /\ Goto(c, "again")
  /\ UNCHANGED <<disk, flaw, writer, connected, next, since, cache>>

\* The second look: a log means that a writer arrived.
LookAgain(c) ==
  /\ pc[c] = "again"
  /\ Concludes(c, IF wal THEN "written" ELSE verdict[c])
  /\ UNCHANGED <<disk, flaw, writer, connected, next, since, cache>>

\* A look, the connection or a query fails: the contents stay unexamined.
InspectionFails(c) ==
  /\ pc[c] \in {"wal", "shm", "ordinary", "check", "version", "immutable"}
  /\ Concludes(c, "unexamined")
  /\ UNCHANGED <<disk, flaw, writer, connected, next, since, cache>>

\* rebuildDatabaseCheck lets rebuild open what only a mutating command can
\* complete; sessionForCwd falls back to the default session only where
\* nothing can be bound, or where the schema is not its business.
Accepted(c) ==
  CASE c \in Rebuilders -> {"missing", "incomplete", "pending", "usable"}
    [] c \in Selectors -> {"missing", "pending"}
    [] OTHER -> {}

\* The caller reads rows, opens the database or stops; the inspection's
\* connection is closed first, and as a reader it cleans nothing up.
Decide(c) ==
  /\ pc[c] = "decide"
  /\ IF verdict[c] = "usable" /\ c \notin Rebuilders
     THEN Goto(c, "rows") /\ UNCHANGED connected
     ELSE /\ Goto(c, IF verdict[c] \in Accepted(c) THEN "begin" ELSE "done")
          /\ Disconnect(c)
  /\ UNCHANGED <<disk, flaw, writer, next, finding>>

\* Workspaces: the rows of the newest commit, or of the image already read.
ReadRows(c) ==
  /\ pc[c] = "rows"
  /\ cache' = IF c \in connected
              THEN [cache EXCEPT ![c] = [pg \in Page |-> Newest]] ELSE cache
  /\ Goto(c, IF c \in Selectors THEN "begin" ELSE "done")
  /\ Disconnect(c)
  /\ UNCHANGED <<disk, flaw, writer, next, since, verdict>>

-----------------------------------------------------------------------------
\* Open, and the command behind it.

\* Mutant: the transaction starts deferred and takes no write lock.
BeginDeferred(c) ==
  /\ pc[c] = "begin" /\ ~Exclusive
  /\ writer' = c
  /\ connected' = connected \cup {c}
  /\ exists' = TRUE /\ wal' = TRUE /\ shm' = TRUE
  /\ Goto(c, "began")
  /\ UNCHANGED <<history, file, flaw, next, finding>>

\* Begin with _txlock=immediate: connects, creating or recovering the files,
\* and takes the write lock.  Each SQLITE_BUSY before is a retry.
Begin(c) ==
  /\ pc[c] = "begin" /\ ~Exclusive /\ writer = NULL
  /\ writer' = c
  /\ connected' = connected \cup {c}
  /\ exists' = TRUE /\ wal' = TRUE /\ shm' = TRUE
  /\ Goto(c, "began")
  /\ UNCHANGED <<history, file, flaw, next, finding>>

Finishes(c) == Goto(c, IF c \in connected THEN "close" ELSE "done")

\* The busy budget, or the command's own busy timeout, runs out.
Busy(c) ==
  /\ pc[c] \in {"begin", "ready"} /\ (Exclusive \/ writer # NULL)
  /\ Finishes(c)
  /\ UNCHANGED <<disk, flaw, writer, connected, next, finding>>

\* Mutant: the transaction that found nothing to do is not rolled back.
ApplyNextKeepsLock(c) ==
  /\ pc[c] = "began"
  /\ \/ /\ Version < Supports[c]
        /\ next' = [next EXCEPT ![c] = Version + 1]
        /\ Goto(c, "applied")
     \/ /\ Version >= Supports[c] /\ UNCHANGED next
        /\ Goto(c, IF Version > Supports[c] THEN "close" ELSE "ready")
  /\ UNCHANGED <<disk, flaw, writer, connected, finding>>

\* applyNext reads the version inside the transaction, runs the one migration
\* that follows it, or ends the transaction: a newer schema is refused.
ApplyNext(c) ==
  /\ pc[c] = "began"
  /\ \/ /\ Version < Supports[c]
        /\ next' = [next EXCEPT ![c] = Version + 1]
        /\ Goto(c, "applied") /\ UNCHANGED writer
     \/ /\ Version >= Supports[c] /\ UNCHANGED next
        /\ Goto(c, IF Version > Supports[c] THEN "close" ELSE "ready")
        /\ writer' = NULL
  /\ UNCHANGED <<disk, flaw, connected, finding>>

\* Mutant: migrate applies one migration and does not go round again.
CommitOnce(c) ==
  /\ pc[c] = "applied"
  /\ history' = Append(history, [ran |-> next[c], version |-> next[c]])
  /\ writer' = NULL
  /\ Goto(c, "ready")
  /\ UNCHANGED <<exists, wal, shm, file, flaw, connected, next, finding>>

\* The migration and its user_version commit together, and migrate loops.
Commit(c) ==
  /\ pc[c] = "applied"
  /\ history' = Append(history, [ran |-> next[c], version |-> next[c]])
  /\ writer' = NULL
  /\ Goto(c, "begin")
  /\ UNCHANGED <<exists, wal, shm, file, flaw, connected, next, finding>>

\* The command's own work: nothing, or a transaction that writes rows.
Work(c) ==
  /\ pc[c] = "ready"
  /\ \/ UNCHANGED history
     \/ /\ writer = NULL
        /\ history' = Append(history, [ran |-> 0, version |-> Version])
  /\ Goto(c, "close")
  /\ UNCHANGED <<exists, wal, shm, file, flaw, writer, connected, next, finding>>

\* Close: the last connection cleans up, any other just leaves.
Close(c) ==
  /\ pc[c] = "close" /\ ~Exclusive
  /\ IF connected = {c} THEN Goto(c, "checkpoint") /\ UNCHANGED connected
                        ELSE Goto(c, "done") /\ Disconnect(c)
  /\ UNCHANGED <<disk, flaw, writer, next, finding>>

WriteBack(c, pg) ==
  /\ pc[c] = "checkpoint" /\ file[pg] # Newest
  /\ file' = [file EXCEPT ![pg] = Newest]
  /\ UNCHANGED <<exists, wal, shm, history, flaw, writer, connected, pc, next, finding>>

\* SQLite removes the index before the log.
RemoveIndex(c) ==
  /\ pc[c] = "checkpoint" /\ \A pg \in Page : file[pg] = Newest
  /\ shm' = FALSE
  /\ Goto(c, "unlink")
  /\ UNCHANGED <<exists, wal, history, file, flaw, writer, connected, next, finding>>

RemoveLog(c) ==
  /\ pc[c] = "unlink"
  /\ wal' = FALSE
  /\ Disconnect(c)
  /\ Goto(c, "done")
  /\ UNCHANGED <<exists, shm, history, file, flaw, writer, next, finding>>

\* A connected process dies: the kernel drops its locks, SQLite its
\* transaction; nobody cleans up after it.
Crash(c) ==
  /\ c \in connected
  /\ writer' = IF writer = c THEN NULL ELSE writer
  /\ Disconnect(c)
  /\ Goto(c, "done")
  /\ UNCHANGED <<disk, flaw, next, finding>>

-----------------------------------------------------------------------------

Inspect(c) ==
  \/ StatDatabase(c) \/ StatWal(c) \/ StatShm(c) \/ Connect(c)
  \/ CheckIntegrity(c) \/ ReadVersion(c) \/ CheckImage(c) \/ LookAgain(c)
  \/ \E pg \in Page : ReadPage(c, pg)
  \/ Decide(c) \/ ReadRows(c)

Mutate(c) ==
  \/ Begin(c) \/ ApplyNext(c) \/ Commit(c) \/ Work(c) \/ Close(c)
  \/ \E pg \in Page : WriteBack(c, pg)
  \/ RemoveIndex(c) \/ RemoveLog(c)

Next ==
  \E c \in Command :
    Inspect(c) \/ Mutate(c) \/ InspectionFails(c) \/ Busy(c) \/ Crash(c)

Spec == Init /\ [][Next]_openingVars

\* A command that can go on does; no call has to fail, no wait to run out.
FairSpec == Spec /\ \A c \in Command : WF_openingVars(Inspect(c) \/ Mutate(c))

-----------------------------------------------------------------------------
(***************************************************************************)
(* However many commands, of whichever builds, open a database at once,    *)
(* and wherever they die, each migration runs once and in order: every     *)
(* commit either keeps the schema or is the migration that follows it      *)
(* (migrate.go:41-44, "never replay a migration").                         *)
(***************************************************************************)
MigrationsInOrder ==
  \A i \in 2..Newest :
    LET was == history[i - 1].version now == history[i] IN
    \/ now.ran = 0 /\ now.version = was
    \/ now.ran = was + 1 /\ now.version = was + 1

(***************************************************************************)
(* A command that has opened the store works on a schema at least as new   *)
(* as its build's: Open returns only after every pending migration.        *)
(***************************************************************************)
OpenIsCurrent ==
  \A c \in Command : pc[c] = "ready" => Version >= Supports[c]

(***************************************************************************)
(* An inspection omits nothing that was committed before it began, though  *)
(* the log may hold it (readonly.go:112-116, "silently omit committed      *)
(* rows"), and calls a schema old or new only if it was so meanwhile.      *)
(***************************************************************************)
InspectionIsCurrent ==
  \A c \in Command :
    LET Seen == {history[i].version : i \in since[c]..Newest} IN
    /\ \A pg \in Page : cache[c][pg] # 0 => cache[c][pg] >= since[c]
    /\ verdict[c] = "pending" => \E v \in Seen : v < Supports[c]
    /\ verdict[c] = "future" => \E v \in Seen : v > Supports[c]

(***************************************************************************)
(* No damage is reported of a sound database: what an immutable read saw   *)
(* while a writer wrote is discarded, "neither its rows nor its verdict on *)
(* integrity are worth reporting" (readonly.go:133-135).                   *)
(***************************************************************************)
NoFalseDamage ==
  \A c \in Command : verdict[c] = "corrupt" /\ pc[c] # "again" => flaw

(***************************************************************************)
(* Every command ends: none waits for a lock nobody will give back, and    *)
(* the migration loop terminates, even if no patience runs out.            *)
(***************************************************************************)
EveryCommandEnds == <>(\A c \in Command : pc[c] = "done")
=============================================================================
