# A TLA+ model of projectmux

projectmux gives every git repository one or more *workspaces*. A workspace has
a tmux session, and all workspaces of a repository share one dev container.
`open` makes session and container exist, `stop` ends them, `bind` chooses the
directory a session starts in, `autostart` starts containers at boot, and
`rebuild` recovers a lost or migrated database from the live sessions. Each
command is a process of its own. Commands agree through file locks and a SQLite
database, while tmux and docker, which hold the real state, are open to everyone.

This directory holds a TLA+ model of that program, the TLC instances that check
it, and theorems TLAPS has proved about it. `PROJECT.json` maps each definition
to the source lines it stands for.

    tlc -config MCFileLocks.cfg MCFileLocks.tla      # and likewise the other .cfg files
    tlapm SafetyProofs.tla                           # and likewise the other *Proofs modules

## Inventory

| Part | State it keeps | Operations | What makes it correct |
|---|---|---|---|
| Locks (`internal/lock`, `controller/locking.go`) | one flock per repository or workspace key | acquire with a deadline, release, both in a fixed order | no leak, exclusion, no deadlock, every wait ends |
| State store (`internal/state/store.go`) | four tables | register, drop, allocate or adopt a name, record a container or an outcome, commit, bind | schema constraints; what re-registration, observation and allocation must keep |
| Planning (`controller/plan.go`) | none | refuse, create, adopt, leave; start, acquire, probe a container | never acts on uncertainty or on a foreign session |
| Commands (`controller/ensure.go`, `stop.go`, `bind.go`, `autostart.go`) | what one command remembers between calls | open, stop, bind, autostart | success is true; nothing foreign is killed; one session, one container; a crash is repaired by the next run |
| tmux adapter (`internal/tmux`) | none; the server has the sessions | observe, create, kill, retag | absence is never confused with failure |
| Container adapter (`internal/container`) | none; docker has the containers | probe, discover, up, stop | the same, and idempotence |
| Runner (`internal/run`) | none | run a subprocess with a timeout | a call ends |
| Resolution (`internal/resolve`, `target`) | none; the file system has the trees | a name, or the directory one is in, to a workspace | one identity per workspace; the nearest bind wins |
| Bind paths (`internal/bindpath`) | one relative path per session, in the store | to and from the recorded form | never leads out of the repository; whatever can be bound is found again |
| Rebuild (`internal/rebuild`) | none | classify, apply, migrate | only fills in; can be run again after a failure |
| Schema (`state/migrate.go`, `migrations`) | schema version | migrate on open | each migration once and in order under concurrency |
| Inspection (`state/readonly.go`) | none; SQLite keeps the log and its index beside the file | open without writing | omits nothing committed; reports no damage that is not there |
| Configuration (`internal/config`) | none; three YAML files per workspace | load, merge, normalise, validate, attribute, digest | precedence and origin of each value; one verdict everywhere |
| `doctor`, `status`, `list`, `attach` (`internal/doctor`, `internal/cli`) | none | observe, report, connect | what is reported was so; a connection is to one's own session |
| Command line (`internal/cli`) | none | parse, call, render, exit code | an exit code says what happened |

How they interact: a command resolves its workspace, takes its locks, reads the
store, calls tmux and docker as subprocesses, and writes what it did in one
transaction. No two of these are one step. What is hard here is what happens
between two calls: another process with other locks, a user at tmux or docker,
a call that fails after it took effect, a kill. `PROJECT.json` lists these
places as hazards, with the properties that watch them.

## Modules

| Module | Models |
|---|---|
| `FileLocks` | the two kinds of lock, with any number of processes |
| `StateStore` | the database, one action per transaction |
| `Planning` | the pure decisions of an `open` |
| `Controller` | the commands; instantiates the three above |
| `Rebuild` | the runs of `rebuild`; extends `Controller`, whose commands run beside them |
| `Opening` | how commands inspect, migrate, use and close one database at once |
| `Configuration` | how layers are read, merged, attributed and judged |
| `Selection` | how a command finds its session, and the directory that opens in |
| `Observation` | what `list`, `status`, `doctor` and `attach` make of a changing installation |
| `FileLocksProofs`, `StateStoreProofs`, `OpeningProofs`, `ObservationProofs`, `SelectionProofs`, `RebuildProofs` | theorems about one module each |
| `CommandProofs`, `SafetyProofs` | theorems about `Controller`: its locks, its types and its use of the store; and, on top of these, its promises and that success is true |
| `MCFileLocks`, `MCStateStore`, `MCController`, `MCRebuild`, `MCOpening`, `MCConfiguration`, `MCSelection`, `MCObservation` | instances for TLC |

**FileLocks.** `phase[p]` is where process `p` is in `lockPhases`: polling for
the repository's lock, polling for the workspace's, at work (`held`), or in
one of the two steps of the release closure. `want[p]` is its pair of keys, of
which either may be absent. A poll that finds the lock free takes it. `TimeOut`
is a poll past the deadline, and `AcquireFails` the errors of opening or
locking the file and the interrupted wait. `Crash` gives up every file the
process had open, as the kernel does.

**StateStore.** `db` has the four tables as functions from keys to rows. All
mutating methods run in one immediate transaction, hence one action each.
`RegisterWorkspace` contains the deletion of stale repositories, the re-keying
of a row migration 0002 left under an old ID (which is the digest that became
its repository's ID) and the two upserts. `AllocateSessionName` takes the
candidates in order. The UNIQUE constraint on `actual_session` is `NameTaken`.

**Planning.** The observation is a record (see the module's header). Four
identity keys become two parts: the workspace ID, by which a session is found,
and the rest, which must agree for it to be the workspace's own.

**Controller.** `at[p]` names the call that process `p` makes next. One action
is one transaction or one external call, together with what the code computes
from its result. `snap[p]` is what the command remembers of its observations,
forgotten as soon as no later call uses it. The labels follow the code:

| Command | Calls |
|---|---|
| open | `register`, (`bind`), `read`, `look`, `probe`, (`reprobe`), (`up`, `upping`), then `commit`, or `adopt` and `commit`, or `allocate`, `occupant`, `create`, `confirm`, `commit` |
| stop | `read`, (`siblings`), `look`, (`kill`), (`stop_container`), (`commit`) |
| bind | `read`, (`register`), `bind` |
| autostart | `read`, `probe`, (`reprobe`), (`up`, `upping`), (`record`) |

`fail` is the best-effort recording of a failure; `ok` and `error` are the
return before the locks are released. Every call may fail without effect
(`CallFails`), and create, kill, up and docker stop may also take effect and
still be reported as failed (`Answers`). `devcontainer up` has two steps, because
it decides what to do some time before it has done it. `autostart` is one process
per repository here: it works through them one after the other, and keeps nothing
from one for the next but the row it rereads under the lock.

Users act at any moment, under no lock: they kill, rename, retag and create
tmux sessions, and start, stop and remove containers. The database can be lost
while no command runs. `disturbed` remembers which commands were at work during
such an act, so that a property can hold a command to its word only when nobody
interfered.

**Rebuild.** `job[p]` is what one run remembers: the sessions it listed (`live`),
the work list it is on (`loop`, `todo`), the entry at hand (`item`), the call it
makes next (`at`) and what it has to report (`flaws`). The lists are those of
`collapseRows`, `retagSessions` and `Apply`; each entry takes one lock, makes its
calls and releases it:

| List | Lock | Calls |
|---|---|---|
| collapse | the parent's repository | `register parent`, `drop` |
| retag | the workspace resolved to | `tag root`, `tag id` |
| apply | the workspace resolved to | `observe`, `reread`, then `register` and `adopt`, or `adopt` |

`CaseOf` is `Classify` for one session, and the code runs it twice: over the list
for candidates, and over one session and one row under the lock. Git's answers are
the constant `MainOf`. The code sorts its lists; here they are worked in any
order. A row that is dropped because its path is gone is dropped under no lock.
`Dies` kills a run between any two calls. The ghost fields `settled` and `keyed`
remember whether, when the run listed, there was nothing to do and no row under an
old ID. The old sessions carry the slug of their
main worktree, as the fixtures of `migrate_test.go` do.

**Opening.** The content of the database is `history`, its commits; `file` says
for each of two pages which commit it was last written back from, and `wal` and
`shm` whether the log and its index are there. `pc[c]` follows a command through
the looks and reads of `OpenReadOnly`, the caller's decision (`inspectDatabase`
of doctor, `rebuildDatabaseCheck`, `sessionForCwd`), the loop of `migrate`, one
transaction of its own, and the close, which SQLite makes a checkpoint, page by
page, when it is the last. `Supports[c]` is the schema of the command's build.
What SQLite does is modelled from its documented behaviour and marked external:
who connects creates missing sidecars, the last to close writes back and removes
first the index and then the log, a crash leaves both, an immutable reader takes
no lock. A database that a crash left with a log is recovered by whoever
connects. SQLite's automatic checkpoints are left out: the log stays, so every
look still sees it.

**Configuration.** A layer states scalar keys and windows, each possibly
omitted, with values validation can tell apart. `MergeLayers` is `mergeLayers`
with its helpers, credit included; `Normalize`, `Problem`, `Validate` and
`DefaultsProblems` are the code's functions on the same shapes. The state machine
reads one file at a time, so that a file may be edited between two reads, and
follows the load of one workspace, `config --validate` of all workspaces or of
one, or doctor's check. An origin is a file; its line is left out.

**Selection.** A path is a sequence of names, and `tree` says what is at each:
nothing, a directory, a link, a repository's main worktree or a linked one.
`canonicalize` follows links from the root on. An `open` or `bind` starts with
any of the arguments and directories of the instance, resolves its repository,
reads the records without a lock if it is bare, matches the binds, takes the
session's lock, records, and (for an open) looks the bind up again to build
windows. Users replace directories and move repositories in between.

**Observation.** An observer reads the records, lists the sessions and asks for
their values one call at a time; the four identity keys are two fields, as in
`Planning`. The others, commands and users alike, register, create, end and
rename sessions and change containers in between. The ghost variables keep what
the properties compare with: `steady` the sessions that did not change, `been`
what each ID's session ever was, `orphaned` and `gone` what was ever so.

## Runs

| Run | Shows |
|---|---|
| `locks` | three processes, one repository, two workspaces, all footprints: `NoLeakedLock`, `MutualExclusion`, `NoCircularWait`, `EveryCommandEnds` |
| `store` | all transactions from three databases: `Integrity`, `RegistrationPreserves`, `BindingIdentityKept` |
| `sessions` | two repositories of the same name, so the same proposed session name; three commands, two acts of a user: `KillHitsOwnSession` |
| `containers` | two workspaces of a repository and its container; three commands, one failing call, one crash, one act: `OneContainerPerRepository`, `OneSessionPerWorkspace`, `SuccessIsTrue`, `StopSparesSiblings` |
| `crashes` | every command, two crashes, nothing else going wrong, under fairness: `RecordNamesSession`, `CrashNeverWedges`, `EveryCommandEnds` |
| `rebuild` | six installations to recover; two runs, or a run and an open, one failing call, one crash, one kill or rename: the properties of rebuild below |
| `opening` | doctor, a command without a target and one with, of two builds, on new and existing databases, after crashes and not: `MigrationsInOrder`, `OpenIsCurrent`, `InspectionIsCurrent`, `EveryCommandEnds` |
| `configuration` | all triples of the chosen layers, up to two workspaces, one command each: `LastWordDecides`, `OriginDecides`, `DefaultsVerdictHolds`, `CommandsAgree` |
| `selection` | two opens or binds over a tree with a link inside, one outside and a linked worktree, one edit: `OpensWhereBound`, `BareSelectsDeepest`, `BindClaimsDirectory` |
| `observation` | one observer, three changes, five installations: `ObservationIsTrue`, `FindingsAreTrue`, `AttachHitsOwn` |
| `false_damage`, `upgraded` | disagreements of code and documentation, below |

The properties of the controller:

- `SuccessIsTrue`: a command about to return success has achieved what it
  reports. An open has a session of its own, live under the recorded name, and
  a running bound container. A stop has no session left. A bind is recorded.
- `KillHitsOwnSession`: what a stop kills claims the stop's workspace.
- `OneSessionPerWorkspace`, `OneContainerPerRepository`: nothing is made twice.
- `StopSparesSiblings`: the sibling check still holds when the container stops.
- `RecordNamesSession`: a session projectmux made is always recorded by name.
- `CrashNeverWedges`: after crashes alone, the next open or bind does not fail.
- `EveryCommandEnds`: a command that started ends.

The properties of rebuild:

- `RebuildTypeOK`: each call holds the lock of what it writes.
- `FillOnly`: recovering a session changes a row only by giving it a name it
  had not, whatever was registered between the classification and the lock. It
  speaks of runs that began when no row awaited re-keying (see below).
- `RepositoryKept`: a collapse interrupted anywhere loses no repository.
- `GroupStaysApart`: no retag merges two sessions of the list.
- `LoneSessionRecovered`: a session that nothing competes with is recorded when
  a run without failures reports, also after a first run died half way. It leaves
  out sessions whose own old row has their name: `upgraded` is about them.
- `CleanReportIsTrue`: exit 0 means that nothing is left to do.
- `SettledStaysQuiet`: where nothing was to do, no conflict is reported.

The properties of opening:

- `MigrationsInOrder`: every commit keeps the schema or is the migration after it.
- `OpenIsCurrent`: a command at work finds no migration of its build pending.
- `InspectionIsCurrent`: an inspection sees every commit from before it began,
  and calls a schema old or new only if it was so meanwhile.
- `EveryCommandEnds`: no lock is kept, and the migration loop terminates.

The properties of configuration:

- `ConfigTypeOK`: beside the shape of the state, a configuration that loads is
  one the tmux and container code can take: every window and pane runs one way,
  at most one window is focused, none is in a disabled container.
- `LastWordDecides`, `OriginDecides`: the merged value of every key is the last
  one stated, modes and panes as wholes, and the origins kept are exactly those
  of the stated keys, each the file that stated it last. Both are defined from the list of mentions, without the merge.
- `DefaultsVerdictHolds`: defaults pass alone exactly when they pass merged.
- `CommandsAgree`: `config --validate` and doctor draw one conclusion,
  and, asked of one workspace, the former exits 0 exactly when an open of it gets
  a configuration.

The properties of selection:

- `BareSelectsDeepest`: a bare command gets the nearest bind above its directory,
  found here by walking up, in the code by comparing depths.
- `BindClaimsDirectory`: what can be bound, under any spelling, is found again.
  Relative arguments are read against the working directory, as the code does.
- `OpensWhereBound`: windows are built from the bind recorded, and inside the
  repository, whatever became of the directory since it was bound.

The properties of observation:

- `ObservationIsTrue`: no session that stood still is missed; one that is told
  of was there under that ID and name, and, if the server was not replaced, the
  workspace it is told to be is the one it had.
- `FindingsAreTrue`: an orphan doctor reports of rows it reads through the log
  was one, and a container it reports gone was gone.
- `AttachHitsOwn`: attach connects to its own workspace's session or to none,
  unless users named sessions by hand, the server was replaced while attach read,
  or the record of a live session was lost. It holds because a recorded name is
  no other workspace's, not because of anything attach checks.

Each property is confirmed by a mutant in the modules (definitions marked
`Mutant`), a plausible bug under which TLC finds the property violated.

**Bounds.** `Limits` bounds how many commands start and how many faults,
crashes and acts happen in a behaviour; state constraints are not used. Two
processes suffice for every race the code has over one lock, since a third
would wait; three commands allow a first to set the scene for a race of two.
Two candidate names make the first one taken and the second free. Two containers
per repository show a second one when it is made. The installations of `rebuild` are: a lost database
with two live sessions; an upgraded linked worktree next to a vanished one; two
live sessions of one upgraded repository next to a path git does not answer for;
a row that was registered but not given its name; and the row migration 0002 leaves
of a main worktree, under its old ID, with the name of its live session and without. Three processes in `locks` are
what a circle of two kinds of lock would need. In `opening` each of the three
commands is of a kind of its own (inspects, inspects and opens, opens), with two
builds one migration apart, so that each can meet a schema below, at and above its
own, and migrations 1 and 2 can interleave; two pages are the fewest that can be
torn. The layers of `configuration` state few keys each, chosen so that every rule
is broken by one layer, by two together, and mended by a later one. `selection`
has binds nested three deep, one directory bound under two names, and one edit
of the tree, since a second edit can only restore or repeat; its two processes
race for one record. Three changes in `observation` can end a session, start
another under its name and register it. `Process` is a symmetry set where
no liveness is checked and no process is set apart to rebuild; the two containers
of one repository are another.

**ExitEmpty.** A tmux server exits with its last session unless `exit-empty` is
off, and the next one numbers its sessions from `$0` again. The constant is TRUE,
tmux's default, in `containers`, `crashes` and `rebuild`, and `Observation` always
behaves so. In `sessions` it is FALSE: `KillHitsOwnSession` is about IDs within
one server, and across servers it does not hold (see below).

**Fairness.** `EveryCommandEnds` assumes weak fairness of each process's own
steps and no more. Every subprocess has a timeout (`internal/run`), a lock wait
has a deadline, and a database transaction a busy timeout, so a process that is
not killed takes its next step. No fairness is assumed between processes that
poll for one lock, of users, or of commands being started. In `Opening` the same
holds of each command's own steps; a failing look, an exhausted busy timeout and
a crash are never required, so the property says that no command depends on one. `Rests` lets the
system stand still between commands, so deadlock checking stays on there and means
that a command at work can always go on. The instances of the four later modules
end when their commands have, and do not check for deadlock.

## Where code and documentation disagree

- `false_damage`: an immutable inspection looks for a log before and after it
  reads, and discards what it read if a writer arrived. A writer that arrives,
  commits, checkpoints and closes between the looks leaves no log. The pages read
  are of two commits, their integrity check may fail, and rebuild or doctor
  reports a sound database as corrupt.
- `upgraded`: of an upgrade it is documented that "a lone running session is
  adopted rather than duplicated". A repository recorded at its main worktree
  before migration 0002 keeps its row, with the session's name, under the old ID.
  Rebuild retags the session to the new ID and then refuses it, because the name
  is taken by its own row. Every rebuild exits 6 until an open re-keys the row.

More was seen while modelling, and no run checks it:

- Killing by session ID is safe within one server only. When the last session
  dies the server exits, and the next server's `$0` may be a stranger's session
  (`actuate.go:153` says an ID "can never be reused"). For the same reason
  `KillSession` knows the message of a vanished session but not that of a server
  that left with it, and an idempotent stop fails. Even `SuccessIsTrue` is
  lost: a stop looks, a user ends the session it saw, which was the last, an
  open on another repository creates the new server's `$0`, the stop kills that,
  and the open, which nobody disturbed, reports success.
- Commands agree because they lock the same key. A repository that migration
  0002 left under an old ID has two: an autostart configured with the old ID can
  record its container and, before it ends, lose it to an open of the same root,
  which locks the new ID and whose registration deletes the old repository with
  its binding. The theorem about success excludes it (`AutostartsResolve`).
- `stop --container` is documented to refuse while another session on the
  repository is live. It asks only about sessions with a row; after a lost
  database and one open, a live sibling has none. Nor does a sibling without
  a row keep to one side of the check: a `bind`, which takes no repository lock,
  can record it between the check and the container's stop. This is why the
  theorem about siblings below excludes a lost database.
- `bind` on a migrated row that no open has re-keyed overwrites its desired
  digest, because it looks the session up by its new ID. A collapse of rebuild
  registers its parent with an upsert and does the same to a recorded parent.
- Rebuild "never overwrites a recorded value", but registering is an upsert that
  re-keys what migration 0002 left under an old ID; `FillOnly` is about runs that
  began without such rows. Where the live session of such
  a row carries the new ID and another name, rebuild finds no row under that ID,
  registers it, and so overwrites the old row's digest; adopting then overwrites the
  name the row had.
- rebuild retags from a list made before it took the lock, and by name; if an open
  created the workspace's session since, two sessions claim one workspace.
  `OneSessionPerWorkspace` is therefore no property of `rebuild`. With two rebuilds
  at once, a retag of the one that listed first can hit a session the other has
  put in order, and `GroupStaysApart` and `CleanReportIsTrue` are lost too.
- Of two sessions that resolve to one workspace rebuild leaves both alone. If a
  stop ends one of them before the run reports, the other was passed over though
  nothing competes with it any more: the commands beside `LoneSessionRecovered` are
  opens.
- An inspection that found both sidecars opens the ordinary way. If the writer
  closed in between, this creates both again, though doctor promises that
  "nothing new appears beside it" (`wiring.go:299`). As SQLite removes the index
  before the log, a clean close can pass for the crash of `IncompleteWALError`.
- A bind is documented to survive the repository moving (`bind.go:22`,
  `docs/commands.md:483`), because it is stored relative to the root. It is stored
  under the repository's ID, though, which is a digest of the absolute root
  (`resolve.go:98`), and `select.go:110` skips the binds of other repositories. So
  after a move no bind is found.
- The help of `bind` says that its path "is interpreted relative to the repository
  root" (`bind.go:20`). The code, `docs/commands.md:481` and decision 0002 read it
  against the current directory, and `BindClaimsDirectory` follows them: `api` typed
  in the repository's `services` binds `services/api`, where the help says `api`.
- A store opened before a newer build migrates goes on with its own statements.
- `config --validate` exits 5 for a workspace file it cannot read; the
  documentation lets unexamined files exit 1. A mode that an overlay unsets with
  `shell: false` is reported at the file that introduced the window.
- doctor lists sessions before it reads rows, so that a session opened meanwhile
  is no orphan; with an image read at the inspection, or no database found there,
  it is reported as one. `list` reads in the other order and shows it as a live
  session without a record.
- attach can connect to another workspace's session. If the tmux server is
  replaced after a session's name was read and before its keys are, it reads the
  keys of the session that got the same ID, and connects by the old one's name.
  It also can when a workspace's record was lost while its session lived, and
  the name was then given to another.
- A session that ends after its name was read goes unnoticed: only an empty name
  is taken for a vanished session.
- When two sessions are bound to one directory, the error advises to run without
  a workspace argument, which is what led to it; the targets it lists do work.
- The documentation calls `list`'s state of a session that is not there
  `missing`, the code `absent`.

## Proofs

`FileLocksProofs` proves, for any set of processes and keys, type correctness,
`NoLeakedLock`, `MutualExclusion` and `NoCircularWait` of `FileLocks`. The
inductive invariant is `TypeOK /\ NoLeakedLock`: neither exclusion nor the
absence of a circle is inductive, but both follow when the holder of a key is
exactly the process whose phase says so. For the circle: a process that waits
for a repository's lock holds nothing, so nobody waits for it, and one that
waits for a workspace's lock can only wait for a process that is already at work
or releasing, which waits for nothing. The assumption is that the two kinds of
key are disjoint (digests of different inputs) and `NULL` is neither key nor process.

The first part of `CommandProofs` proves that the controller implements `FileLocks`: every
call leaves the locks alone (`CallsLeaveLocks`, `UsersLeaveLocks`), and every
other step of a process is a lock step (`ProcessesObeyLocks`). `CommandsExclude`
and `CommandsNeverDeadlock` carry the lock theorems over, so they hold of the
commands for any number of processes, workspaces, containers and faults.

`RebuildProofs` does the same for `RebuildSpec`, in which rebuilds and commands
run together: `RebuildsObeyLocks`, and from it `RebuildsExclude` and
`RebuildsNeverDeadlock`. A rebuild reaches its locks by other code than the
commands (`stateLocker` instead of `lockPhases`), so this does not follow from
the theorem about them. What else is proved of rebuild comes below.

`OpeningProofs` proves `MigrationsInOrder` and `OpenIsCurrent` for any set of
commands of any builds, with crashes and busy timeouts anywhere. Neither is
inductive: a commit appends the number that was computed when the version was
read. The invariant adds `Shape`, the types the argument needs, and `Serial`:
whoever is inside a migration transaction is the writer, and the number it
computed is still the version's successor. The last follows because only a
writer appends, which is what the immediate transaction is for; the mutant that
begins deferred breaks it. Assumed is that a build supports a schema of at least 1.

`InspectionIsCurrent` is about the sidecar files and has an invariant of its own,
`InspectionInv`. The look for a log is worth something because of two facts that
hold between any two steps: whoever is connected keeps the log there (`Joined`),
and without a log the file has every commit (`WrittenBack`). The second is kept
by the close, since who cleans up is alone and cannot commit. A reader of the
bare file can therefore miss only what was committed after its look (`Looked`).
Whether it may mix two such commits is the subject of `false_damage`.

`ObservationProofs` proves all three properties of `observation`, for any
installation in which names are recorded once and a session whose keys agree has
the name its workspace is recorded with (`InstallationsAssumption`, also
evaluated by TLC). The conclusions rest on values read one at a time, so the
invariant says what each still means when the next is read: that a session of that
ID had these values (`Asked`); that every session that stands still is listed or
still in the queue (`Reading`); that a workspace read from a session was recorded,
or is remembered as one that was not (`Accounted`); and that no session of another
workspace has the name of a session that belongs (`Holds`), which is what attach
relies on and never checks. The proof of the last failed in two cases that the
runs were too short to meet, a server replaced between the reads of name and
keys, and a live session whose record was lost; the property now names them.

`SelectionProofs` proves `OpensWhereBound`, without any hypothesis. The bind an open
renders is read once, under the lock of its session, and used later; the invariant,
`Bound`, says who holds that lock (`Held`), that the session has a row (`Written`)
and that what was rendered is what is recorded (`Rendered`). Nothing has to be known
of the tree: the directory is remembered with the root it lay inside when both were
looked up. What a bare command selects is the opposite case. It turns on what
`canonicalize` computes, a recursion on paths, and stays with TLC.

`StateStoreProofs` proves `TypeOK`, `Integrity`, `RegistrationPreserves` and
`BindingIdentityKept` of `StateStore`, for any repositories, workspaces, names and
containers, and any initial database that is sound itself. The invariant adds
`IsPlaced`: a row under the ID of a workspace is that workspace's, and one under
the ID of its repository has its root. Without it re-keying a migrated row could
overwrite the row of somebody else. What is assumed of IDs (`IDsAreDigests`) is
what makes them digests: workspaces have equal IDs exactly if root and session are
equal, and equal repository IDs exactly if the root is.

`CommandProofs` proves the controller's invariant `Sound`, on which everything
about the commands rests: the types; the server's numbering; a sound store; and
for each process at each call, `Has`, the results of earlier calls that this one
uses, with `Prepared`, that it holds the locks of its own footprint and that an
open finds its row. A process without a command remembers nothing but may hold
locks, so that `Sound` can be carried over to rebuilds as it is. The proof has one lemma per call (`ReadsMove`, `ProbesMove`
and so on) that says what the call does to its process, one that its transaction
is one of the store's with arguments the store allows (`CallsTransact`), and
three on what can happen to tmux. From it follow `CommandsTyped`,
`CommandsKeepStore` and `CommandsObeyStore`: the controller implements
`StateStore`, except where a user deletes the database.

`SafetyProofs` proves seven promises. In the first five, a command acts on something it saw
some calls ago, and the invariant says that it is still so:

| Theorem | Invariant | Kept by | Hypothesis |
|---|---|---|---|
| `SessionsStaySingle` | `Unclaimed`: no session claims the workspace of an open that will create one | the workspace's lock | at first, no two sessions claim one workspace |
| `StopsKillTheirOwn` | `Aimed`: the session with the ID a stop will kill claims its workspace | the server's numbering; if the server may exit, that nothing but this stop ends the session | nobody kills a session by hand, or the server outlives its last session |
| `ContainersStaySingle` | `Alone`: no other container exists beside the one an `up` under way is about | the repository's lock | none |
| `StopsSpareSiblings` | `Spared`: no sibling of a stop past its check is live, and every live session has a row | the repository's lock | no database is lost, and the sessions of the start have rows |
| `RecordsNameSessions` | `Named`: what an open will adopt, or create a session under, is what its row says | names are recorded before they are used | nobody renames a session or deletes the database, and at first each session is recorded under its name |

These hypotheses restrict users and the start, never the commands, and each is
needed: without it the code breaks the promise, as the list above says of numbers
that start again and of a lost database; a user's second session with copied keys
and a renamed session are its own counterexamples. The instances checked with
TLC satisfy them.

The sixth is `CrashesNeverWedge`, which states `CrashNeverWedges`: where no call
fails and no user interferes, crashes alone, however many and wherever they strike,
never make a later open or bind fail. Its invariant, `Unwedged`, says what any
prefix of a command leaves behind: every row is that of a resolvable workspace and
records a name of its own or none (`RowsOwn`), every session has a claim and a name
of its own workspace (`SessionsOwn`), no container is removed (`Calm`), what a
process remembers leads on and not into a refusal (`Smooth`), and what an open has
created is there when it looks to confirm it (`Created`). A crash disturbs none of
them, since none is about a process without a command. Each call has a lemma that it
does not fail in such a state (`LooksSmoothly`, `ProbesSmoothly`, `UpsSmoothly`,
`CreatesSmoothly`, gathered in `CallsGoSmoothly`). The hypotheses are the property's
own premise (no failing call, no disturbance by a user), that the rows and sessions
of the start are projectmux's own (at most one session of each workspace), and two
that leave out refusals which have nothing to do with crashes: workspaces have
different candidate names (`NamesApart`), since the planner refuses an open whose
every name is taken, and an open demands a container only of a repository that has
one (`DemandsApply`), which ensure refuses otherwise. All of them hold of the
instance of the run `crashes`.

The seventh is `SuccessIsTrue` (`CommandsTellTheTruth`), which no single
call establishes and every later step could undo. Its invariant, `Sincere`, says
of each process at work that was not disturbed, and at each call, what its
command has achieved by then: which session is live and recorded, which container
runs and is bound, which outcome is committed. The proof has two halves. What the
command achieves by its own calls is one lemma per call (`ReadsLand`,
`ProbesLand` and so on, gathered in `CallsLand`); that nobody else takes it back
is the condition `Framed` and the lemma `OthersFrame`: another process at work
holds other locks, so its row, session, binding and container are others. That
half needs the theorems before it, since what another command remembers is still
about its own workspace only because of `Aims`, `ContainersSafe` and `Sound`. The
hypotheses are that of `StopsKillTheirOwn`, that autostart is configured by IDs
repositories resolve to, and that the databases of the start bind each
repository to a container of its own. The first two are needed, as the
counterexamples above show; as to the third, a foreign container bound at the
start could be stopped under another repository's lock.

`RebuildProofs` proves four of the properties of rebuild, with its runs and the
commands beside them in any number. Its invariant is `Ordered`: `Sound`; `Task`,
what a run remembers at each call, and that the lock it asked for is that of the
entry at hand; and `Standing`, that a repository to be collapsed is recorded where
it was found, and its parent is recorded before it is dropped. `RebuildTypeOK`
follows (`RebuildsTyped`), and the others with what each needs besides:

| Theorem | Invariant | Kept by | Hypothesis |
|---|---|---|---|
| `CollapseKeepsRepositories` | `Standing` | the parent is registered first; nobody drops a parent that git answers for | no user deletes the database |
| `RecoveryOnlyFills` | `Filling`: the row that is about to be written has no name, and if it is about to be registered, has the columns registration writes; nothing awaits re-keying, if nothing did when the run listed (`keyed`) | the row is reread under the workspace's lock, which every writer of names has; no command leaves a row under an old ID | none |
| `SettledRunsReportNothing` | `Calm`: each listed session is the recorded one of its workspace and alone claims it; `Fits`: what an open will adopt or create has the name of whatever claims its workspace, or the recorded one | an open that finds a session creates none; one that creates, creates under the recorded name | nobody renames a session; one rebuild at a time |

The last needs `Fits`, because what could unsettle an installation is an open that
looked before the run listed. Both of its hypotheses are needed, and the run that
checks the property is too short to meet either case: an open that looked before a
session was renamed and renamed back records the name it saw, and a second
rebuild that listed earlier retags by a name another workspace's session has now.
Why `FillOnly` has the premise `keyed` is the remark about registration above. Assumed of git
and the configuration are `MainOfAssumption` (a main worktree is its own, and the
two words for the absence of one are no paths), `WorktreesAssumption` (workspaces
are at main worktrees), `ScenesAssumption` and `CurrentDigestAssumption`; the
instance satisfies all of them and every hypothesis but the one on renames.

A record is distinguished from its absence
(`RecordsAssumption`), commands are as the command line builds them
(`CommandsAssumption`), and the server of the start numbers and names its sessions
as tmux does (`SessionsAssumption`); TLC evaluates all of them on each run.

Only model-checked: `GroupStaysApart`, `LoneSessionRecovered` and
`CleanReportIsTrue` of rebuild, which retags by name from a list it made before, so
that each needs its commands and users limited as in the run (see above); and the
properties of configuration. Out of reach here is liveness (`EveryCommandEnds`),
because TLAPS does not support reasoning about the ENABLED in fairness, and whatever
is induction over data: `LastWordDecides`, `OriginDecides`, `DefaultsVerdictHolds`
and `ConfigTypeOK`, which are about what a merge of layers of any length amounts to,
and `BareSelectsDeepest` and `BindClaimsDirectory`, which are
about what the recursive functions on paths compute for every tree.

## Not modelled

- The drift of an applied configuration and `needs_rebuild` in `status`, and what
  an outcome's digest means after a crash: they need two configurations over time.
- doctor's checks of installed tools and of repository roots: single looks.
- In `Controller` a tmux observation is one step; `Observation` takes it apart,
  for the commands that only observe.
- YAML decoding, the search for a line in a document, and the digest itself.
- A window's `cwd` is contained by name only, and a directory may be replaced
  after it was looked up and before tmux uses it; the model ends at the look.
- The devcontainer files on disk and the rendering of exec commands, and the
  test doubles of the controller.
- `set-option -t` takes a name's prefix for the name; a retag of a session that
  vanished could hit another one. `rebuild --dry-run` changes nothing.
- Creation of a session is one step; a chain of tmux commands that stops before
  the identity keys are set is not modelled.
- Effects of a killed subprocess that arrive after its command has ended.
- Windows, panes and environment as they are rendered. Whether a window demands
  a container is kept in `Controller`, the base directory in `Selection`.
- Timestamps, error summaries, slugs and rendering.

## Plan

1. Done: `FileLocks`, `StateStore`, `Planning`, `Controller`, with the lock
   theorems and the refinement of the locks.
2. Done: `Rebuild`. Left of it: two runs at once, which collapse and register
   one repository under different locks, and the preview as a lower bound of the
   run's conflicts.
3. Done: `Opening`, with its theorems; `Configuration`, `Selection`, `Observation`.
4. Left: the drift verdict of `status` over two configurations; effects of a
   killed subprocess that arrive after its command; an abstract specification of
   what one workspace promises, and `Controller` shown to implement it.
5. Proofs: done for `FileLocks`, `StateStore`, the controller's refinements of both
   and seven of its promises, `Opening`, `Observation`, one property of `Selection`
   and four of `Rebuild`.
   Left: what a single rebuild, with opens alone beside it, recovers and reports.
