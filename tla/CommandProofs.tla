---------------------------- MODULE CommandProofs ----------------------------
(***************************************************************************)
(* Proofs about what the commands of Controller do, for any number of      *)
(* processes, commands, crashes, failed calls and user acts.               *)
(*                                                                         *)
(* The commands obey the locking protocol of FileLocks: each step of the   *)
(* composed system is a step of the protocol or leaves the locks alone.    *)
(*                                                                         *)
(* The rest rests on one inductive invariant, Sound: the types, the        *)
(* server's numbering, a sound store, and that each command at work holds  *)
(* its own locks and finds the results its next call needs.  From it       *)
(* follow the type invariant, the store's integrity, and that the commands *)
(* do nothing to the database that module StateStore does not describe.    *)
(***************************************************************************)
EXTENDS Controller, FiniteSetTheorems, TLAPS

-----------------------------------------------------------------------------
(* Locks *)

\* A call of a command at work touches no lock.
LEMMA CallsLeaveLocks ==
  ASSUME NEW p \in Process, Call(p) \/ CallFails(p)
  PROVE  UNCHANGED <<holder, phase, want>>
BY DEF Call, CallFails, Step, Answers, lockVars, Registers, Binds, Reads,
       ReadsRepository, OpenLooks, Probes, Reprobes, BeginsUp, EndsUp, Adopts,
       Allocates, LooksForOccupant, Creates, Confirms, ChecksSiblings, StopLooks,
       Kills, StopsContainer, Commits, RecordsBinding, RecordsFailure

\* Users hold no lock and take none.
LEMMA UsersLeaveLocks ==
  ASSUME User
  PROVE  UNCHANGED <<holder, phase, want>>
BY DEF User, ByHand, lockVars, UserKills, UserRenames, UserOccupies, UserRetags,
       UserActsOnDocker, UserLosesDatabase

\* What a process does to the locks is what FileLocks lets a process do.
LEMMA ProcessesObeyLocks ==
  ASSUME NEW p \in Process,
         Starts(p) \/ TakesLock(p) \/ GivesUp(p) \/ Releases(p) \/ Crashes(p)
  PROVE  Locks!Next
<1>1. CASE Starts(p)
  BY <1>1 DEF Starts, Locks!Next
<1>2. CASE TakesLock(p)
  BY <1>2 DEF TakesLock, Locks!Next, Locks!Advance
<1>3. CASE GivesUp(p)
  BY <1>3 DEF GivesUp, Locks!Next, Locks!Advance
<1>4. CASE Releases(p)
  BY <1>4 DEF Releases, Locks!Next, Locks!Advance
<1>5. CASE Crashes(p)
  BY <1>5 DEF Crashes, Locks!Next
<1> QED
  BY <1>1, <1>2, <1>3, <1>4, <1>5

\* Commands lock as FileLocks says (locking.go lockPhases, called by ensure.go,
\* stop.go and bind.go; lock.go Acquire, called by autostart.go).
THEOREM CommandsObeyLocks == Spec => Locks!Spec
<1>1. Init => Locks!Init
  BY DEF Init
<1>2. [Next]_vars => [Locks!Next]_<<holder, phase, want>>
  <2> SUFFICES ASSUME [Next]_vars
               PROVE  Locks!Next \/ UNCHANGED <<holder, phase, want>>
    OBVIOUS
  <2>1. CASE UNCHANGED vars
    BY <2>1 DEF vars, lockVars
  <2>2. CASE User
    BY <2>2, UsersLeaveLocks
  <2>3. CASE Rests
    BY <2>3 DEF Rests, vars, lockVars
  <2>4. ASSUME NEW p \in Process, Call(p) \/ CallFails(p)
        PROVE  UNCHANGED <<holder, phase, want>>
    BY <2>4, CallsLeaveLocks
  <2>5. ASSUME NEW p \in Process,
               Starts(p) \/ TakesLock(p) \/ GivesUp(p) \/ Releases(p) \/ Crashes(p)
        PROVE  Locks!Next
    BY <2>5, ProcessesObeyLocks
  <2> QED
    BY <2>1, <2>2, <2>3, <2>4, <2>5 DEF Next, Runs
<1> QED
  BY <1>1, <1>2, PTL DEF Spec, Locks!Spec, Locks!lockVars

\* The lock theorems again, for the controller's own locks.
LocksProofs == INSTANCE FileLocksProofs WITH Repository <- RepositoryID,
                                             Workspace <- LockedID

\* Both instances of FileLocks are the same specification.
LEMMA SameLocks == Locks!Spec => LocksProofs!Spec
<1>1. Locks!Init => LocksProofs!Init
  BY DEF Locks!Init, LocksProofs!Init, Locks!Key, LocksProofs!Key,
     Locks!NoFootprint, LocksProofs!NoFootprint
<1>2. [Locks!Next]_<<holder, phase, want>> => [LocksProofs!Next]_<<holder, phase, want>>
  BY DEF Locks!Next, LocksProofs!Next, Locks!Begin, LocksProofs!Begin,
     Locks!Advance, LocksProofs!Advance, Locks!AcquireFails, LocksProofs!AcquireFails,
     Locks!Crash, LocksProofs!Crash, Locks!TakeRepository, LocksProofs!TakeRepository,
     Locks!TakeWorkspace, LocksProofs!TakeWorkspace, Locks!TimeOut, LocksProofs!TimeOut,
     Locks!GiveUp, LocksProofs!GiveUp, Locks!Finish, LocksProofs!Finish,
     Locks!UnlockWorkspace, LocksProofs!UnlockWorkspace,
     Locks!UnlockRepository, LocksProofs!UnlockRepository,
     Locks!Contended, LocksProofs!Contended, Locks!Polled, LocksProofs!Polled,
     Locks!Free, LocksProofs!Free, Locks!SetHolder, LocksProofs!SetHolder,
     Locks!Unlock, LocksProofs!Unlock, Locks!Enter, LocksProofs!Enter,
     Locks!Footprint, LocksProofs!Footprint, Locks!Key, LocksProofs!Key,
     Locks!NoFootprint, LocksProofs!NoFootprint
<1> QED
  BY <1>1, <1>2, PTL DEF Locks!Spec, LocksProofs!Spec, Locks!lockVars,
     LocksProofs!lockVars

\* Two commands at work never share a lock key, whatever they, their failures
\* and crashes and the users do to tmux, docker and the database.
THEOREM CommandsExclude == Spec => []Locks!MutualExclusion
<1>1. LocksProofs!Spec => []LocksProofs!MutualExclusion
  BY LocksProofs!LocksExclude, LockKeysAssumption DEF LocksProofs!LocksExclude
<1>2. LocksProofs!MutualExclusion => Locks!MutualExclusion
  BY DEF LocksProofs!MutualExclusion, Locks!MutualExclusion
<1> QED
  BY <1>1, <1>2, CommandsObeyLocks, SameLocks, PTL

\* No set of commands waits in a circle, whatever each was started to do.
THEOREM CommandsNeverDeadlock == Spec => []Locks!NoCircularWait
<1>1. LocksProofs!Spec => []LocksProofs!NoCircularWait
  BY LocksProofs!LocksNeverDeadlock, LockKeysAssumption
  DEF LocksProofs!LocksNeverDeadlock
<1>2. LocksProofs!NoCircularWait => Locks!NoCircularWait
  BY DEF LocksProofs!NoCircularWait, Locks!NoCircularWait, LocksProofs!WaitsFor,
     Locks!WaitsFor, LocksProofs!Polled, Locks!Polled
<1> QED
  BY <1>1, <1>2, CommandsObeyLocks, SameLocks, PTL

-----------------------------------------------------------------------------
(* Commands at work *)

SessionPlan == {"refuse", "none", "adopt", "create"}

SnapRow == [stored : StoredRow \cup {NULL}, state : {"unknown", "absent", "live"},
            live : SessionRow \cup {NULL}, by_name : SUBSET SessionRow,
            container : ContainerView \cup {NULL},
            session : SessionPlan \cup {NULL}, name : Name \cup {NULL}]

DockerState == {"absent", "stopped", "running", "removed"}

Types ==
  /\ tmux \in [sessions : SUBSET SessionRow, next : Nat]
  /\ docker \in [Container -> DockerState]
  /\ cmd \in [Process -> Commands \cup {NULL}]
  /\ at \in [Process -> Places]
  /\ snap \in [Process -> SnapRow]

\* The server's numbering.
Numbered ==
  /\ \A s \in tmux.sessions : s.sid < tmux.next
  /\ \A s, t \in tmux.sessions : s.sid = t.sid \/ s.name = t.name => s = t

StoreSound == Store!TypeOK /\ Store!Integrity /\ Store!IsPlaced(db)

\* What command c, at call l, finds of the calls before it in its snapshot s.
Has(c, l, s) ==
  /\ l = "kill" => c.op = "stop" /\ s.live # NULL
  /\ l = "adopt" => s.live # NULL
  /\ l \in {"reprobe", "up", "upping"} /\ c.op = "open" /\ s.session = "adopt"
       => s.live # NULL
  /\ l \in {"occupant", "create", "confirm"} => s.name \in Name
  /\ l \in {"upping", "record"} => s.container # NULL
  /\ l = "upping" => /\ c.op \in {"open", "autostart"}
                     /\ s.container.container \in Container
  /\ l = "stop_container" => /\ c.op = "stop" /\ c.container
                             /\ s.stored # NULL /\ s.stored.binding # NULL
  /\ l \in {"probe", "reprobe"} \/ (l = "look" /\ c.op = "open") => s.stored # NULL

\* A command is at work from its entry on, with its own locks, and an open has
\* a row from its registration on.
Prepared(p) ==
  /\ IF cmd[p] = NULL THEN snap[p] = NoSnap /\ at[p] = "over"
     ELSE phase[p] # "idle" /\ at[p] # "over" /\ want[p] = FootprintOf(cmd[p])
  /\ at[p] \notin {"register", "read", "ok", "error", "over"} => phase[p] = "held"
  /\ Has(cmd[p], at[p], snap[p])
  /\ cmd[p] # NULL /\ cmd[p].op = "open" /\ at[p] \notin {"register", "error"}
       => Store!Known(cmd[p].ws.id)

Sound == Types /\ Numbered /\ StoreSound /\ \A p \in Process : Prepared(p)

\* Only commands have locks.
Busy == \A p \in Process : phase[p] # "idle" => cmd[p] # NULL

-----------------------------------------------------------------------------
(* The store *)

\* The theorems about the store, for the controller's own database.
StoreProofs == INSTANCE StateStoreProofs

\* The transactions that commands make; all but one leave a recorded session
\* name alone.
Notes == \/ Store!Register \/ Store!Allocate \/ Store!Observe \/ Store!Operate
         \/ Store!Commit \/ Store!Rebind

Transacts == Notes \/ Store!Adopt

\* Both instances of StateStore say the same of a database, and make the same
\* transactions.
LEMMA SameStore ==
  ASSUME NEW d
  PROVE  /\ Store!IsDatabase(d) <=> StoreProofs!IsDatabase(d)
         /\ Store!IsIntact(d) <=> StoreProofs!IsIntact(d)
         /\ Store!IsPlaced(d) <=> StoreProofs!IsPlaced(d)
BY DEF Store!IsDatabase, StoreProofs!IsDatabase, Store!IsIntact,
       StoreProofs!IsIntact, Store!IsPlaced, StoreProofs!IsPlaced, Store!IsTable,
       StoreProofs!IsTable, Store!RepositoryRow, StoreProofs!RepositoryRow,
       Store!WorkspaceRow, StoreProofs!WorkspaceRow, Store!BindingRow,
       StoreProofs!BindingRow, Store!Health, StoreProofs!Health,
       Store!OperationRow, StoreProofs!OperationRow

\* So do they make the same transactions.
LEMMA SameTransactions ==
  /\ Notes => StoreProofs!Notes
  /\ Transacts => StoreProofs!Records
BY DEF Transacts, StoreProofs!Records, Notes, StoreProofs!Notes, Store!Identity, StoreProofs!Identity,
       Store!Observation, StoreProofs!Observation, Store!Health,
       StoreProofs!Health, Store!OperationRow, StoreProofs!OperationRow,
       Store!Without, StoreProofs!Without, Store!With, StoreProofs!With,
       Store!Known, StoreProofs!Known, Store!KnownRepository,
       StoreProofs!KnownRepository, Store!NameTaken, StoreProofs!NameTaken,
       Store!StaleRepositories, StoreProofs!StaleRepositories,
       Store!OnRepositories, StoreProofs!OnRepositories, Store!StaleIDs,
       StoreProofs!StaleIDs, Store!Rekeyed, StoreProofs!Rekeyed, Store!FreshRow,
       StoreProofs!FreshRow, Store!Refreshed, StoreProofs!Refreshed,
       Store!RegisterWorkspace, StoreProofs!RegisterWorkspace,
       Store!AllocateSessionName, StoreProofs!AllocateSessionName,
       Store!AdoptSessionName, StoreProofs!AdoptSessionName, Store!Recorded,
       StoreProofs!Recorded, Store!Recordable, StoreProofs!Recordable,
       Store!RecordContainerObservation, StoreProofs!RecordContainerObservation,
       Store!RecordOperation, StoreProofs!RecordOperation,
       Store!CommitReconciliation, StoreProofs!CommitReconciliation,
       Store!SetBind, StoreProofs!SetBind, Store!Register, StoreProofs!Register,
       Store!Allocate, StoreProofs!Allocate, Store!Adopt, StoreProofs!Adopt,
       Store!Observe, StoreProofs!Observe, Store!Operate, StoreProofs!Operate,
       Store!Commit, StoreProofs!Commit, Store!Rebind, StoreProofs!Rebind

\* What StateStore assumes, the controller assumes for its own database.
LEMMA StoreAssumed ==
  /\ StoreProofs!CandidatesDiffer /\ StoreProofs!NullIsNoValue
  /\ StoreProofs!IDsAreDigests /\ StoreProofs!InitialsAreSound
<1>1. /\ StoreProofs!CandidatesDiffer /\ StoreProofs!NullIsNoValue
      /\ StoreProofs!IDsAreDigests
  BY StoreAssumption DEF Store!CandidatesDiffer, StoreProofs!CandidatesDiffer,
     Store!NullIsNoValue, StoreProofs!NullIsNoValue,
     Store!IDsAreDigests, StoreProofs!IDsAreDigests, Store!Identity,
     StoreProofs!Identity
<1>2. StoreProofs!InitialsAreSound
  BY StoreAssumption, SameStore
     DEF Store!InitialsAreSound, StoreProofs!InitialsAreSound
<1> QED
  BY <1>1, <1>2

\* A transaction of a command keeps the store sound and takes no workspace's row.
LEMMA TransactionKeeps ==
  ASSUME StoreSound, Transacts \/ UNCHANGED db
  PROVE  /\ StoreSound'
         /\ \A v \in Resolvable : Store!Known(v.id) => Store!Known(v.id)'
<1> USE StoreAssumed
<1>1. StoreProofs!IInv /\ [StoreProofs!Next]_db => StoreProofs!IInv'
  BY StoreProofs!StepKeeps DEF StoreProofs!StepKeeps
<1>2. \A v \in Resolvable :
        StoreProofs!IInv /\ StoreProofs!Records /\ StoreProofs!Known(v.id)
          => StoreProofs!Known(v.id)'
  BY StoreProofs!KnownStays DEF StoreProofs!KnownStays
<1>3. StoreProofs!IInv
  BY SameStore DEF StoreSound, Store!TypeOK, Store!Integrity, StoreProofs!IInv,
     StoreProofs!TypeOK, StoreProofs!Integrity
<1>4. StoreProofs!IInv' => StoreSound'
  BY SameStore DEF StoreSound, Store!TypeOK, Store!Integrity, StoreProofs!IInv,
     StoreProofs!TypeOK, StoreProofs!Integrity
<1>5. StoreProofs!Records => StoreProofs!Next
  BY DEF StoreProofs!Records, StoreProofs!Notes, StoreProofs!Next
<1>6. \A id : Store!Known(id) <=> StoreProofs!Known(id)
  BY DEF Store!Known, StoreProofs!Known
<1>7. \A id : Store!Known(id)' <=> StoreProofs!Known(id)'
  BY DEF Store!Known, StoreProofs!Known
<1>8. CASE Transacts
  BY <1>1, <1>2, <1>3, <1>4, <1>5, <1>6, <1>7, <1>8, SameTransactions
<1>9. CASE UNCHANGED db
  <2>1. \A id : Store!Known(id)' <=> Store!Known(id)
    BY <1>9 DEF Store!Known
  <2> QED
    BY <1>1, <1>3, <1>4, <1>9, <2>1
<1> QED
  BY <1>8, <1>9

-----------------------------------------------------------------------------
(* What a command at work has *)

\* The command of a process at work, and the workspace it is about.
LEMMA AtWork ==
  ASSUME Sound, NEW p \in Process, at[p] # "over"
  PROVE  /\ cmd[p] \in Commands /\ cmd[p] \in CommandShape /\ cmd[p] # NULL
         /\ at[p] \in Places \ {"over"} /\ snap[p] \in SnapRow
         /\ want[p] = FootprintOf(cmd[p])
         /\ Has(cmd[p], at[p], snap[p])
         /\ cmd[p].op = "open" => cmd[p].digest \in Digest
         /\ cmd[p].op \in {"open", "stop", "bind"} =>
              /\ cmd[p].ws \in Resolvable /\ cmd[p].ws \in Store!Identity
              /\ cmd[p].ws # NULL /\ cmd[p].repo = cmd[p].ws.repository_id
<1>1. cmd[p] \in Commands /\ cmd[p] # NULL /\ cmd[p] \in CommandShape
  BY CommandsAssumption DEF Sound, Types, Prepared
<1>2. cmd[p].op = "open" => cmd[p].digest \in Digest
  BY <1>1, CommandsAssumption DEF CommandShape
<1>3. cmd[p].op \in {"open", "stop", "bind"} =>
        /\ cmd[p].ws \in Resolvable
        /\ cmd[p].ws # NULL /\ cmd[p].repo = cmd[p].ws.repository_id
  BY <1>1, CommandsAssumption DEF CommandShape
<1>4. Resolvable \subseteq Store!Identity
  BY StoreAssumption DEF Store!IDsAreDigests
<1> QED
  BY <1>1, <1>2, <1>3, <1>4 DEF Sound, Types, Prepared

\* What a look at tmux shows.
LEMMA Views ==
  ASSUME Types, NEW id, NEW names
  PROVE  LET view == TmuxView(id, names) IN
         /\ view.state \in {"unknown", "absent", "live"}
         /\ view.live \in SessionRow \cup {NULL}
         /\ view.by_name \in SUBSET SessionRow
         /\ view.state = "live" => view.live # NULL
         /\ view.live # NULL => view.live \in ClaimantsOf(id)
         /\ view.state = "absent" => ClaimantsOf(id) = {}
         /\ view.state = "live" => ~(Cardinality(ClaimantsOf(id)) > 1)
<1> DEFINE claimants == ClaimantsOf(id)
           named == {s \in tmux.sessions : s.name \in names}
<1>1. claimants \subseteq SessionRow /\ named \subseteq SessionRow
  BY DEF Types, ClaimantsOf
<1>2. TmuxView(id, names) =
        CASE Cardinality(claimants) > 1 ->
               [state |-> "unknown", live |-> NULL, by_name |-> {}]
          [] claimants = {} -> [state |-> "absent", live |-> NULL, by_name |-> named]
          [] OTHER -> [state |-> "live", live |-> CHOOSE s \in claimants : TRUE,
                       by_name |-> named]
  BY DEF TmuxView
<1>3. NULL \notin SessionRow
  BY RecordsAssumption
<1> HIDE DEF named, claimants
<1>4. claimants # {} => (CHOOSE s \in claimants : TRUE) \in claimants
  OBVIOUS
<1>5. CASE Cardinality(claimants) > 1 /\ claimants = {}
  BY FS_EmptySet, <1>5
<1>6. CASE Cardinality(claimants) > 1 /\ claimants # {}
  <2>1. TmuxView(id, names) = [state |-> "unknown", live |-> NULL, by_name |-> {}]
    BY <1>2, <1>6
  <2> QED
    BY <2>1
<1>7. CASE ~(Cardinality(claimants) > 1) /\ claimants = {}
  <2>1. TmuxView(id, names) = [state |-> "absent", live |-> NULL, by_name |-> named]
    BY <1>2, <1>7
  <2> QED
    BY <1>1, <1>7, <2>1 DEF claimants
<1>8. CASE ~(Cardinality(claimants) > 1) /\ claimants # {}
  <2>1. TmuxView(id, names) = [state |-> "live", by_name |-> named,
                               live |-> CHOOSE s \in claimants : TRUE]
    BY <1>2, <1>8
  <2> QED
    BY <1>1, <1>3, <1>4, <1>8, <2>1 DEF claimants
<1> QED
  BY <1>5, <1>6, <1>7, <1>8

\* A container observation is a view of one of the containers.
LEMMA Observations ==
  ASSUME Types, NEW r, NEW binding \in Store!BindingRow \cup {NULL}
  PROVE  /\ Observed(r, binding) \in ContainerView \cup {NULL}
         /\ \A c : Reobserved(c, binding) \in ContainerView \cup {NULL} 
         /\ \A obs \in ContainerView \cup {NULL} :
              Settled(obs) \in ContainerView \cup {NULL}
<1> DEFINE running(q) == {c \in Container : OwnerOf[c] = q /\ docker[c] = "running"}
<1>1. Plan!MissingContainer \in ContainerView /\ Plan!UnknownContainer \in ContainerView
  BY DEF ContainerView
<1>2. \A c \in Container, b \in BOOLEAN : Plan!PresentContainer(c, b) \in ContainerView
  BY DEF ContainerView, Plan!PresentContainer
<1>3. \A c \in Container : Probed(c) \in ContainerView
  BY <1>1, <1>2 DEF Probed
<1>4. ASSUME NEW q PROVE Discovered(q) \in ContainerView
  <2>1. running(q) # {} => (CHOOSE c \in running(q) : TRUE) \in Container
    OBVIOUS
  <2>2. CASE running(q) = {} /\ ~(Cardinality(running(q)) > 1)
    BY <1>1, <2>2 DEF Discovered
  <2>3. CASE running(q) # {} /\ ~(Cardinality(running(q)) > 1)
    BY <1>2, <2>1, <2>3 DEF Discovered
  <2>4. CASE Cardinality(running(q)) > 1
    <3>1. running(q) # {}
      BY <2>4, FS_EmptySet
    <3> QED
      BY <1>1, <2>4, <3>1 DEF Discovered
  <2> QED
    BY <2>2, <2>3, <2>4
<1>5. binding # NULL => binding.container \in Container
  BY DEF Store!BindingRow
<1>6. \A q : Observed(q, binding) \in ContainerView \cup {NULL}
  BY <1>3, <1>4, <1>5 DEF Observed
<1>7. \A c : Reobserved(c, binding) \in ContainerView \cup {NULL}
  BY <1>3, <1>5, <1>6 DEF Reobserved
<1> QED
  BY <1>6, <1>7 DEF Settled

-----------------------------------------------------------------------------
(* The calls: where each leads its own command *)

\* Process p alone took a step of its work, and finds what it needs.
Moved(p) ==
  /\ phase[p] = "held" /\ at[p] # "over"
  /\ UNCHANGED <<lockVars, cmd>>
  /\ at' = [at EXCEPT ![p] = at'[p]]
  /\ snap' = [snap EXCEPT ![p] = snap'[p]]
  /\ at'[p] \in Places \ {"over"}
  /\ snap'[p] \in SnapRow
  /\ Has(cmd[p], at'[p], snap'[p])

\* A step of a command, seen from the command.
LEMMA Stepped ==
  ASSUME Sound, NEW p \in Process, NEW ops, NEW here, NEW next,
         Step(p, ops, here, next)
  PROVE  /\ phase[p] = "held" /\ at[p] = here /\ cmd[p].op \in ops
         /\ at' = [at EXCEPT ![p] = at'[p]] /\ at'[p] = next
         /\ UNCHANGED <<lockVars, cmd>>
BY DEF Sound, Types, Step, Goto

\* A call that fails ends in a place where nothing is needed.
LEMMA ErrorPlaces ==
  ASSUME NEW p
  PROVE  /\ OnError(p) \in {"fail", "error"}
         /\ OnError(p) \in Places \ {"over"}
BY DEF OnError, Places, Fallible

\* Calls that leave the snapshot alone and lead to a fixed place.
LEMMA StoreCallsMove ==
  ASSUME Sound, NEW p \in Process,
         \/ Registers(p) \/ Binds(p) \/ Commits(p) \/ RecordsBinding(p)
         \/ RecordsFailure(p) \/ CallFails(p)
  PROVE  /\ Moved(p) /\ UNCHANGED <<snap, tmux, docker>>
         /\ at'[p] \in {"read", "bind", "ok", "fail", "error"}
<1>1. UNCHANGED <<snap, tmux, docker>>
  BY DEF Registers, Binds, Commits, RecordsBinding, RecordsFailure, CallFails
<1>2. PICK here, next, ops : Step(p, ops, here, next)
  BY DEF Registers, Binds, Commits, RecordsBinding, RecordsFailure, CallFails
<1>3. at'[p] \in {"read", "bind", "ok", "fail", "error"}
  BY Stepped, ErrorPlaces
     DEF Registers, Binds, Commits, RecordsBinding, RecordsFailure, CallFails
<1>4. Has(cmd[p], at'[p], snap[p])
  BY <1>3 DEF Has
<1>5. at'[p] \in Places \ {"over"}
  BY <1>3 DEF Places, Fallible
<1>6. at[p] # "over"
  BY Stepped DEF Registers, Binds, Commits, RecordsBinding, RecordsFailure,
     CallFails, Fallible
<1> QED
  BY <1>1, <1>2, <1>3, <1>4, <1>5, <1>6, Stepped, AtWork DEF Moved, Sound, Types

\* What is read of the store is of its shape.
LEMMA StoredTyped ==
  ASSUME StoreSound
  PROVE  /\ \A id : StoredRecord(id) \in StoredRow \cup {NULL}
         /\ \A id : StoredRecord(id) # NULL <=> Store!Known(id)
         /\ \A r : Store!BindingOf(r) \in Store!BindingRow \cup {NULL}
         /\ \A id : Store!Known(id) => Store!Record(id) \in StoredRow
<1>1. \A r : Store!BindingOf(r) \in Store!BindingRow \cup {NULL}
  BY DEF StoreSound, Store!TypeOK, Store!IsDatabase, Store!IsTable, Store!BindingOf
<1>2. \A id : Store!Known(id) => db.workspaces[id] \in Store!WorkspaceRow
  BY DEF StoreSound, Store!TypeOK, Store!IsDatabase, Store!IsTable, Store!Known
<1>3. ASSUME NEW id, Store!Known(id)
      PROVE  Store!Record(id) \in StoredRow
  BY <1>1, <1>2, <1>3 DEF Store!Record, StoredRow
<1>4. NULL \notin StoredRow
  BY RecordsAssumption
<1> QED
  BY <1>1, <1>3, <1>4 DEF StoredRecord

\* A read of the record: a stop that has a container to ask about goes on to
\* its siblings.
LEMMA ReadsMove ==
  ASSUME Sound, NEW p \in Process, Reads(p)
  PROVE  /\ Moved(p) /\ at[p] = "read" /\ UNCHANGED <<db, tmux, docker>>
         /\ at'[p] \in {"look", "siblings", "register", "bind"}
         /\ snap'[p].stored = StoredRecord(cmd[p].ws.id)
         /\ snap'[p].container = snap[p].container
         /\ cmd[p].op \in {"open", "stop", "bind"}
         /\ at'[p] = "look" /\ cmd[p].op = "stop" =>
              ~(/\ cmd[p].container /\ ~cmd[p].force
                /\ snap'[p].stored # NULL /\ snap'[p].stored.binding # NULL)
<1> DEFINE stored == StoredRecord(cmd[p].ws.id)
<1>1. phase[p] = "held" /\ at[p] = "read" /\ cmd[p].op \in {"open", "stop", "bind"}
  BY Stepped DEF Reads
<1>2. /\ at' = [at EXCEPT ![p] = at'[p]] /\ UNCHANGED <<lockVars, cmd>>
      /\ at'[p] \in {"look", "siblings", "register", "bind"}
  BY Stepped DEF Reads
<1>3. stored \in StoredRow \cup {NULL}
  BY StoredTyped DEF Sound
<1>4. snap' = [snap EXCEPT ![p].stored = stored]
  BY DEF Reads
<1>5. cmd[p].op = "open" => stored # NULL
  BY <1>1, StoredTyped DEF Sound, Prepared
<1>9. at'[p] = "look" /\ cmd[p].op = "stop" =>
        ~(/\ cmd[p].container /\ ~cmd[p].force
          /\ stored # NULL /\ stored.binding # NULL)
  BY Stepped DEF Reads
<1>10. UNCHANGED <<db, tmux, docker>>
  BY DEF Reads
<1> HIDE DEF stored
<1>6. /\ snap' = [snap EXCEPT ![p] = snap'[p]]
      /\ snap'[p] = [snap[p] EXCEPT !.stored = stored]
  BY <1>4 DEF Sound, Types
<1>7. /\ snap'[p] \in SnapRow /\ snap'[p].stored = stored
      /\ snap'[p].container = snap[p].container
  BY <1>1, <1>3, <1>6, AtWork DEF SnapRow
<1>8. Has(cmd[p], at'[p], snap'[p])
  BY <1>2, <1>5, <1>7 DEF Has
<1> QED
  BY <1>1, <1>2, <1>6, <1>7, <1>8, <1>9, <1>10 DEF Moved, Places, Fallible, stored

\* autostart's read of its repository.
LEMMA ReadsRepositoryMoves ==
  ASSUME Sound, NEW p \in Process, ReadsRepository(p)
  PROVE  /\ Moved(p) /\ cmd[p].op = "autostart" /\ at'[p] \in {"probe", "error"}
         /\ UNCHANGED <<db, tmux, docker>>
         /\ snap'[p].stored.binding = Store!BindingOf(cmd[p].repo)
         /\ snap'[p].container = snap[p].container
<1> DEFINE stored == [row |-> NULL, binding |-> Store!BindingOf(cmd[p].repo)]
<1>1. phase[p] = "held" /\ at[p] = "read" /\ cmd[p].op = "autostart"
  BY Stepped DEF ReadsRepository
<1>2. /\ at' = [at EXCEPT ![p] = at'[p]] /\ UNCHANGED <<lockVars, cmd>>
      /\ at'[p] \in {"probe", "error"}
  BY Stepped DEF ReadsRepository
<1>3. /\ stored \in StoredRow /\ stored # NULL
      /\ stored.binding = Store!BindingOf(cmd[p].repo)
  BY StoredTyped, RecordsAssumption DEF Sound, StoredRow
<1>4. snap' = [snap EXCEPT ![p].stored = stored]
  BY DEF ReadsRepository
<1> HIDE DEF stored
<1>5. /\ snap' = [snap EXCEPT ![p] = snap'[p]]
      /\ snap'[p] = [snap[p] EXCEPT !.stored = stored]
  BY <1>4 DEF Sound, Types
<1>6. /\ snap'[p] \in SnapRow /\ snap'[p].stored = stored
      /\ snap'[p].container = snap[p].container
  BY <1>1, <1>3, <1>5, AtWork DEF SnapRow
<1>8. UNCHANGED <<db, tmux, docker>>
  BY DEF ReadsRepository
<1>7. Has(cmd[p], at'[p], snap'[p])
  BY <1>2, <1>3, <1>6 DEF Has
<1> QED
  BY <1>1, <1>2, <1>3, <1>5, <1>6, <1>7, <1>8 DEF Moved, Places, Fallible

\* An open's look at tmux.
LEMMA OpenLooksMove ==
  ASSUME Sound, NEW p \in Process, OpenLooks(p)
  PROVE  /\ Moved(p) /\ at[p] = "look" /\ at'[p] = "probe" /\ cmd[p].op = "open"
         /\ UNCHANGED <<db, tmux, docker>> /\ snap'[p].stored = snap[p].stored
         /\ snap'[p].container = snap[p].container
         /\ \/ snap'[p].state = "unknown"
            \/ LET view == TmuxView(cmd[p].ws.id,
                                    CandidateNames(cmd[p].ws, snap[p].stored)) IN
               snap'[p].state = view.state /\ snap'[p].live = view.live
<1> DEFINE view == TmuxView(cmd[p].ws.id, CandidateNames(cmd[p].ws, snap[p].stored))
<1>1. /\ phase[p] = "held" /\ at[p] = "look" /\ cmd[p].op = "open"
      /\ at' = [at EXCEPT ![p] = at'[p]] /\ at'[p] = "probe"
      /\ UNCHANGED <<lockVars, cmd>>
  <2>1. Step(p, {"open"}, "look", "probe")
    BY DEF OpenLooks
  <2>2. cmd[p].op \in {"open"} => cmd[p].op = "open"
    OBVIOUS
  <2> QED
    BY <2>1, <2>2, Stepped
<1>2. /\ view.state \in {"unknown", "absent", "live"}
      /\ view.live \in SessionRow \cup {NULL}
      /\ view.by_name \in SUBSET SessionRow
  BY Views DEF Sound
<1>3. \/ snap' = [snap EXCEPT ![p].state = view.state, ![p].live = view.live,
                              ![p].by_name = view.by_name]
      \/ snap' = [snap EXCEPT ![p].state = "unknown"]
  BY DEF OpenLooks
<1>4. snap[p] \in SnapRow /\ snap[p].stored # NULL
  BY <1>1, AtWork DEF Has
<1> HIDE DEF view
<1>5. /\ snap' = [snap EXCEPT ![p] = snap'[p]]
      /\ snap'[p] \in {[snap[p] EXCEPT !.state = "unknown"],
                       [snap[p] EXCEPT !.state = view.state, !.live = view.live,
                                       !.by_name = view.by_name]}
  BY <1>3 DEF Sound, Types
<1>6. /\ snap'[p] \in SnapRow /\ snap'[p].stored = snap[p].stored
      /\ snap'[p].container = snap[p].container
      /\ \/ snap'[p].state = "unknown"
         \/ snap'[p].state = view.state /\ snap'[p].live = view.live
  BY <1>2, <1>4, <1>5 DEF SnapRow
<1>7. Has(cmd[p], at'[p], snap'[p])
  BY <1>1, <1>4, <1>6 DEF Has
<1>8. UNCHANGED <<db, tmux, docker>>
  BY DEF OpenLooks
<1> QED
  BY <1>1, <1>5, <1>6, <1>7, <1>8 DEF Moved, Places, Fallible, view

\* Where an open or an autostart goes once its container is settled.
LEMMA AfterContainerPlaces ==
  ASSUME NEW p, NEW session, NEW obs
  PROVE  LET next == AfterContainer(p, session, obs) IN
         /\ next \in {"ok", "record", "fail", "commit", "adopt", "allocate"}
         /\ next \in {"ok", "record"} <=> cmd[p].op = "autostart"
         /\ next = "record" => obs # NULL
         /\ next = "adopt" => session = "adopt"
         /\ next = "commit" => session = "none"
         /\ next = "allocate" => session \notin {"none", "adopt"}
BY DEF AfterContainer

\* The plan of an open: it creates a session only where it saw none.
LEMMA Planned ==
  ASSUME NEW s \in SnapRow, NEW ws
  PROVE  LET session == Plan!SessionAction(s, ws) IN
         /\ session \in SessionPlan
         /\ session = "create" => s.state = "absent"
         /\ session = "adopt" => s.live # NULL
BY DEF Plan!SessionAction, Plan!Refuses, SessionPlan, SnapRow

\* The plan for a container, whatever was seen of it.
LEMMA ContainerPlans ==
  ASSUME NEW obs
  PROVE  Plan!ContainerAction(obs) \in {"none", "acquire", "start", "probe-first"}
<1>1. CASE obs = NULL
  BY <1>1 DEF Plan!ContainerAction
<1>2. CASE obs # NULL /\ obs.health = "present"
  BY <1>2 DEF Plan!ContainerAction
<1>3. CASE obs # NULL /\ obs.health = "missing"
  BY <1>3 DEF Plan!ContainerAction
<1>4. CASE obs # NULL /\ obs.health \notin {"present", "missing"}
  BY <1>4 DEF Plan!ContainerAction
<1> QED
  BY <1>1, <1>2, <1>3, <1>4

\* What a probe leaves, and where it leads.
ProbePlaces == {"fail", "reprobe", "up", "ok", "record", "commit", "adopt", "allocate"}

\* The plan is made from the snapshot, and only an adoption keeps the session
\* that was seen.
LEMMA ProbesMove ==
  ASSUME Sound, NEW p \in Process, Probes(p)
  PROVE  /\ Moved(p) /\ at[p] = "probe" /\ at'[p] \in ProbePlaces
         /\ cmd[p].op \in {"open", "autostart"}
         /\ cmd[p].op = "open" =>
              /\ snap'[p].session = Plan!SessionAction(snap[p], cmd[p].ws)
              /\ at'[p] = "allocate" => snap'[p].session = "create"
              /\ at'[p] = "adopt" => snap'[p].session = "adopt"
              /\ at'[p] \in {"reprobe", "up"} => snap'[p].session # "refuse"
              /\ snap'[p].live = IF snap'[p].session = "adopt" THEN snap[p].live ELSE NULL
         /\ UNCHANGED <<db, tmux, docker>> /\ snap'[p].stored \in {snap[p].stored, NULL}
         /\ \E obs \in {Observed(cmd[p].repo, snap[p].stored.binding),
                      Plan!UnknownContainer} :
              /\ snap'[p].container = Settled(obs)
              /\ \/ at'[p] \in {"fail", "reprobe", "up"}
                 \/ /\ Plan!ContainerAction(obs) = "none"
                    /\ at'[p] = AfterContainer(p, snap'[p].session, snap'[p].container)
<1> DEFINE session == IF cmd[p].op = "open" THEN Plan!SessionAction(snap[p], cmd[p].ws)
                      ELSE NULL
           after(obs) == CASE session = "refuse" -> "fail"
                  [] session # "refuse" /\ Plan!ContainerAction(obs) = "probe-first"
                       -> "reprobe"
                  [] session # "refuse" /\ Plan!ContainerAction(obs) \in {"start", "acquire"}
                       -> "up"
                  [] OTHER -> AfterContainer(p, session, Settled(obs))
           stored == IF at'[p] = "reprobe" THEN snap[p].stored ELSE NULL
           live == IF session = "adopt" THEN snap[p].live ELSE NULL
           Left(obs) == [NoSnap EXCEPT !.session = session, !.container = Settled(obs),
                                       !.stored = stored, !.live = live]
<1>1. PICK obs \in {Observed(cmd[p].repo, snap[p].stored.binding), Plan!UnknownContainer} :
        /\ Step(p, {"open", "autostart"}, "probe", after(obs))
        /\ snap' = [snap EXCEPT ![p] = Left(obs)]
  BY DEF Probes
<1>2. /\ phase[p] = "held" /\ at[p] = "probe" /\ cmd[p].op \in {"open", "autostart"}
      /\ at' = [at EXCEPT ![p] = at'[p]] /\ at'[p] = after(obs)
      /\ UNCHANGED <<lockVars, cmd>>
  BY <1>1, Stepped
<1>3. snap[p] \in SnapRow /\ snap[p].stored \in StoredRow
  BY <1>2, AtWork DEF Has, SnapRow
<1>4. snap[p].stored.binding \in Store!BindingRow \cup {NULL}
  BY <1>3 DEF StoredRow
<1>5. obs \in ContainerView \cup {NULL} /\ Settled(obs) \in ContainerView \cup {NULL}
  BY <1>4, Observations DEF ContainerView, Sound
<1>6. /\ session \in SessionPlan \cup {NULL}
      /\ cmd[p].op = "open" => /\ session \in SessionPlan
                               /\ session = "adopt" => snap[p].live # NULL
  BY <1>3, Planned
<1>7. Left(obs) \in SnapRow
  <2>1. stored \in StoredRow \cup {NULL} /\ live \in SessionRow \cup {NULL}
    BY <1>3 DEF SnapRow
  <2> HIDE DEF stored, live, session
  <2> QED
    BY <1>5, <1>6, <2>1 DEF SnapRow, NoSnap
<1>8. /\ Left(obs).session = session /\ Left(obs).container = Settled(obs)
      /\ at'[p] = "reprobe" => Left(obs).stored # NULL
      /\ Left(obs).live = IF session = "adopt" THEN snap[p].live ELSE NULL
      /\ Left(obs).stored \in {snap[p].stored, NULL}
  BY <1>2, <1>3, AtWork DEF NoSnap, Has
<1>9. snap' = [snap EXCEPT ![p] = snap'[p]] /\ snap'[p] = Left(obs)
  BY <1>1 DEF Sound, Types
<1>10. /\ after(obs) \in ProbePlaces
       /\ after(obs) \in {"ok", "record"} => cmd[p].op = "autostart"
       /\ after(obs) = "record" => Settled(obs) # NULL
       /\ after(obs) \in {"reprobe", "up"} => session # "refuse"
       /\ after(obs) = "adopt" => session = "adopt" /\ cmd[p].op = "open"
       /\ after(obs) = "allocate" => session \notin {"refuse", "none", "adopt"}
                                    /\ cmd[p].op = "open"
  <2> HIDE DEF session
  <2>1. CASE session = "refuse"
    BY <2>1 DEF ProbePlaces
  <2>2. CASE session # "refuse" /\ Plan!ContainerAction(obs) = "probe-first"
    BY <2>2 DEF ProbePlaces
  <2>3. CASE session # "refuse" /\ Plan!ContainerAction(obs) \in {"start", "acquire"}
    BY <2>3 DEF ProbePlaces
  <2>4. CASE session # "refuse" /\ Plan!ContainerAction(obs) = "none"
    <3>1. after(obs) = AfterContainer(p, session, Settled(obs))
      BY <2>4
    <3> QED
      BY <1>2, <2>4, <3>1, AfterContainerPlaces DEF ProbePlaces
  <2> QED
    BY <2>1, <2>2, <2>3, <2>4, ContainerPlans
<1>13. \/ after(obs) \in {"fail", "reprobe", "up"}
       \/ /\ Plan!ContainerAction(obs) = "none"
          /\ after(obs) = AfterContainer(p, session, Settled(obs))
  <2> HIDE DEF session
  <2>1. CASE Plan!ContainerAction(obs) = "none"
    BY <2>1
  <2>2. CASE Plan!ContainerAction(obs) # "none"
    BY <2>2, ContainerPlans
  <2> QED
    BY <2>1, <2>2
<1>14. UNCHANGED <<db, tmux, docker>>
  BY DEF Probes
<1> HIDE DEF session, after, Left
<1>11. Has(cmd[p], at'[p], snap'[p])
  BY <1>2, <1>6, <1>8, <1>9, <1>10 DEF Has, ProbePlaces
<1>12. Moved(p)
  BY <1>2, <1>7, <1>9, <1>10, <1>11 DEF Moved, Places, Fallible, ProbePlaces
<1> QED
  BY <1>2, <1>6, <1>8, <1>9, <1>10, <1>12, <1>13, <1>14 DEF session, SessionPlan

\* A second look at the container keeps the plan for the session.
LEMMA ReprobesMove ==
  ASSUME Sound, NEW p \in Process, Reprobes(p)
  PROVE  /\ Moved(p) /\ at[p] = "reprobe"
         /\ at'[p] \in (ProbePlaces \cup {"error"}) \ {"reprobe"}
         /\ cmd[p].op \in {"open", "autostart"}
         /\ snap'[p].session = snap[p].session /\ snap'[p].live = snap[p].live
         /\ at'[p] = "adopt" => snap[p].session = "adopt"
         /\ UNCHANGED <<db, tmux, docker>> /\ snap'[p].stored = NULL
         /\ LET obs == Reobserved(cmd[p], snap[p].stored.binding) IN
            /\ snap'[p].container = Settled(obs)
            /\ \/ at'[p] \in {"fail", "error", "up"}
               \/ /\ Plan!ContainerAction(obs) = "none"
                  /\ at'[p] = AfterContainer(p, snap[p].session, snap'[p].container)
         /\ at'[p] = "allocate" => cmd[p].op = "open"
                                   /\ snap[p].session \notin {"none", "adopt"}
<1> DEFINE obs == Reobserved(cmd[p], snap[p].stored.binding)
           found == Settled(obs)
           next == CASE Plan!ContainerAction(obs) = "probe-first" -> OnError(p)
                     [] Plan!ContainerAction(obs) \in {"start", "acquire"} -> "up"
                     [] OTHER -> AfterContainer(p, snap[p].session, found)
<1>1. /\ Step(p, {"open", "autostart"}, "reprobe", next)
      /\ snap' = [snap EXCEPT ![p].container = found, ![p].stored = NULL]
  BY DEF Reprobes
<1>2. /\ phase[p] = "held" /\ at[p] = "reprobe" /\ cmd[p].op \in {"open", "autostart"}
      /\ at' = [at EXCEPT ![p] = at'[p]] /\ at'[p] = next
      /\ UNCHANGED <<lockVars, cmd>>
  BY <1>1, Stepped
<1>3. snap[p] \in SnapRow /\ snap[p].stored \in StoredRow
  BY <1>2, AtWork DEF Has, SnapRow
<1>4. snap[p].stored.binding \in Store!BindingRow \cup {NULL}
  BY <1>3 DEF StoredRow
<1>5. found \in ContainerView \cup {NULL}
  BY <1>4, Observations DEF Sound
<1>6. /\ next \in (ProbePlaces \cup {"error"}) \ {"reprobe"}
      /\ next = "record" => found # NULL
      /\ next = "adopt" => snap[p].session = "adopt" /\ cmd[p].op = "open"
      /\ next = "allocate" => snap[p].session \notin {"none", "adopt"}
                              /\ cmd[p].op = "open"
  <2> HIDE DEF obs
  <2>1. CASE Plan!ContainerAction(obs) = "probe-first"
    BY <2>1, ErrorPlaces DEF ProbePlaces
  <2>2. CASE Plan!ContainerAction(obs) \in {"start", "acquire"}
    BY <2>2 DEF ProbePlaces
  <2>3. CASE Plan!ContainerAction(obs) = "none"
    <3>1. next = AfterContainer(p, snap[p].session, found)
      BY <2>3
    <3> QED
      BY <1>2, <3>1, AfterContainerPlaces DEF ProbePlaces
  <2> QED
    BY <2>1, <2>2, <2>3, ContainerPlans
<1>12. \/ next \in {"fail", "error", "up"}
       \/ /\ Plan!ContainerAction(obs) = "none"
          /\ next = AfterContainer(p, snap[p].session, found)
  <2> HIDE DEF obs
  <2>1. CASE Plan!ContainerAction(obs) = "none"
    BY <2>1
  <2>2. CASE Plan!ContainerAction(obs) # "none"
    BY <2>2, ContainerPlans, ErrorPlaces
  <2> QED
    BY <2>1, <2>2
<1>13. UNCHANGED <<db, tmux, docker>>
  BY DEF Reprobes
<1> HIDE DEF obs, found, next
<1>7. /\ snap' = [snap EXCEPT ![p] = snap'[p]]
      /\ snap'[p] = [snap[p] EXCEPT !.container = found, !.stored = NULL]
  BY <1>1 DEF Sound, Types
<1>8. /\ snap'[p] \in SnapRow /\ snap'[p].session = snap[p].session
      /\ snap'[p].live = snap[p].live /\ snap'[p].container = found
      /\ snap'[p].stored = NULL
  BY <1>3, <1>5, <1>7 DEF SnapRow
<1>9. snap[p].session = "adopt" /\ cmd[p].op = "open" => snap[p].live # NULL
  BY <1>2, AtWork DEF Has
<1>10. Has(cmd[p], at'[p], snap'[p])
  BY <1>2, <1>6, <1>8, <1>9 DEF Has, ProbePlaces
<1>11. Moved(p)
  BY <1>2, <1>6, <1>7, <1>8, <1>10 DEF Moved, Places, Fallible, ProbePlaces
<1> QED
  BY <1>2, <1>6, <1>8, <1>11, <1>12, <1>13 DEF obs, found

\* So does the beginning of a devcontainer up, which picks a container.
LEMMA BeginsUpMove ==
  ASSUME Sound, NEW p \in Process, BeginsUp(p)
  PROVE  /\ Moved(p) /\ at[p] = "up" /\ at'[p] = "upping"
         /\ cmd[p].op \in {"open", "autostart"}
         /\ snap'[p].session = snap[p].session /\ snap'[p].live = snap[p].live
         /\ snap'[p].container.container \in UpTargets(cmd[p].repo)
         /\ snap'[p].stored = snap[p].stored
<1>1. /\ phase[p] = "held" /\ at[p] = "up" /\ cmd[p].op \in {"open", "autostart"}
      /\ at' = [at EXCEPT ![p] = at'[p]] /\ at'[p] = "upping"
      /\ UNCHANGED <<lockVars, cmd>>
  BY Stepped DEF BeginsUp
<1>2. PICK c \in UpTargets(cmd[p].repo) :
        snap' = [snap EXCEPT ![p].container = Plan!PresentContainer(c, TRUE)]
  BY DEF BeginsUp
<1> DEFINE view == Plan!PresentContainer(c, TRUE)
<1>3. c \in Container
  BY DEF UpTargets
<1>4. view \in ContainerView /\ view.container = c
  BY <1>3 DEF ContainerView, Plan!PresentContainer
<1>12. view # NULL
  BY <1>4, RecordsAssumption
<1> HIDE DEF view
<1>5. /\ snap' = [snap EXCEPT ![p] = snap'[p]]
      /\ snap'[p] = [snap[p] EXCEPT !.container = view]
  BY <1>2 DEF Sound, Types, view
<1>6. snap[p] \in SnapRow
  BY <1>1, AtWork
<1>7. /\ snap'[p] \in SnapRow /\ snap'[p].session = snap[p].session
      /\ snap'[p].live = snap[p].live /\ snap'[p].container = view
      /\ snap'[p].stored = snap[p].stored
  BY <1>4, <1>5, <1>6 DEF SnapRow
<1>8. snap[p].session = "adopt" /\ cmd[p].op = "open" => snap[p].live # NULL
  BY <1>1, AtWork DEF Has
<1>9. Has(cmd[p], at'[p], snap'[p])
  BY <1>1, <1>3, <1>4, <1>7, <1>8, <1>12 DEF Has
<1>10. Moved(p)
  BY <1>1, <1>5, <1>7, <1>9 DEF Moved, Places, Fallible
<1> QED
  BY <1>1, <1>2, <1>4, <1>7, <1>10

\* Its end goes on with the container it was about.
LEMMA EndsUpMove ==
  ASSUME Sound, NEW p \in Process, EndsUp(p)
  PROVE  /\ Moved(p) /\ at[p] = "upping"
         /\ at'[p] \in (ProbePlaces \cup {"error"}) \ {"reprobe", "up"}
         /\ snap' = snap /\ snap[p].container.container \in Container
         /\ cmd[p].op \in {"open", "autostart"}
         /\ at'[p] = "adopt" => snap[p].session = "adopt"
         /\ UNCHANGED <<db, tmux>>
         /\ \/ at'[p] \in {"fail", "error"}
            \/ /\ at'[p] = AfterContainer(p, snap[p].session, snap[p].container)
               /\ docker' = [docker EXCEPT ![snap[p].container.container] = "running"]
         /\ at'[p] = "allocate" => cmd[p].op = "open"
                                   /\ snap[p].session \notin {"none", "adopt"}
<1> DEFINE obs == snap[p].container
           after == AfterContainer(p, snap[p].session, obs)
<1>1. \E next \in {after, OnError(p)} : Step(p, {"open", "autostart"}, "upping", next)
  BY DEF EndsUp, Answers
<1>2. /\ phase[p] = "held" /\ at[p] = "upping" /\ cmd[p].op \in {"open", "autostart"}
      /\ at' = [at EXCEPT ![p] = at'[p]] /\ at'[p] \in {after, OnError(p)}
      /\ UNCHANGED <<lockVars, cmd>>
  BY <1>1, Stepped
<1>3. /\ snap[p] \in SnapRow /\ obs # NULL /\ obs.container \in Container
      /\ cmd[p].op = "open" /\ snap[p].session = "adopt" => snap[p].live # NULL
  BY <1>2, AtWork DEF Has
<1>4. /\ at'[p] \in ProbePlaces \cup {"error"}
      /\ at'[p] = "adopt" => snap[p].session = "adopt" /\ cmd[p].op = "open"
      /\ at'[p] = "allocate" => snap[p].session \notin {"none", "adopt"}
                                /\ cmd[p].op = "open"
      /\ at'[p] \notin {"reprobe", "up"}
  BY <1>2, AfterContainerPlaces, ErrorPlaces DEF ProbePlaces
<1>5. snap' = snap /\ UNCHANGED <<db, tmux>>
  BY DEF EndsUp
<1>6. Has(cmd[p], at'[p], snap[p])
  BY <1>3, <1>4 DEF Has, ProbePlaces
<1>7. Moved(p)
  BY <1>2, <1>3, <1>4, <1>5, <1>6
     DEF Moved, Places, Fallible, ProbePlaces, Sound, Types
<1>8. \/ at'[p] \in {"fail", "error"}
      \/ at'[p] = after /\ docker' = [docker EXCEPT ![obs.container] = "running"]
  <2>1. CASE docker[obs.container] = "removed"
    BY <2>1, Stepped, ErrorPlaces DEF EndsUp
  <2>2. CASE docker[obs.container] # "removed"
    BY <1>2, <2>2, ErrorPlaces DEF EndsUp
  <2> QED
    BY <2>1, <2>2
<1> QED
  BY <1>2, <1>3, <1>4, <1>5, <1>7, <1>8

\* The calls between a plan and its commit, and a stop's look at the siblings.
LEMMA SessionCallsMove ==
  ASSUME Sound, NEW p \in Process,
         \/ Adopts(p) \/ LooksForOccupant(p) \/ Creates(p) \/ Confirms(p)
         \/ ChecksSiblings(p)
  PROVE  /\ Moved(p) /\ snap' = snap
         /\ at'[p] \in {"commit", "fail", "create", "confirm", "look", "error"}
         /\ at'[p] = "create" => at[p] = "occupant" /\ UNCHANGED <<db, tmux, docker>>
         /\ at'[p] = "look" => ChecksSiblings(p) /\ ~SiblingsLive(cmd[p].ws)
<1>1. snap' = snap
  BY DEF Adopts, LooksForOccupant, Creates, Confirms, ChecksSiblings
<1>2. /\ phase[p] = "held" /\ at[p] # "over" /\ at' = [at EXCEPT ![p] = at'[p]]
      /\ UNCHANGED <<lockVars, cmd>>
      /\ at'[p] \in {"commit", "fail", "create", "confirm", "look", "error"}
      /\ at'[p] = "create" => at[p] = "occupant"
      /\ at'[p] = "confirm" => at[p] = "create"
      /\ at'[p] = "look" => cmd[p].op = "stop"
  BY Stepped, ErrorPlaces
     DEF Adopts, LooksForOccupant, Creates, Confirms, ChecksSiblings, Answers
<1>3. Has(cmd[p], at'[p], snap[p])
  BY <1>2, AtWork DEF Has
<1>4. at'[p] \in Places \ {"over"}
  BY <1>2 DEF Places, Fallible
<1>5. at'[p] = "look" => ChecksSiblings(p) /\ ~SiblingsLive(cmd[p].ws)
  BY Stepped, ErrorPlaces
     DEF Adopts, LooksForOccupant, Creates, Confirms, ChecksSiblings, Answers
<1>6. at'[p] = "create" => UNCHANGED <<db, tmux, docker>>
  BY Stepped, ErrorPlaces
     DEF Adopts, LooksForOccupant, Creates, Confirms, ChecksSiblings, Answers
<1> QED
  BY <1>1, <1>2, <1>3, <1>4, <1>5, <1>6, AtWork DEF Moved, Sound, Types

\* A name is allocated before anything is asked of tmux.
LEMMA AllocatesMove ==
  ASSUME Sound, NEW p \in Process, Allocates(p)
  PROVE  /\ Moved(p) /\ at[p] = "allocate" /\ at'[p] \in {"fail", "occupant"}
         /\ snap'[p].session = snap[p].session
         /\ snap'[p].stored = snap[p].stored /\ snap'[p].container = snap[p].container
         /\ snap'[p].name \in Name \cup {NULL}
         /\ Store!AllocateSessionName(cmd[p].ws.id, snap'[p].name)
         /\ at'[p] = "occupant" => snap'[p].name # NULL
<1>1. PICK name \in Name \cup {NULL} :
        /\ Step(p, {"open"}, "allocate", IF name = NULL THEN "fail" ELSE "occupant")
        /\ snap' = [snap EXCEPT ![p].name = name]
        /\ Store!AllocateSessionName(cmd[p].ws.id, name)
  BY DEF Allocates
<1>2. /\ phase[p] = "held" /\ at[p] = "allocate"
      /\ at' = [at EXCEPT ![p] = at'[p]] /\ UNCHANGED <<lockVars, cmd>>
      /\ at'[p] = IF name = NULL THEN "fail" ELSE "occupant"
  BY <1>1, Stepped
<1>3. /\ snap' = [snap EXCEPT ![p] = snap'[p]]
      /\ snap'[p] = [snap[p] EXCEPT !.name = name]
  BY <1>1 DEF Sound, Types
<1>4. /\ snap'[p] \in SnapRow /\ snap'[p].session = snap[p].session
      /\ snap'[p].name = name /\ snap'[p].stored = snap[p].stored
      /\ snap'[p].container = snap[p].container
  BY <1>2, <1>3, AtWork DEF SnapRow
<1>5. Has(cmd[p], at'[p], snap'[p])
  BY <1>2, <1>4 DEF Has
<1>6. Moved(p)
  BY <1>2, <1>3, <1>4, <1>5 DEF Moved, Places, Fallible
<1> QED
  BY <1>1, <1>2, <1>4, <1>6

\* A stop's look at tmux: what it goes on to kill claims its workspace.
LEMMA StopLooksMove ==
  ASSUME Sound, NEW p \in Process, StopLooks(p)
  PROVE  /\ Moved(p) /\ at[p] = "look" /\ cmd[p].op = "stop"
         /\ at'[p] \in {"kill", "stop_container", "commit", "ok", "fail", "error"}
         /\ snap'[p].stored = snap[p].stored /\ UNCHANGED <<db, tmux, docker>>
         /\ at'[p] = "kill" => /\ snap'[p].live \in ClaimantsOf(cmd[p].ws.id)
                              /\ ~(Cardinality(ClaimantsOf(cmd[p].ws.id)) > 1)
         /\ snap'[p].container = snap[p].container
         /\ at'[p] \in {"stop_container", "commit", "ok"} =>
              ClaimantsOf(cmd[p].ws.id) = {} /\ at'[p] = AfterSession(p)
<1> DEFINE view == TmuxView(cmd[p].ws.id, CandidateNames(cmd[p].ws, snap[p].stored))
           next == CASE view.state = "unknown" -> OnError(p)
                     [] view.state = "absent" -> AfterSession(p)
                     [] view.state = "live" /\ ~Plan!SessionBelongsTo(view.live, cmd[p].ws)
                          -> OnError(p)
                     [] OTHER -> "kill"
<1>1. /\ Step(p, {"stop"}, "look", next)
      /\ snap' = [snap EXCEPT ![p].live = view.live]
  BY DEF StopLooks
<1>2. /\ phase[p] = "held" /\ at[p] = "look" /\ cmd[p].op = "stop"
      /\ at' = [at EXCEPT ![p] = at'[p]] /\ at'[p] = next
      /\ UNCHANGED <<lockVars, cmd>>
  <2> HIDE DEF next, view
  <2>1. Step(p, {"stop"}, "look", next)
    BY <1>1
  <2> QED
    BY <2>1, Stepped
<1>3. /\ view.state \in {"unknown", "absent", "live"}
      /\ view.live \in SessionRow \cup {NULL}
      /\ view.state = "live" => view.live # NULL
      /\ view.live # NULL => view.live \in ClaimantsOf(cmd[p].ws.id)
      /\ view.state = "live" => ~(Cardinality(ClaimantsOf(cmd[p].ws.id)) > 1)
      /\ view.state = "absent" => ClaimantsOf(cmd[p].ws.id) = {}
  BY Views DEF Sound
<1>4. /\ AfterSession(p) \in {"stop_container", "commit", "ok"}
      /\ AfterSession(p) = "stop_container" =>
           /\ cmd[p].container
           /\ snap[p].stored # NULL /\ snap[p].stored.binding # NULL
  BY DEF AfterSession
<1> HIDE DEF view
<1>5. /\ next \in {"kill", "stop_container", "commit", "ok", "fail", "error"}
      /\ next = "kill" => view.state = "live"
      /\ next \in {"stop_container", "commit", "ok"} =>
           next = AfterSession(p) /\ view.state = "absent"
  <2>1. CASE view.state = "unknown"
    BY <2>1, ErrorPlaces
  <2>2. CASE view.state = "absent"
    BY <1>4, <2>2
  <2>3. CASE view.state = "live"
    BY <2>3, ErrorPlaces
  <2> QED
    BY <1>3, <2>1, <2>2, <2>3
<1> HIDE DEF next
<1>6. /\ snap' = [snap EXCEPT ![p] = snap'[p]]
      /\ snap'[p] = [snap[p] EXCEPT !.live = view.live]
  BY <1>1 DEF Sound, Types
<1>7. /\ snap'[p] \in SnapRow /\ snap'[p].live = view.live
      /\ snap'[p].stored = snap[p].stored /\ snap'[p].container = snap[p].container
  BY <1>2, <1>3, <1>6, AtWork DEF SnapRow
<1>8. Has(cmd[p], at'[p], snap'[p])
  BY <1>2, <1>3, <1>4, <1>5, <1>7 DEF Has
<1>9. Moved(p)
  BY <1>2, <1>5, <1>6, <1>7, <1>8 DEF Moved, Places, Fallible
<1>10. UNCHANGED <<db, tmux, docker>>
  BY DEF StopLooks
<1> QED
  BY <1>2, <1>3, <1>5, <1>7, <1>9, <1>10

\* A kill leads on to the container or to the record.
LEMMA KillsMove ==
  ASSUME Sound, NEW p \in Process, Kills(p)
  PROVE  /\ Moved(p) /\ at[p] = "kill" /\ cmd[p].op = "stop" /\ snap' = snap
         /\ at'[p] \in {"stop_container", "commit", "ok", "fail", "error"}
         /\ at'[p] \in {"fail", "error"} \/ at'[p] = AfterSession(p)
<1>1. /\ phase[p] = "held" /\ at[p] = "kill" /\ cmd[p].op = "stop"
      /\ at' = [at EXCEPT ![p] = at'[p]] /\ UNCHANGED <<lockVars, cmd>>
      /\ at'[p] \in {AfterSession(p), OnError(p)}
  BY Stepped DEF Kills, Answers
<1>2. snap' = snap
  BY DEF Kills
<1>3. /\ at'[p] \in {"stop_container", "commit", "ok", "fail", "error"}
      /\ at'[p] = "stop_container" =>
           /\ cmd[p].container
           /\ snap[p].stored # NULL /\ snap[p].stored.binding # NULL
  BY <1>1, ErrorPlaces DEF AfterSession
<1>4. Has(cmd[p], at'[p], snap[p])
  BY <1>1, <1>3 DEF Has
<1> QED
  BY <1>1, <1>2, <1>3, <1>4, AtWork, ErrorPlaces
  DEF Moved, Places, Fallible, Sound, Types

\* The container's stop leads to the record.
LEMMA StopsContainerMove ==
  ASSUME Sound, NEW p \in Process, StopsContainer(p)
  PROVE  /\ Moved(p) /\ at[p] = "stop_container"
         /\ at'[p] \in {"commit", "fail", "error"} /\ cmd[p].op = "stop"
         /\ snap'[p] = [snap[p] EXCEPT !.container = Plan!MissingContainer]
<1>1. /\ phase[p] = "held" /\ at[p] = "stop_container" /\ cmd[p].op = "stop"
      /\ at' = [at EXCEPT ![p] = at'[p]] /\ UNCHANGED <<lockVars, cmd>>
      /\ at'[p] \in {"commit", "fail", "error"}
  BY Stepped, ErrorPlaces DEF StopsContainer, Answers
<1>2. Plan!MissingContainer \in ContainerView
  BY DEF ContainerView
<1>3. /\ snap' = [snap EXCEPT ![p] = snap'[p]]
      /\ snap'[p] = [snap[p] EXCEPT !.container = Plan!MissingContainer]
  BY DEF StopsContainer, Sound, Types
<1>4. snap'[p] \in SnapRow
  BY <1>1, <1>2, <1>3, AtWork DEF SnapRow
<1>5. Has(cmd[p], at'[p], snap'[p])
  BY <1>1 DEF Has
<1> QED
  BY <1>1, <1>3, <1>4, <1>5 DEF Moved, Places, Fallible

\* Every call moves the command that makes it, and no other.
LEMMA CallsMove ==
  ASSUME Sound, NEW p \in Process, Call(p) \/ CallFails(p)
  PROVE  Moved(p)
<1>1. CASE Reads(p) \/ ReadsRepository(p) \/ OpenLooks(p)
  BY <1>1, ReadsMove, ReadsRepositoryMoves, OpenLooksMove
<1>2. CASE Probes(p)
  BY <1>2, ProbesMove
<1>3. CASE Reprobes(p)
  BY <1>3, ReprobesMove
<1>4. CASE BeginsUp(p) \/ EndsUp(p) \/ Allocates(p)
  BY <1>4, BeginsUpMove, EndsUpMove, AllocatesMove
<1>5. CASE StopLooks(p) \/ Kills(p) \/ StopsContainer(p)
  BY <1>5, StopLooksMove, KillsMove, StopsContainerMove
<1> QED
  BY <1>1, <1>2, <1>3, <1>4, <1>5, StoreCallsMove, SessionCallsMove DEF Call

\* The calls that lead to a kill, or to the wait for a devcontainer up.
LEMMA LeadingCalls ==
  ASSUME Sound, NEW p \in Process, Call(p) \/ CallFails(p)
  PROVE  /\ at'[p] = "kill" => StopLooks(p)
         /\ at'[p] = "upping" => BeginsUp(p)
<1>1. CASE Reads(p) \/ ReadsRepository(p) \/ OpenLooks(p)
  BY <1>1, ReadsMove, ReadsRepositoryMoves, OpenLooksMove
<1>2. CASE Probes(p)
  BY <1>2, ProbesMove DEF ProbePlaces
<1>3. CASE Reprobes(p)
  BY <1>3, ReprobesMove DEF ProbePlaces
<1>4. CASE EndsUp(p)
  BY <1>4, EndsUpMove DEF ProbePlaces
<1>5. CASE BeginsUp(p) \/ StopLooks(p) \/ Kills(p) \/ StopsContainer(p) \/ Allocates(p)
  BY <1>5, BeginsUpMove, StopLooksMove, KillsMove, StopsContainerMove, AllocatesMove
<1> QED
  BY <1>1, <1>2, <1>3, <1>4, <1>5, StoreCallsMove, SessionCallsMove DEF Call

-----------------------------------------------------------------------------
(* The calls: what each does to the store, to tmux and to docker *)

\* Every call is at most one transaction, and only an adoption is one that
\* replaces a name.
LEMMA CallsTransact ==
  ASSUME Sound, NEW p \in Process, Call(p) \/ CallFails(p)
  PROVE  /\ Transacts \/ UNCHANGED db
         /\ Notes \/ Adopts(p) \/ UNCHANGED db
<1> DEFINE ws == cmd[p].ws
           obs == snap[p].container
<1>1. phase[p] = "held" /\ at[p] # "over"
  BY CallsMove DEF Moved
<1>2. cmd[p].op \in {"open", "stop", "bind"} =>
        ws \in Resolvable /\ ws.id \in WorkspaceID
  BY <1>1, AtWork DEF Store!Identity
<1>3. cmd[p] \in CommandShape /\ snap[p] \in SnapRow
  BY <1>1, AtWork
<1>4. obs # NULL => StateObservation(obs) \in Store!Observation
  BY <1>3 DEF SnapRow, ContainerView, StateObservation, Store!Observation,
     Store!Health, Plan!MissingContainer, Plan!UnknownContainer
<1>5. "ok" \in Store!OperationRow /\ "failed" \in Store!OperationRow
  BY DEF Store!OperationRow
<1>6. CASE Registers(p)
  <2>1. cmd[p].op \in {"open", "bind"}
    BY <1>6, Stepped DEF Registers
  <2>2. (IF cmd[p].op = "open" THEN cmd[p].digest ELSE EmptyDigest) \in Digest
    BY <1>1, AtWork, CommandsAssumption
  <2> QED
    BY <1>2, <1>6, <2>1, <2>2 DEF Registers, Store!Register, Notes, Transacts
<1>7. CASE Binds(p)
  <2>1. cmd[p].op \in {"open", "bind"} /\ cmd[p].bind \in Bind \cup {NULL}
    BY <1>3, <1>7, Stepped DEF Binds, CommandShape
  <2> QED
    BY <1>2, <1>7, <2>1 DEF Binds, Store!Rebind, Notes, Transacts
<1>8. CASE Adopts(p)
  <2>1. cmd[p].op = "open" /\ at[p] = "adopt"
    BY <1>8, Stepped DEF Adopts
  <2>2. snap[p].live \in SessionRow
    BY <1>1, <1>3, <2>1, AtWork DEF Has, SnapRow
  <2>3. snap[p].live.name \in Name
    BY <2>2 DEF SessionRow
  <2> QED
    BY <1>2, <1>8, <2>1, <2>3 DEF Adopts, Store!Adopt, Notes, Transacts
<1>9. CASE Allocates(p)
  <2>1. cmd[p].op = "open"
    BY <1>9, Stepped DEF Allocates
  <2> QED
    BY <1>2, <1>9, <2>1 DEF Allocates, Store!Allocate, Notes, Transacts
<1>10. CASE Commits(p)
  <2> DEFINE digest == IF snap[p].session = "create" THEN cmd[p].digest ELSE NULL
             seen == IF obs = NULL THEN NULL ELSE StateObservation(obs)
  <2>1. cmd[p].op \in {"open", "stop"}
    BY <1>10, Stepped DEF Commits
  <2>2. digest \in Digest \cup {NULL}
    BY <1>3 DEF CommandShape
  <2>3. seen \in Store!Observation \cup {NULL}
    BY <1>4
  <2>4. \/ Store!RecordOperation(ws.id, "ok")
        \/ Store!CommitReconciliation(ws.id, digest, seen, "ok")
    BY <1>10 DEF Commits
  <2> HIDE DEF digest, seen
  <2> QED
    BY <1>2, <1>5, <2>1, <2>2, <2>3, <2>4
       DEF Store!Operate, Store!Commit, Notes, Transacts
<1>11. CASE RecordsBinding(p)
  <2>1. at[p] = "record" /\ cmd[p].repo \in RepositoryID
    BY <1>3, <1>11, Stepped DEF RecordsBinding, CommandShape
  <2>2. obs # NULL
    BY <1>1, <2>1, AtWork DEF Has
  <2> QED
    BY <1>4, <1>11, <2>1, <2>2 DEF RecordsBinding, Store!Observe, Notes, Transacts
<1>12. CASE RecordsFailure(p)
  <2>1. cmd[p].op \in {"open", "stop"}
    BY <1>12, Stepped DEF RecordsFailure
  <2> QED
    BY <1>2, <1>5, <1>12, <2>1 DEF RecordsFailure, Store!Operate, Notes, Transacts
<1>13. CASE \/ CallFails(p) \/ Reads(p) \/ ReadsRepository(p) \/ OpenLooks(p)
            \/ Probes(p) \/ Reprobes(p) \/ BeginsUp(p) \/ EndsUp(p)
            \/ LooksForOccupant(p) \/ Creates(p) \/ Confirms(p)
            \/ ChecksSiblings(p) \/ StopLooks(p) \/ Kills(p) \/ StopsContainer(p)
  BY <1>13 DEF CallFails, Reads, ReadsRepository, OpenLooks, Probes, Reprobes,
     BeginsUp, EndsUp, LooksForOccupant, Creates, Confirms, ChecksSiblings,
     StopLooks, Kills, StopsContainer
<1> QED
  BY <1>6, <1>7, <1>8, <1>9, <1>10, <1>11, <1>12, <1>13 DEF Call

\* A registration takes no other workspace's row, and no binding of a
\* repository that can be resolved.
LEMMA RegistrationFrames ==
  ASSUME StoreSound, NEW ws \in Resolvable, NEW d \in Digest,
         Store!RegisterWorkspace(ws, d), NEW v \in Resolvable
  PROVE  /\ v.id # ws.id =>
              /\ Store!Known(v.id)' <=> Store!Known(v.id)
              /\ Store!Known(v.id) => db'.workspaces[v.id] = db.workspaces[v.id]
         /\ Store!BindingOf(v.repository_id)' = Store!BindingOf(v.repository_id)
         /\ \A r \in DOMAIN db'.container_bindings :
              /\ r \in DOMAIN db.container_bindings
              /\ db'.container_bindings[r] = db.container_bindings[r]
<1> USE StoreAssumed
<1>1. StoreProofs!IInv
  BY SameStore DEF StoreSound, Store!TypeOK, Store!Integrity, StoreProofs!IInv,
     StoreProofs!TypeOK, StoreProofs!Integrity
<1>2. StoreProofs!RegisterWorkspace(ws, d)
  BY DEF Store!RegisterWorkspace, StoreProofs!RegisterWorkspace, Store!Without,
     StoreProofs!Without, Store!With, StoreProofs!With, Store!StaleRepositories,
     StoreProofs!StaleRepositories, Store!OnRepositories,
     StoreProofs!OnRepositories, Store!StaleIDs, StoreProofs!StaleIDs,
     Store!Rekeyed, StoreProofs!Rekeyed, Store!FreshRow, StoreProofs!FreshRow,
     Store!Refreshed, StoreProofs!Refreshed
<1>3. /\ StoreProofs!Known(v.id) /\ v.id # ws.id
           => StoreProofs!Known(v.id)' /\ db'.workspaces[v.id] = db.workspaces[v.id]
  BY <1>1, <1>2, StoreProofs!RegistrationSpares DEF StoreProofs!RegistrationSpares
<1>4. /\ v.id # ws.id /\ ~StoreProofs!Known(v.id) => ~StoreProofs!Known(v.id)'
      /\ StoreProofs!BindingOf(v.repository_id)'
           = StoreProofs!BindingOf(v.repository_id)
      /\ \A r \in DOMAIN db'.container_bindings :
           /\ r \in DOMAIN db.container_bindings
           /\ db'.container_bindings[r] = db.container_bindings[r]
  BY <1>1, <1>2, StoreProofs!RegistrationLeaves DEF StoreProofs!RegistrationLeaves
<1> QED
  BY <1>3, <1>4 DEF Store!Known, StoreProofs!Known, Store!BindingOf,
     StoreProofs!BindingOf

\* The database is a record of its four tables.
LEMMA Tables ==
  ASSUME Sound
  PROVE  /\ db = [repositories |-> db.repositories, workspaces |-> db.workspaces,
                  container_bindings |-> db.container_bindings,
                  last_operations |-> db.last_operations]
         /\ db.workspaces \in [DOMAIN db.workspaces -> Store!WorkspaceRow]
         /\ db.container_bindings
              \in [DOMAIN db.container_bindings -> Store!BindingRow]
         /\ DOMAIN db.container_bindings \subseteq RepositoryID
BY DEF Sound, StoreSound, Store!TypeOK, Store!IsDatabase, Store!IsTable

\* A registration is about a resolvable workspace.
LEMMA RegistersOwn ==
  ASSUME Sound, NEW q \in Process, Registers(q)
  PROVE  /\ phase[q] = "held" /\ cmd[q].op \in {"open", "bind"}
         /\ at[q] # "over" /\ cmd[q].ws \in Resolvable
         /\ \E d \in Digest : Store!RegisterWorkspace(cmd[q].ws, d)
<1>1. phase[q] = "held" /\ at[q] # "over" /\ cmd[q].op \in {"open", "bind"}
  BY Stepped DEF Registers
<1> QED
  BY <1>1, AtWork, CommandsAssumption DEF Registers

\* What a commit writes.
LEMMA CommitWrites ==
  ASSUME Sound, NEW id, NEW digest, NEW obs, NEW op,
         Store!CommitReconciliation(id, digest, obs, op)
  PROVE  /\ db'.repositories = db.repositories
         /\ DOMAIN db'.workspaces = DOMAIN db.workspaces /\ id \in DOMAIN db.workspaces
         /\ \A w \in DOMAIN db.workspaces :
              w # id => db'.workspaces[w] = db.workspaces[w]
         /\ db'.workspaces[id].actual_session = db.workspaces[id].actual_session
         /\ db'.workspaces[id].bind = db.workspaces[id].bind
         /\ db'.workspaces[id].applied_digest
              = IF digest = NULL THEN db.workspaces[id].applied_digest ELSE digest
         /\ db'.container_bindings
              = IF obs = NULL THEN db.container_bindings
                ELSE Store!Recorded(db.container_bindings,
                                    db.workspaces[id].repository_id, obs)
<1> DEFINE applied == IF digest = NULL THEN db.workspaces[id].applied_digest ELSE digest
           bindings == IF obs = NULL THEN db.container_bindings
                       ELSE Store!Recorded(db.container_bindings,
                                           db.workspaces[id].repository_id, obs)
           ops == Store!With(db.last_operations, id, op)
<1>1. db' = [db EXCEPT !.workspaces[id].applied_digest = applied,
                       !.container_bindings = bindings, !.last_operations = ops]
  BY DEF Store!CommitReconciliation
<1>2. id \in DOMAIN db.workspaces
  BY DEF Store!CommitReconciliation, Store!Known
<1>3. db'.container_bindings = bindings /\ db'.repositories = db.repositories
  <2> HIDE DEF applied, bindings, ops
  <2> QED
    BY <1>1, Tables
<1>4. /\ DOMAIN db'.workspaces = DOMAIN db.workspaces
      /\ \A w \in DOMAIN db.workspaces :
           w # id => db'.workspaces[w] = db.workspaces[w]
      /\ db'.workspaces[id].actual_session = db.workspaces[id].actual_session
      /\ db'.workspaces[id].bind = db.workspaces[id].bind
      /\ db'.workspaces[id].applied_digest = applied
  <2> HIDE DEF applied, bindings, ops
  <2> QED
    BY <1>1, <1>2, Tables DEF Store!WorkspaceRow
<1> QED
  BY <1>2, <1>3, <1>4

\* Beside registrations, a call changes no repository, and no row but its own
\* workspace's.
LEMMA RowsChange ==
  ASSUME Sound, NEW q \in Process, Call(q) \/ CallFails(q), ~Registers(q)
  PROVE  /\ db'.repositories = db.repositories
         /\ \/ db'.workspaces = db.workspaces
            \/ /\ cmd[q].op \in {"open", "stop", "bind"}
               /\ DOMAIN db'.workspaces = DOMAIN db.workspaces
               /\ \A w \in DOMAIN db.workspaces :
                    w # cmd[q].ws.id => db'.workspaces[w] = db.workspaces[w]
<1>1. CASE Binds(q)
  BY <1>1, Tables, Stepped DEF Binds, Store!SetBind
<1>2. CASE Adopts(q)
  BY <1>2, Tables, Stepped DEF Adopts, Store!AdoptSessionName
<1>3. CASE Allocates(q)
  <2>1. PICK name : Store!AllocateSessionName(cmd[q].ws.id, name)
    BY <1>3 DEF Allocates
  <2>2. cmd[q].op = "open"
    BY <1>3, Stepped DEF Allocates
  <2>3. \/ UNCHANGED db
        \/ db' = [db EXCEPT !.workspaces[cmd[q].ws.id].actual_session = name]
    BY <2>1 DEF Store!AllocateSessionName
  <2> QED
    BY <2>2, <2>3, Tables
<1>4. CASE Commits(q)
  <2>1. cmd[q].op \in {"open", "stop"}
    BY <1>4, Stepped DEF Commits
  <2>2. \/ Store!RecordOperation(cmd[q].ws.id, "ok")
        \/ \E digest, obs : Store!CommitReconciliation(cmd[q].ws.id, digest, obs, "ok")
    BY <1>4 DEF Commits
  <2>3. ASSUME NEW digest, NEW obs,
               Store!CommitReconciliation(cmd[q].ws.id, digest, obs, "ok")
        PROVE  /\ db'.repositories = db.repositories
               /\ DOMAIN db'.workspaces = DOMAIN db.workspaces
               /\ \A w \in DOMAIN db.workspaces :
                    w # cmd[q].ws.id => db'.workspaces[w] = db.workspaces[w]
    BY <2>3, CommitWrites
  <2>4. Store!RecordOperation(cmd[q].ws.id, "ok") =>
          db'.repositories = db.repositories /\ db'.workspaces = db.workspaces
    BY Tables DEF Store!RecordOperation
  <2> QED
    BY <2>1, <2>2, <2>3, <2>4
<1>5. CASE RecordsBinding(q)
  BY <1>5, Tables DEF RecordsBinding, Store!RecordContainerObservation
<1>6. CASE RecordsFailure(q)
  BY <1>6, Tables DEF RecordsFailure, Store!RecordOperation
<1>7. CASE UNCHANGED db
  BY <1>7
<1> QED
  BY <1>1, <1>2, <1>3, <1>4, <1>5, <1>6, <1>7
     DEF Call, CallFails, Reads, ReadsRepository, OpenLooks, Probes, Reprobes,
         BeginsUp, EndsUp, LooksForOccupant, Creates, Confirms, ChecksSiblings,
         StopLooks, Kills, StopsContainer

\* Only an adoption replaces a recorded name.
LEMMA TransactionNames ==
  ASSUME StoreSound, Notes \/ UNCHANGED db, NEW v \in Resolvable,
         Store!Known(v.id), RowOf(v).actual_session # NULL
  PROVE  RowOf(v)'.actual_session = RowOf(v).actual_session
<1> USE StoreAssumed
<1>1. StoreProofs!IInv /\ StoreProofs!Notes =>
        \A w \in Resolvable :
          StoreProofs!Known(w.id) /\ db.workspaces[w.id].actual_session # NULL
            => db'.workspaces[w.id].actual_session = db.workspaces[w.id].actual_session
  BY StoreProofs!NamesStay DEF StoreProofs!NamesStay
<1>2. StoreProofs!IInv
  BY SameStore DEF StoreSound, Store!TypeOK, Store!Integrity, StoreProofs!IInv,
     StoreProofs!TypeOK, StoreProofs!Integrity
<1>3. StoreProofs!Known(v.id) /\ db.workspaces[v.id].actual_session # NULL
  BY DEF Store!Known, StoreProofs!Known, RowOf
<1>4. CASE Notes
  BY <1>1, <1>2, <1>3, <1>4, SameTransactions DEF RowOf
<1>5. CASE UNCHANGED db
  BY <1>5 DEF RowOf
<1> QED
  BY <1>4, <1>5

\* An adoption names its own workspace's row, if any.
LEMMA AdoptionNames ==
  ASSUME Sound, NEW p \in Process, Adopts(p), NEW v \in Resolvable,
         Store!Known(v.id)
  PROVE  RowOf(v)'.actual_session =
           IF v.id = cmd[p].ws.id /\ db' # db THEN snap[p].live.name
           ELSE RowOf(v).actual_session
<1>1. db.workspaces \in [DOMAIN db.workspaces -> Store!WorkspaceRow]
  BY DEF Sound, StoreSound, Store!TypeOK, Store!IsDatabase, Store!IsTable
<1>2. db = [repositories |-> db.repositories, workspaces |-> db.workspaces,
            container_bindings |-> db.container_bindings,
            last_operations |-> db.last_operations]
  BY DEF Sound, StoreSound, Store!TypeOK, Store!IsDatabase
<1>3. \/ UNCHANGED db
      \/ db' = [db EXCEPT !.workspaces[cmd[p].ws.id].actual_session = snap[p].live.name]
  BY DEF Adopts, Store!AdoptSessionName
<1>4. CASE UNCHANGED db
  BY <1>4 DEF RowOf
<1>5. CASE db' = [db EXCEPT !.workspaces[cmd[p].ws.id].actual_session = snap[p].live.name]
  <2>1. CASE v.id = cmd[p].ws.id
    BY <1>1, <1>2, <1>5, <2>1 DEF RowOf, Store!Known, Store!WorkspaceRow
  <2>2. CASE v.id # cmd[p].ws.id
    BY <1>1, <1>2, <1>5, <2>2 DEF RowOf, Store!Known
  <2> QED
    BY <2>1, <2>2
<1> QED
  BY <1>3, <1>4, <1>5

\* A finite set without two members has one at most.
LEMMA NotTwo ==
  ASSUME NEW S, IsFiniteSet(S), ~(Cardinality(S) > 1), NEW s \in S, NEW t \in S
  PROVE  s = t
<1> SUFFICES ASSUME s # t PROVE FALSE
  OBVIOUS
<1>1. Cardinality({t}) = 1 /\ IsFiniteSet({t})
  BY FS_Singleton
<1>2. /\ Cardinality({t} \cup {s}) = Cardinality({t}) + 1
      /\ IsFiniteSet({t} \cup {s})
  BY <1>1, FS_AddElement
<1>3. {t} \cup {s} \subseteq S
  OBVIOUS
<1>4. Cardinality({t} \cup {s}) <= Cardinality(S)
  BY <1>3, FS_Subset
<1>5. Cardinality(S) \in Nat
  BY FS_CardinalityType
<1> QED
  BY <1>1, <1>2, <1>4, <1>5

\* What a server goes through, whoever is behind it.
Removed(s) == s \in tmux.sessions /\ tmux' = WithoutSession(s)

Added(name, keys) ==
  name \in Name /\ ~NameInUse(name) /\ tmux' = WithSession(name, keys)

\* A session that stays itself but for its name or one of its keys.
Altered(s, t) ==
  /\ s \in tmux.sessions /\ t \in SessionRow /\ t.sid = s.sid
  /\ t.keys.id = s.keys.id
  /\ t.name = s.name \/ ~NameInUse(t.name)
  /\ tmux' = [tmux EXCEPT !.sessions = (@ \ {s}) \cup {t}]

TmuxTyped == tmux \in [sessions : SUBSET SessionRow, next : Nat] /\ Numbered

\* A session that goes leaves the server's numbering as it was, or counting
\* anew.
LEMMA RemovedTyped ==
  ASSUME TmuxTyped, NEW s, Removed(s)
  PROVE  /\ TmuxTyped' /\ tmux'.sessions = tmux.sessions \ {s}
         /\ tmux'.next \in {0, tmux.next}
         /\ ~ExitEmpty => tmux'.next = tmux.next
<1>1. /\ tmux'.sessions = tmux.sessions \ {s} /\ tmux'.next \in {0, tmux.next}
      /\ tmux'.sessions = {} \/ tmux'.next = tmux.next
      /\ ~ExitEmpty => tmux'.next = tmux.next
      /\ tmux' = [sessions |-> tmux'.sessions, next |-> tmux'.next]
  BY DEF Removed, WithoutSession
<1>2. tmux' \in [sessions : SUBSET SessionRow, next : Nat]
  BY <1>1 DEF TmuxTyped
<1>3. Numbered'
  BY <1>1 DEF TmuxTyped, Numbered
<1> QED
  BY <1>1, <1>2, <1>3 DEF TmuxTyped

SessionKeys == [id : WorkspaceID \cup {NULL}, place : (Root \X Session) \cup {NULL}]

\* A session that comes has the next number and a free name.
LEMMA AddedTyped ==
  ASSUME TmuxTyped, NEW name, NEW keys \in SessionKeys, Added(name, keys)
  PROVE  /\ TmuxTyped' /\ tmux'.next = tmux.next + 1
         /\ tmux'.sessions = tmux.sessions
                               \cup {[sid |-> tmux.next, name |-> name, keys |-> keys]}
<1> DEFINE new == [sid |-> tmux.next, name |-> name, keys |-> keys]
<1>1. /\ tmux'.sessions = tmux.sessions \cup {new} /\ tmux'.next = tmux.next + 1
      /\ tmux' = [sessions |-> tmux'.sessions, next |-> tmux'.next]
  BY DEF Added, WithSession
<1>2. tmux.next \in Nat /\ tmux.sessions \subseteq SessionRow
  BY DEF TmuxTyped
<1>3. new \in SessionRow /\ new.sid = tmux.next /\ new.name = name
  BY <1>2 DEF Added, SessionRow, SessionKeys
<1>4. \A s \in tmux.sessions : s.sid \in Nat /\ s.sid < tmux.next /\ s.name # name
  BY <1>2 DEF TmuxTyped, Numbered, SessionRow, Added, NameInUse
<1> HIDE DEF new
<1>5. tmux' \in [sessions : SUBSET SessionRow, next : Nat]
  BY <1>1, <1>2, <1>3
<1>6. Numbered'
  BY <1>1, <1>2, <1>3, <1>4 DEF TmuxTyped, Numbered
<1> QED
  BY <1>1, <1>5, <1>6 DEF TmuxTyped, new

\* A session that changes keeps its number, and its name is nobody else's.
LEMMA AlteredTyped ==
  ASSUME TmuxTyped, NEW s, NEW t, Altered(s, t)
  PROVE  /\ TmuxTyped' /\ tmux'.next = tmux.next
         /\ tmux'.sessions = (tmux.sessions \ {s}) \cup {t}
<1>1. /\ tmux'.sessions = (tmux.sessions \ {s}) \cup {t} /\ tmux'.next = tmux.next
      /\ tmux' = [sessions |-> tmux'.sessions, next |-> tmux'.next]
  BY DEF Altered, TmuxTyped
<1>2. tmux' \in [sessions : SUBSET SessionRow, next : Nat]
  BY <1>1 DEF TmuxTyped, Altered
<1>3. Numbered'
  BY <1>1 DEF TmuxTyped, Numbered, Altered, NameInUse
<1> QED
  BY <1>1, <1>2, <1>3 DEF TmuxTyped

\* A call touches tmux only to kill the session it saw or to create its own.
LEMMA CallsOnTmux ==
  ASSUME Sound, NEW p \in Process, Call(p) \/ CallFails(p)
  PROVE  \/ UNCHANGED tmux
         \/ /\ Kills(p)
            /\ \E s : Removed(s) /\ s.sid = snap[p].live.sid
         \/ /\ Creates(p) /\ cmd[p].op = "open" /\ at[p] = "create"
            /\ Plan!KeysOf(cmd[p].ws) \in SessionKeys
            /\ Added(snap[p].name, Plan!KeysOf(cmd[p].ws))
<1>1. CASE Kills(p)
  <2> DEFINE targets == {s \in tmux.sessions : s.sid = snap[p].live.sid}
  <2>1. UNCHANGED tmux \/ \E s \in targets : tmux' = WithoutSession(s)
    BY <1>1 DEF Kills
  <2> QED
    BY <1>1, <2>1 DEF Removed
<1>2. CASE Creates(p)
  <2>1. cmd[p].op = "open" /\ at[p] = "create" /\ phase[p] = "held"
    BY <1>2, Stepped DEF Creates, Answers
  <2>2. snap[p].name \in Name /\ cmd[p].ws \in Store!Identity
    BY <2>1, AtWork DEF Has
  <2>3. Plan!KeysOf(cmd[p].ws) \in SessionKeys
    BY <2>2 DEF Plan!KeysOf, SessionKeys, Store!Identity
  <2> QED
    BY <1>2, <2>1, <2>2, <2>3 DEF Creates, Added
<1>3. CASE ~Kills(p) /\ ~Creates(p)
  BY <1>3 DEF Call, CallFails, Registers, Binds, Reads, ReadsRepository, OpenLooks,
     Probes, Reprobes, BeginsUp, EndsUp, Adopts, Allocates, LooksForOccupant,
     Confirms, ChecksSiblings, StopLooks, StopsContainer, Commits,
     RecordsBinding, RecordsFailure
<1> QED
  BY <1>1, <1>2, <1>3

\* No act of a user makes a session claim another workspace.
LEMMA UsersOnTmux ==
  ASSUME Sound, User
  PROVE  \/ UNCHANGED tmux
         \/ UserKills /\ \E s : Removed(s)
         \/ \E s, t : Altered(s, t)
         \/ Plan!NoKeys \in SessionKeys /\ \E n : Added(n, Plan!NoKeys)
<1>1. CASE UserKills
  BY <1>1 DEF UserKills, Removed
<1>2. CASE UserRenames
  <2>1. PICK s \in tmux.sessions, n \in Name :
          /\ ~NameInUse(n)
          /\ tmux' = [tmux EXCEPT !.sessions = (@ \ {s}) \cup {[s EXCEPT !.name = n]}]
    BY <1>2 DEF UserRenames
  <2> DEFINE t == [s EXCEPT !.name = n]
  <2>2. s \in SessionRow
    BY DEF Sound, Types
  <2>3. t \in SessionRow /\ t.sid = s.sid /\ t.keys = s.keys /\ t.name = n
    BY <2>2 DEF SessionRow
  <2>4. Altered(s, t)
    BY <2>1, <2>3 DEF Altered
  <2> QED
    BY <2>4
<1>3. CASE UserRetags
  <2>1. PICK s \in tmux.sessions :
          tmux' = [tmux EXCEPT !.sessions =
                     (@ \ {s}) \cup {[s EXCEPT !.keys.place = NULL]}]
    BY <1>3 DEF UserRetags
  <2> DEFINE t == [s EXCEPT !.keys.place = NULL]
  <2>2. s \in SessionRow
    BY DEF Sound, Types
  <2>3. t \in SessionRow /\ t.sid = s.sid /\ t.keys.id = s.keys.id /\ t.name = s.name
    BY <2>2 DEF SessionRow
  <2>4. Altered(s, t)
    BY <2>1, <2>3 DEF Altered
  <2> QED
    BY <2>4
<1>4. CASE UserOccupies
  <2>1. Plan!NoKeys \in SessionKeys
    BY DEF Plan!NoKeys, SessionKeys
  <2> QED
    BY <1>4, <2>1 DEF UserOccupies, Added
<1>5. CASE UserActsOnDocker \/ UserLosesDatabase
  BY <1>5 DEF UserActsOnDocker, UserLosesDatabase
<1> QED
  BY <1>1, <1>2, <1>3, <1>4, <1>5 DEF User

\* Taking and giving back locks, starting, giving up and dying change nothing
\* of the world.
LEMMA OthersLeaveWorld ==
  ASSUME NEW p \in Process,
         Starts(p) \/ TakesLock(p) \/ GivesUp(p) \/ Releases(p) \/ Crashes(p)
  PROVE  UNCHANGED <<db, tmux, docker>>
BY DEF Starts, TakesLock, GivesUp, Releases, Crashes

\* The server keeps its shape and its numbering.
LEMMA TmuxStays ==
  ASSUME Sound, [Next]_vars
  PROVE  TmuxTyped'
<1>1. TmuxTyped
  BY DEF Sound, Types, TmuxTyped
<1>2. CASE UNCHANGED tmux
  BY <1>1, <1>2 DEF TmuxTyped, Numbered
<1>3. ASSUME NEW p \in Process, Call(p) \/ CallFails(p)
      PROVE  TmuxTyped'
  BY <1>1, <1>2, <1>3, CallsOnTmux, RemovedTyped, AddedTyped
<1>4. CASE User
  BY <1>1, <1>2, <1>4, UsersOnTmux, RemovedTyped, AddedTyped, AlteredTyped
<1>5. ASSUME NEW p \in Process,
             Starts(p) \/ TakesLock(p) \/ GivesUp(p) \/ Releases(p) \/ Crashes(p)
      PROVE  TmuxTyped'
  BY <1>2, <1>5, OthersLeaveWorld
<1> QED
  BY <1>2, <1>3, <1>4, <1>5 DEF Next, Runs, Rests, vars

\* So does every container.
LEMMA DockerStays ==
  ASSUME Sound, [Next]_vars
  PROVE  docker' \in [Container -> DockerState]
<1>1. docker \in [Container -> DockerState]
  BY DEF Sound, Types
<1>2. CASE UNCHANGED docker
  BY <1>1, <1>2
<1>3. ASSUME NEW p \in Process, Call(p) \/ CallFails(p)
      PROVE  docker' \in [Container -> DockerState]
  <2>1. CASE EndsUp(p)
    BY <1>1, <1>2, <2>1 DEF EndsUp, DockerState
  <2>2. CASE StopsContainer(p)
    BY <1>1, <2>2 DEF StopsContainer, DockerState
  <2>3. CASE ~EndsUp(p) /\ ~StopsContainer(p)
    BY <1>2, <1>3, <2>3 DEF Call, CallFails, Registers, Binds, Reads,
       ReadsRepository, OpenLooks, Probes, Reprobes, BeginsUp, Adopts, Allocates,
       LooksForOccupant, Creates, Confirms, ChecksSiblings, StopLooks, Kills,
       Commits, RecordsBinding, RecordsFailure
  <2> QED
    BY <2>1, <2>2, <2>3
<1>4. CASE User
  BY <1>1, <1>2, <1>4 DEF User, UserKills, UserRenames, UserOccupies, UserRetags,
     UserActsOnDocker, UserLosesDatabase, DockerState
<1>5. ASSUME NEW p \in Process,
             Starts(p) \/ TakesLock(p) \/ GivesUp(p) \/ Releases(p) \/ Crashes(p)
      PROVE  docker' \in [Container -> DockerState]
  BY <1>2, <1>5, OthersLeaveWorld
<1> QED
  BY <1>2, <1>3, <1>4, <1>5 DEF Next, Runs, Rests, vars

-----------------------------------------------------------------------------
(* Sound is inductive *)

\* A command that does nothing keeps what it has, as long as its row stays.
LEMMA PreparedStays ==
  ASSUME Sound, NEW q \in Process,
         UNCHANGED <<cmd[q], at[q], snap[q]>>,
         cmd[q] # NULL =>
           /\ UNCHANGED <<phase[q], want[q]>>
           /\ \A v \in Resolvable : Store!Known(v.id) => Store!Known(v.id)'
  PROVE  Prepared(q)'
<1>1. Prepared(q) /\ cmd[q] \in Commands \cup {NULL}
  BY DEF Sound, Types
<1>2. cmd[q] # NULL /\ cmd[q].op = "open" => cmd[q].ws \in Resolvable
  BY <1>1, CommandsAssumption DEF CommandShape
<1>3. Has(cmd[q], at[q], snap[q])' <=> Has(cmd[q], at[q], snap[q])
  BY DEF Has
<1>4. (FootprintOf(cmd[q]))' = FootprintOf(cmd[q])
  BY DEF FootprintOf
<1> QED
  BY <1>1, <1>2, <1>3, <1>4 DEF Prepared

\* A call that an open makes after its registration finds it registered.
LEMMA CallsFindRow ==
  ASSUME Sound, NEW p \in Process, Call(p) \/ CallFails(p),
         cmd[p].op = "open", at'[p] \notin {"register", "error"}
  PROVE  cmd[p].ws.id \in DOMAIN db'.workspaces
<1>1. phase[p] = "held" /\ cmd[p] # NULL /\ cmd[p].ws \in Resolvable
  BY CallsMove, AtWork DEF Moved
<1>2. CASE at[p] \notin {"register", "error"}
  <2>1. Store!Known(cmd[p].ws.id)
    BY <1>1, <1>2 DEF Sound, Prepared
  <2>2. \A v \in Resolvable : Store!Known(v.id) => Store!Known(v.id)'
    BY CallsTransact, TransactionKeeps DEF Sound
  <2> QED
    BY <1>1, <2>1, <2>2 DEF Store!Known
<1>3. CASE Registers(p)
  BY <1>3 DEF Registers, Store!RegisterWorkspace, Store!With
<1>4. CASE ~Registers(p) /\ at[p] = "register"
  <2>1. CallFails(p)
    BY <1>4 DEF Call, Step, Answers, Binds, Reads, ReadsRepository, OpenLooks, Probes,
       Reprobes, BeginsUp, EndsUp, Adopts, Allocates, LooksForOccupant, Creates,
       Confirms, ChecksSiblings, StopLooks, Kills, StopsContainer, Commits,
       RecordsBinding, RecordsFailure
  <2>2. at'[p] = OnError(p)
    BY <2>1, Stepped DEF CallFails
  <2> QED
    BY <1>4, <2>2 DEF OnError
<1>5. at[p] # "error"
  BY DEF Call, Step, Answers, CallFails, Fallible, Registers, Binds, Reads,
     ReadsRepository, OpenLooks, Probes, Reprobes, BeginsUp, EndsUp, Adopts,
     Allocates, LooksForOccupant, Creates, Confirms, ChecksSiblings, StopLooks,
     Kills, StopsContainer, Commits, RecordsBinding, RecordsFailure
<1> QED
  BY <1>2, <1>3, <1>4, <1>5

\* What a step does to the commands and what they remember.
CommandsSound ==
  /\ cmd \in [Process -> Commands \cup {NULL}]
  /\ at \in [Process -> Places]
  /\ snap \in [Process -> SnapRow]
  /\ \A p \in Process : Prepared(p)

\* A call leaves every command with what it needs.
LEMMA CallsKeepCommands ==
  ASSUME Sound, NEW p \in Process, Call(p) \/ CallFails(p)
  PROVE  CommandsSound'
<1>1. Moved(p)
  BY CallsMove
<1>2. \A v \in Resolvable : Store!Known(v.id) => Store!Known(v.id)'
  BY CallsTransact, TransactionKeeps DEF Sound
<1>3. /\ cmd' \in [Process -> Commands \cup {NULL}]
      /\ at' \in [Process -> Places]
      /\ snap' \in [Process -> SnapRow]
  BY <1>1 DEF Moved, Sound, Types
<1>4. ASSUME NEW q \in Process, q # p
      PROVE  Prepared(q)'
  <2>1. UNCHANGED <<phase[q], want[q], cmd[q], at[q], snap[q]>>
    BY <1>1, <1>4 DEF Moved, lockVars, Sound, Types
  <2> QED
    BY <1>2, <2>1, PreparedStays
<1>5. Prepared(p)'
  <2>1. /\ phase'[p] = "held" /\ want'[p] = want[p] /\ cmd'[p] = cmd[p]
        /\ cmd[p] # NULL /\ want[p] = FootprintOf(cmd[p]) /\ at'[p] # "over"
        /\ Has(cmd[p], at'[p], snap'[p])
    BY <1>1, AtWork DEF Moved, lockVars
  <2>2. cmd[p].op = "open" /\ at'[p] \notin {"register", "error"}
          => cmd[p].ws.id \in DOMAIN db'.workspaces
    BY CallsFindRow
  <2>3. Has(cmd[p], at[p], snap[p])' <=> Has(cmd[p], at'[p], snap'[p])
    BY <2>1 DEF Has
  <2>4. (FootprintOf(cmd[p]))' = FootprintOf(cmd[p])
    BY <2>1 DEF FootprintOf
  <2> QED
    BY <2>1, <2>2, <2>3, <2>4 DEF Prepared, Store!Known
<1> QED
  BY <1>3, <1>4, <1>5 DEF CommandsSound

\* Where a command rests outside its work.
LEMMA OthersKeepCommands ==
  ASSUME Sound, Locks!TypeOK, NEW p \in Process,
         Starts(p) \/ TakesLock(p) \/ GivesUp(p) \/ Releases(p) \/ Crashes(p)
  PROVE  CommandsSound'
<1>1. UNCHANGED <<db, tmux, docker>>
  BY OthersLeaveWorld
<1>2. \A v \in Resolvable : Store!Known(v.id) => Store!Known(v.id)'
  BY <1>1 DEF Store!Known
<1>3. /\ cmd \in [Process -> Commands \cup {NULL}]
      /\ at \in [Process -> Places] /\ snap \in [Process -> SnapRow]
      /\ phase \in [Process -> Locks!Phase] /\ want \in [Process -> Locks!Footprint]
      /\ Prepared(p)
  BY DEF Sound, Types, Locks!TypeOK
<1>4. NoSnap \in SnapRow
  BY DEF NoSnap, SnapRow
<1>5. ASSUME NEW q \in Process, q # p
      PROVE  UNCHANGED <<phase[q], want[q], cmd[q], at[q], snap[q]>>
  BY <1>3, <1>5 DEF Starts, TakesLock, GivesUp, Releases, Crashes, Forgets, Goto,
     Locks!Begin, Locks!TakeRepository, Locks!TakeWorkspace, Locks!TimeOut,
     Locks!GiveUp, Locks!Finish, Locks!UnlockWorkspace, Locks!UnlockRepository,
     Locks!Crash, Locks!Enter
<1>6. CASE Starts(p)
  <2>1. PICK c \in Commands :
          /\ want'[p] = FootprintOf(c) /\ cmd' = [cmd EXCEPT ![p] = c]
          /\ at' = [at EXCEPT ![p] = Entry(c)]
    BY <1>6 DEF Starts, Goto
  <2>2. snap' = snap /\ phase'[p] \in {"repository", "workspace"} /\ phase[p] = "idle"
    BY <1>3, <1>6 DEF Starts, Locks!Begin, Locks!Enter
  <2>3. /\ cmd'[p] = c /\ at'[p] \in {"register", "read"} /\ snap'[p] = snap[p]
        /\ c.op = "open" => at'[p] = "register"
    BY <1>3, <2>1, <2>2 DEF Entry
  <2>4. Has(cmd[p], at[p], snap[p])'
    BY <2>3 DEF Has
  <2>5. c # NULL
    BY CommandsAssumption, RecordsAssumption
  <2>6. Prepared(p)'
    BY <2>1, <2>2, <2>3, <2>4, <2>5 DEF Prepared, FootprintOf
  <2>7. /\ cmd' \in [Process -> Commands \cup {NULL}]
        /\ at' \in [Process -> Places]
        /\ snap' \in [Process -> SnapRow]
    BY <1>3, <2>1, <2>2, <2>3 DEF Places, Fallible
  <2> QED
    BY <1>2, <1>5, <2>6, <2>7, PreparedStays DEF CommandsSound
<1>7. CASE phase'[p] = "idle" /\ Forgets(p)
  <2>1. /\ cmd' \in [Process -> Commands \cup {NULL}] /\ cmd'[p] = NULL
        /\ at' \in [Process -> Places] /\ at'[p] = "over"
        /\ snap' \in [Process -> SnapRow] /\ snap'[p] = NoSnap
    BY <1>3, <1>4, <1>7 DEF Forgets, Goto, Places
  <2>2. Has(cmd[p], at[p], snap[p])'
    BY <2>1 DEF Has
  <2>3. Prepared(p)'
    BY <1>7, <2>1, <2>2 DEF Prepared
  <2> QED
    BY <1>2, <1>5, <2>1, <2>3, PreparedStays DEF CommandsSound
<1>8. CASE /\ UNCHANGED <<cmd, at, snap>> /\ phase[p] # "idle" /\ phase'[p] # "idle"
           /\ want'[p] = want[p]
           /\ phase[p] = "held" => at[p] \in {"ok", "error"}
  <2>1. Has(cmd[p], at[p], snap[p])'
    BY <1>3, <1>8 DEF Prepared, Has
  <2>2. Store!Known(cmd[p].ws.id)' <=> Store!Known(cmd[p].ws.id)
    BY <1>1, <1>8 DEF Store!Known
  <2>3. Prepared(p)'
    BY <1>3, <1>8, <2>1, <2>2 DEF Prepared, FootprintOf
  <2> QED
    BY <1>2, <1>3, <1>5, <1>8, <2>3, PreparedStays DEF CommandsSound
<1>9. CASE TakesLock(p)
  <2>1. /\ UNCHANGED <<cmd, at, snap>> /\ phase[p] \in {"repository", "workspace"}
        /\ phase'[p] # "idle" /\ want'[p] = want[p]
    BY <1>3, <1>9
       DEF TakesLock, Locks!TakeRepository, Locks!TakeWorkspace, Locks!Enter
  <2> QED
    BY <1>8, <2>1
<1>10. CASE GivesUp(p)
  <2>1. CASE phase'[p] = "idle"
    BY <1>7, <1>10, <2>1 DEF GivesUp
  <2>2. CASE phase'[p] # "idle"
    <3>1. UNCHANGED <<cmd, at, snap>>
      BY <1>10, <2>2 DEF GivesUp
    <3>2. phase[p] = "workspace" /\ want'[p] = want[p]
      BY <1>3, <1>10, <2>2 DEF GivesUp, Locks!TimeOut, Locks!GiveUp, Locks!Enter
    <3> QED
      BY <1>8, <2>2, <3>1, <3>2
  <2> QED
    BY <2>1, <2>2
<1>11. CASE Releases(p)
  <2>1. CASE phase'[p] = "idle"
    BY <1>7, <1>11, <2>1 DEF Releases
  <2>2. CASE phase'[p] # "idle"
    <3>1. UNCHANGED <<cmd, at, snap>>
      BY <1>11, <2>2 DEF Releases
    <3>2. /\ phase[p] # "idle" /\ want'[p] = want[p]
          /\ phase[p] = "held" => at[p] \in {"ok", "error"}
      BY <1>3, <1>11, <2>2 DEF Releases, Locks!Finish, Locks!UnlockWorkspace,
         Locks!UnlockRepository, Locks!Enter
    <3> QED
      BY <1>8, <2>2, <3>1, <3>2
  <2> QED
    BY <2>1, <2>2
<1>12. CASE Crashes(p)
  <2>1. phase'[p] = "idle" /\ Forgets(p)
    BY <1>3, <1>12 DEF Crashes, Locks!Crash, Locks!Enter
  <2> QED
    BY <1>7, <2>1
<1> QED
  BY <1>6, <1>9, <1>10, <1>11, <1>12

\* A step of any process, user or nobody, sorted by what it may change.
LEMMA Steps ==
  ASSUME [Next]_vars
  PROVE  \/ \E p \in Process : Call(p) \/ CallFails(p)
         \/ \E p \in Process : Starts(p) \/ TakesLock(p) \/ GivesUp(p)
                                 \/ Releases(p) \/ Crashes(p)
         \/ User
         \/ UNCHANGED vars
BY DEF Next, Runs, Rests

\* Users leave the commands alone, and take the database only from nobody.
LEMMA UsersKeepCommands ==
  ASSUME Sound, User
  PROVE  CommandsSound' /\ StoreSound' /\ (UNCHANGED db \/ UserLosesDatabase)
<1>1. UNCHANGED <<phase, want, cmd, at, snap>>
  BY DEF User, ByHand, lockVars, UserKills, UserRenames, UserOccupies, UserRetags,
     UserActsOnDocker, UserLosesDatabase
<1>2. UNCHANGED db \/ UserLosesDatabase
  BY DEF User, UserKills, UserRenames, UserOccupies, UserRetags, UserActsOnDocker
<1>3. CASE UNCHANGED db
  <2>1. \A v \in Resolvable : Store!Known(v.id) => Store!Known(v.id)'
    BY <1>3 DEF Store!Known
  <2>2. \A q \in Process : Prepared(q)'
    BY <1>1, <2>1, PreparedStays
  <2>3. StoreSound'
    BY <1>3, TransactionKeeps DEF Sound
  <2> QED
    BY <1>1, <1>2, <2>2, <2>3 DEF CommandsSound, Sound, Types
<1>4. CASE UserLosesDatabase
  <2>1. \A q \in Process : cmd[q] = NULL
    BY <1>4 DEF UserLosesDatabase, Active, Sound, Prepared
  <2>2. \A q \in Process : Prepared(q)'
    BY <1>1, <2>1, PreparedStays
  <2>3. /\ db' = Store!EmptyDatabase /\ DOMAIN Store!NoRows = {}
        /\ \A keys, rows : Store!IsTable(Store!NoRows, keys, rows)
    BY <1>4 DEF UserLosesDatabase, Store!NoRows, Store!IsTable
  <2>4. StoreSound'
    BY <2>3 DEF StoreSound, Store!TypeOK, Store!Integrity, Store!IsDatabase,
       Store!IsIntact, Store!IsPlaced, Store!EmptyDatabase
  <2> QED
    BY <1>1, <1>2, <2>2, <2>4 DEF CommandsSound, Sound, Types
<1> QED
  BY <1>2, <1>3, <1>4

\* Every step keeps the invariant.
LEMMA SoundStays ==
  ASSUME Sound, Locks!TypeOK, [Next]_vars
  PROVE  Sound'
<1>1. CommandsSound' /\ StoreSound'
  <2>1. ASSUME NEW p \in Process, Call(p) \/ CallFails(p)
        PROVE  CommandsSound' /\ StoreSound'
    BY <2>1, CallsKeepCommands, CallsTransact, TransactionKeeps DEF Sound
  <2>2. ASSUME NEW p \in Process,
               Starts(p) \/ TakesLock(p) \/ GivesUp(p) \/ Releases(p) \/ Crashes(p)
        PROVE  CommandsSound' /\ StoreSound'
    BY <2>2, OthersKeepCommands, OthersLeaveWorld, TransactionKeeps DEF Sound
  <2>3. CASE UNCHANGED vars
    <3>1. UNCHANGED <<db, phase, want, cmd, at, snap>>
      BY <2>3 DEF vars, lockVars
    <3>2. \A v \in Resolvable : Store!Known(v.id) => Store!Known(v.id)'
      BY <3>1 DEF Store!Known
    <3>3. \A q \in Process : Prepared(q)'
      BY <3>1, <3>2, PreparedStays
    <3>4. StoreSound'
      BY <3>1, TransactionKeeps DEF Sound
    <3> QED
      BY <3>1, <3>3, <3>4 DEF CommandsSound, Sound, Types
  <2> QED
    BY <2>1, <2>2, <2>3, UsersKeepCommands, Steps
<1> QED
  BY <1>1, TmuxStays, DockerStays
     DEF Sound, Types, TmuxTyped, Numbered, CommandsSound

\* It holds at the start.
LEMMA SoundAtFirst == Init => Sound
<1> SUFFICES ASSUME Init PROVE Sound
  OBVIOUS
<1>1. Cardinality(InitialSessions) \in Nat
  BY FS_CardinalityType, SessionsAssumption
<1>2. NoSnap \in SnapRow
  BY DEF NoSnap, SnapRow
<1>3. Types
  <2>1. tmux \in [sessions : SUBSET SessionRow, next : Nat]
    BY <1>1, SessionsAssumption DEF Init
  <2> QED
    BY <1>2, <2>1 DEF Init, Types, DockerState, Places
<1>4. Numbered
  BY SessionsAssumption DEF Init, Numbered
<1>5. StoreSound
  BY StoreAssumption DEF Init, StoreSound, Store!InitialsAreSound, Store!TypeOK,
     Store!Integrity
<1>6. ASSUME NEW p \in Process PROVE Prepared(p)
  BY DEF Init, Locks!Init, Prepared, Has
<1> QED
  BY <1>3, <1>4, <1>5, <1>6 DEF Sound

\* The lock table is of its shape at every moment.
LEMMA CommandsLockTyped == Spec => []Locks!TypeOK
<1>1. LocksProofs!Spec => []LocksProofs!TypeOK
  BY LocksProofs!LocksTypeOK, LockKeysAssumption DEF LocksProofs!LocksTypeOK
<1>2. LocksProofs!TypeOK => Locks!TypeOK
  BY DEF LocksProofs!TypeOK, Locks!TypeOK, LocksProofs!Locks, Locks!Locks,
     LocksProofs!Key, Locks!Key, LocksProofs!Phase, Locks!Phase,
     LocksProofs!Footprint, Locks!Footprint
<1> QED
  BY <1>1, <1>2, CommandsObeyLocks, SameLocks, PTL

\* So it holds always.
LEMMA CommandsSoundly == Spec => []Sound
<1>1. Sound /\ Locks!TypeOK /\ [Next]_vars => Sound'
  BY SoundStays
<1> QED
  BY <1>1, SoundAtFirst, CommandsLockTyped, PTL DEF Spec

\* A process without a command has no lock and waits for none.
LEMMA CommandsBusy == Spec => []Busy
<1>1. Init => Busy
  BY DEF Init, Locks!Init, Busy
<1>2. Sound /\ Locks!TypeOK /\ Busy /\ [Next]_vars => Busy'
  <2> SUFFICES ASSUME Sound, Locks!TypeOK, Busy, [Next]_vars, NEW q \in Process,
                      phase'[q] # "idle"
               PROVE  cmd'[q] # NULL
    BY DEF Busy
  <2>1. /\ cmd \in [Process -> Commands \cup {NULL}]
        /\ phase \in [Process -> Locks!Phase]
        /\ phase[q] # "idle" => cmd[q] # NULL
        /\ NULL \notin Commands
    BY CommandsAssumption, RecordsAssumption DEF Sound, Types, Locks!TypeOK, Busy
  <2>2. CASE UNCHANGED <<phase, cmd>>
    BY <2>1, <2>2
  <2>3. ASSUME NEW p \in Process, Call(p) \/ CallFails(p)
        PROVE  cmd'[q] # NULL
    BY <2>2, <2>3, CallsMove DEF Moved, lockVars
  <2>4. ASSUME NEW p \in Process, Starts(p)
        PROVE  cmd'[q] # NULL
    <3>1. /\ cmd' \in {[cmd EXCEPT ![p] = c] : c \in Commands}
          /\ q # p => phase'[q] = phase[q]
      BY <2>1, <2>4 DEF Starts, Locks!Begin, Locks!Enter
    <3> QED
      BY <2>1, <3>1
  <2>5. ASSUME NEW p \in Process,
               TakesLock(p) \/ GivesUp(p) \/ Releases(p) \/ Crashes(p)
        PROVE  cmd'[q] # NULL
    <3>1. /\ phase[p] # "idle" /\ (q # p => phase'[q] = phase[q])
          /\ phase'[p] # "idle" => cmd' = cmd
          /\ q # p => cmd'[q] = cmd[q]
      BY <2>1, <2>5 DEF TakesLock, GivesUp, Releases, Crashes, Forgets,
         Locks!TakeRepository, Locks!TakeWorkspace, Locks!TimeOut, Locks!GiveUp,
         Locks!Finish, Locks!UnlockWorkspace, Locks!UnlockRepository, Locks!Crash,
         Locks!Enter
    <3> QED
      BY <2>1, <3>1
  <2>6. CASE User
    BY <2>2, <2>6 DEF User, ByHand, lockVars, UserKills, UserRenames, UserOccupies,
       UserRetags, UserActsOnDocker, UserLosesDatabase
  <2>7. CASE UNCHANGED vars
    BY <2>2, <2>7 DEF vars, lockVars
  <2> QED
    BY <2>3, <2>4, <2>5, <2>6, <2>7, Steps
<1> QED
  BY <1>1, <1>2, CommandsSoundly, CommandsLockTyped, PTL DEF Spec

\* Every call of every command finds the results it uses, the server keeps its
\* numbering and every table its rows, whatever runs, fails, dies or is done by
\* hand (the nil checks of stop.go and autostart.go).
THEOREM CommandsTyped == Spec => []TypeOK
<1>1. Sound /\ Busy /\ Locks!TypeOK => TypeOK
  <2> SUFFICES ASSUME Sound, Busy, Locks!TypeOK PROVE TypeOK
    OBVIOUS
  <2>1. \A s \in tmux.sessions : s.sid < tmux.next /\ s.name \in Name
    BY DEF Sound, Types, Numbered, SessionRow
  <2>2. \A p \in Process : Prepared(p)
    BY DEF Sound
  <2>3. \A p \in Process :
          IF phase[p] = "idle" THEN cmd[p] = NULL /\ snap[p] = NoSnap
          ELSE cmd[p] \in Commands
    BY <2>2 DEF Prepared, Sound, Busy, Types
  <2>4. \A p \in Process :
          /\ at[p] \in {"kill", "adopt"} => snap[p].live # NULL
          /\ at[p] \in {"occupant", "create", "confirm"} => snap[p].name \in Name
          /\ at[p] \in {"upping", "record"} => snap[p].container # NULL
          /\ at[p] = "stop_container" => snap[p].stored.binding # NULL
    BY <2>2 DEF Prepared, Has
  <2> QED
    BY <2>1, <2>3, <2>4
       DEF TypeOK, Sound, Types, Numbered, DockerState, StoreSound
<1> QED
  BY <1>1, CommandsBusy, CommandsSoundly, CommandsLockTyped, PTL

\* Commands in any number keep what the schema promises (migrations/0002), with
\* crashes between any two of their transactions.
THEOREM CommandsKeepStore == Spec => []Store!Integrity
<1>1. Sound => Store!Integrity
  BY DEF Sound, StoreSound
<1> QED
  BY <1>1, CommandsSoundly, PTL

\* The commands use the database as StateStore specifies it: each step of the
\* composed system is a transaction of the store, leaves it alone, or is the
\* user's deletion of it.
THEOREM CommandsObeyStore ==
  Spec => Store!Init /\ [][Store!Next \/ UserLosesDatabase]_db
<1>1. Init => Store!Init
  BY DEF Init, Store!Init
<1>2. Sound /\ [Next]_vars => [Store!Next \/ UserLosesDatabase]_db
  <2> SUFFICES ASSUME Sound, [Next]_vars
               PROVE  Store!Next \/ UserLosesDatabase \/ UNCHANGED db
    OBVIOUS
  <2>1. Transacts => Store!Next
    BY DEF Notes, Transacts, Store!Next
  <2>2. CASE UNCHANGED vars
    BY <2>2 DEF vars
  <2> QED
    BY <2>1, <2>2, CallsTransact, OthersLeaveWorld, UsersKeepCommands, Steps
<1> QED
  BY <1>1, <1>2, CommandsSoundly, PTL DEF Spec
=============================================================================
