------------------------------ MODULE FileLocks ------------------------------
(***************************************************************************)
(* The filesystem locks that serialise projectmux's mutating commands      *)
(* (internal/lock, internal/controller/locking.go).                        *)
(*                                                                         *)
(* Every command is a process of its own.  It may need the lock of a       *)
(* repository (container work), the lock of a workspace (session work), or *)
(* both, and then takes the repository's first and releases it last.  A    *)
(* lock is an flock: an attempt polls without blocking until it succeeds,  *)
(* fails or runs past its deadline, and the kernel drops every lock of a   *)
(* process that dies.                                                      *)
(***************************************************************************)
CONSTANTS
  Process,      \* projectmux commands that may run at the same time
  Repository,   \* repository IDs, the keys of container work
  Workspace,    \* workspace IDs, the keys of session work
  NULL          \* no key, and no holder

\* Both kinds of key are hex digests of different inputs, so they never clash.
ASSUME KeysAssumption ==
  /\ Repository \cap Workspace = {}
  /\ NULL \notin Process \cup Repository \cup Workspace

VARIABLES
  holder,       \* the process whose open file holds each key's flock
  phase,        \* where each process is in lockPhases or its release
  want          \* the keys each process asked for

lockVars == <<holder, phase, want>>

Key == Repository \cup Workspace

(***************************************************************************)
(* "repository" and "workspace" are the two polling loops, "held" is the   *)
(* command's own work, and the last two are the release closure.           *)
(***************************************************************************)
Phase == {"idle", "repository", "workspace", "held", "unlock_workspace",
          "unlock_repository"}

Footprint == [repository : Repository \cup {NULL},
              workspace : Workspace \cup {NULL}]

NoFootprint == [repository |-> NULL, workspace |-> NULL]

Locks == [Key -> Process \cup {NULL}]

-----------------------------------------------------------------------------

Free(k) == holder[k] = NULL

\* The flock of key k passes to process p, or to nobody.
SetHolder(k, p) == holder' = [holder EXCEPT ![k] = p]

\* Closing the file of a key that was never taken changes nothing.
Unlock(k) == holder' = IF k = NULL THEN holder ELSE [holder EXCEPT ![k] = NULL]

Enter(p, l) == phase' = [phase EXCEPT ![p] = l]

Init ==
  /\ holder = [k \in Key |-> NULL]
  /\ phase = [p \in Process |-> "idle"]
  /\ want = [p \in Process |-> NoFootprint]

\* Mutant: the repository phase is entered even by a command without one.
BeginAlwaysRepository(p) ==
  /\ phase[p] = "idle"
  /\ \E f \in Footprint \ {NoFootprint} :
       want' = [want EXCEPT ![p] = f] /\ Enter(p, "repository")
  /\ UNCHANGED holder

\* A command starts and knows the keys it needs; no repository key means the
\* command has no container phase.
Begin(p) ==
  /\ phase[p] = "idle"
  /\ \E f \in Footprint \ {NoFootprint} :
       /\ want' = [want EXCEPT ![p] = f]
       /\ Enter(p, IF f.repository = NULL THEN "workspace" ELSE "repository")
  /\ UNCHANGED holder

\* One poll of the repository lock finds it free.
TakeRepository(p) ==
  /\ phase[p] = "repository"
  /\ Free(want[p].repository)
  /\ SetHolder(want[p].repository, p)
  /\ Enter(p, IF want[p].workspace = NULL THEN "held" ELSE "workspace")
  /\ UNCHANGED want

\* Mutant: the lock is taken shared, so another holder does not matter.
TakeWorkspaceShared(p) ==
  /\ phase[p] = "workspace"
  /\ SetHolder(want[p].workspace, p)
  /\ Enter(p, "held")
  /\ UNCHANGED want

\* One poll of the workspace lock finds it free.
TakeWorkspace(p) ==
  /\ phase[p] = "workspace"
  /\ Free(want[p].workspace)
  /\ SetHolder(want[p].workspace, p)
  /\ Enter(p, "held")
  /\ UNCHANGED want

\* Mutant: a failed second acquisition returns without releaseRepository().
GiveUpKeepsRepository(p) ==
  /\ phase[p] \in {"repository", "workspace"}
  /\ Enter(p, "idle")
  /\ want' = [want EXCEPT ![p] = NoFootprint]
  /\ UNCHANGED holder

\* An attempt that ends without the lock: nothing is held yet, or the
\* repository lock is given back before the error is returned.
GiveUp(p) ==
  /\ \/ phase[p] = "repository" /\ Enter(p, "idle")
                                /\ want' = [want EXCEPT ![p] = NoFootprint]
     \/ phase[p] = "workspace" /\ Enter(p, "unlock_repository") /\ UNCHANGED want
  /\ UNCHANGED holder

\* The key an attempt is polling for.
Polled(p) ==
  CASE phase[p] = "repository" -> want[p].repository
    [] phase[p] = "workspace" -> want[p].workspace
    [] OTHER -> NULL

Contended(p) == Polled(p) # NULL /\ ~Free(Polled(p))

\* Mutant: a wait without a deadline.
TimeOutNever(p) == Contended(p) /\ FALSE /\ GiveUp(p)

\* A poll past the deadline finds the lock held by another process.
TimeOut(p) == Contended(p) /\ GiveUp(p)

\* The lock file cannot be opened or flock itself fails, or the command is
\* interrupted while it waits.
AcquireFails(p) == GiveUp(p)

\* The command is done and its deferred release runs.
Finish(p) ==
  /\ phase[p] = "held"
  /\ Enter(p, "unlock_workspace")
  /\ UNCHANGED <<holder, want>>

UnlockWorkspace(p) ==
  /\ phase[p] = "unlock_workspace"
  /\ Unlock(want[p].workspace)
  /\ Enter(p, "unlock_repository")
  /\ UNCHANGED want

UnlockRepository(p) ==
  /\ phase[p] = "unlock_repository"
  /\ Unlock(want[p].repository)
  /\ Enter(p, "idle")
  /\ want' = [want EXCEPT ![p] = NoFootprint]

\* The process dies: its files are closed by the kernel, whatever it held.
Crash(p) ==
  /\ phase[p] # "idle"
  /\ holder' = [k \in Key |-> IF holder[k] = p THEN NULL ELSE holder[k]]
  /\ Enter(p, "idle")
  /\ want' = [want EXCEPT ![p] = NoFootprint]

\* Mutant: a command at work with its workspace lock alone goes back for the
\* repository lock, the order lockPhases rules out.
AdvanceWithUpgrade(p) ==
  \/ TakeRepository(p)
  \/ TakeWorkspace(p)
  \/ Finish(p)
  \/ UnlockWorkspace(p)
  \/ UnlockRepository(p)
  \/ /\ phase[p] = "held" /\ want[p].repository = NULL
     /\ \E r \in Repository : want' = [want EXCEPT ![p].repository = r]
     /\ Enter(p, "repository") /\ UNCHANGED holder

\* The steps a running command takes by itself.
Advance(p) ==
  \/ TakeRepository(p)
  \/ TakeWorkspace(p)
  \/ TimeOut(p)
  \/ Finish(p)
  \/ UnlockWorkspace(p)
  \/ UnlockRepository(p)

Next == \E p \in Process : Begin(p) \/ Advance(p) \/ AcquireFails(p) \/ Crash(p)

Spec == Init /\ [][Next]_lockVars

\* A process that is not stopped keeps taking steps; nothing makes it start
\* another command, and nothing makes the lock it polls for fair to it.
FairSpec == Spec /\ \A p \in Process : WF_lockVars(Advance(p))

-----------------------------------------------------------------------------

(***************************************************************************)
(* The state is of the declared shape, and a process polls only for a key  *)
(* it asked for: an empty repository key is never locked (locking.go,      *)
(* lockPhases).                                                            *)
(***************************************************************************)
TypeOK ==
  /\ holder \in Locks
  /\ phase \in [Process -> Phase]
  /\ want \in [Process -> Footprint]
  /\ \A p \in Process :
       /\ phase[p] = "repository" => want[p].repository # NULL
       /\ phase[p] = "workspace" => want[p].workspace # NULL

(***************************************************************************)
(* The keys a process holds in each phase: exactly these, so that nothing  *)
(* leaks out of a failed acquisition, a release or a crash.                *)
(***************************************************************************)
HeldKeys(p) ==
  CASE phase[p] \in {"idle", "repository"} -> {}
    [] phase[p] \in {"workspace", "unlock_repository"} -> {want[p].repository} \ {NULL}
    [] OTHER -> {want[p].repository, want[p].workspace} \ {NULL}

(***************************************************************************)
(* A lock file is locked by a process exactly while that process is        *)
(* between taking and giving back that key (lock.go Acquire and Release,   *)
(* locking.go lockPhases): no path, the failed acquisition of the second   *)
(* lock included, leaves a key locked by a command that is over.           *)
(***************************************************************************)
NoLeakedLock ==
  \A k \in Key, p \in Process : holder[k] = p <=> k \in HeldKeys(p)

(***************************************************************************)
(* Two commands that are both at work never share a key, so container work *)
(* on a repository and session work on a workspace are serialised          *)
(* (lock.go's package comment).                                            *)
(***************************************************************************)
MutualExclusion ==
  \A p, q \in Process :
    p # q /\ phase[p] = "held" /\ phase[q] = "held"
      => /\ want[p].repository = want[q].repository => want[p].repository = NULL
         /\ want[p].workspace = want[q].workspace => want[p].workspace = NULL

WaitsFor(p, q) == Polled(p) # NULL /\ holder[Polled(p)] = q

(***************************************************************************)
(* No set of commands waits in a circle: "two commands on one repository   *)
(* can never each hold the lock the other is waiting for" (lock.go's       *)
(* package comment), for any number of commands.                           *)
(***************************************************************************)
NoCircularWait ==
  \A S \in SUBSET Process :
    (\A p \in S : \E q \in S : WaitsFor(p, q)) => S = {}

(***************************************************************************)
(* A command that started ends, whoever holds the locks it needs: every    *)
(* wait has a deadline (lock.go Acquire).                                  *)
(***************************************************************************)
EveryCommandEnds == \A p \in Process : phase[p] # "idle" ~> phase[p] = "idle"
=============================================================================
