-------------------------- MODULE FileLocksProofs ----------------------------
(***************************************************************************)
(* The locking theorems, for any number of commands, repositories and      *)
(* workspaces.  TypeOK and NoLeakedLock together are inductive; mutual     *)
(* exclusion and the absence of a circular wait follow from them.          *)
(***************************************************************************)
EXTENDS FileLocks, TLAPS

IInv == TypeOK /\ NoLeakedLock

\* A process holds only keys, never NULL, and none outside a lock phase.
LEMMA HeldKeysAreKeys ==
  ASSUME TypeOK, NEW p \in Process
  PROVE  HeldKeys(p) \subseteq Key
  BY DEF TypeOK, HeldKeys, Footprint, Key

\* The invariant holds before anybody asks for a lock.
LEMMA InitIInv == Init => IInv
  BY KeysAssumption DEF Init, IInv, TypeOK, NoLeakedLock, HeldKeys, Locks, Key,
     Phase, Footprint, NoFootprint

\* Each step changes the phase and the footprint of one process only.
LEMMA StepTypeOK ==
  ASSUME TypeOK, [Next]_lockVars
  PROVE  TypeOK'
  <1> USE KeysAssumption DEF TypeOK, Locks, Key, Phase, Footprint, NoFootprint,
          Enter, SetHolder, Unlock, Free
  <1>1. ASSUME NEW p \in Process, Begin(p) PROVE TypeOK'
    BY <1>1 DEF Begin
  <1>2. ASSUME NEW p \in Process, TakeRepository(p) PROVE TypeOK'
    BY <1>2 DEF TakeRepository
  <1>3. ASSUME NEW p \in Process, TakeWorkspace(p) PROVE TypeOK'
    BY <1>3 DEF TakeWorkspace
  <1>4. ASSUME NEW p \in Process, GiveUp(p) PROVE TypeOK'
    BY <1>4 DEF GiveUp
  <1>5. ASSUME NEW p \in Process, Finish(p) PROVE TypeOK'
    BY <1>5 DEF Finish
  <1>6. ASSUME NEW p \in Process, UnlockWorkspace(p) PROVE TypeOK'
    BY <1>6 DEF UnlockWorkspace
  <1>7. ASSUME NEW p \in Process, UnlockRepository(p) PROVE TypeOK'
    BY <1>7 DEF UnlockRepository
  <1>8. ASSUME NEW p \in Process, Crash(p) PROVE TypeOK'
    BY <1>8 DEF Crash
  <1>9. CASE UNCHANGED lockVars
    BY <1>9 DEF lockVars
  <1> QED
    BY <1>1, <1>2, <1>3, <1>4, <1>5, <1>6, <1>7, <1>8, <1>9
       DEF Next, Advance, TimeOut, AcquireFails

\* Whoever moves, the keys it holds and the locks that name it move together.
LEMMA StepNoLeakedLock ==
  ASSUME TypeOK, NoLeakedLock, [Next]_lockVars
  PROVE  NoLeakedLock'
  <1> USE KeysAssumption DEF TypeOK, NoLeakedLock, HeldKeys, Locks, Key, Phase,
          Footprint, NoFootprint, Enter, SetHolder, Unlock, Free
  <1>1. ASSUME NEW p \in Process, Begin(p) PROVE NoLeakedLock'
    BY <1>1 DEF Begin
  <1>2. ASSUME NEW p \in Process, TakeRepository(p) PROVE NoLeakedLock'
    BY <1>2 DEF TakeRepository
  <1>3. ASSUME NEW p \in Process, TakeWorkspace(p) PROVE NoLeakedLock'
    BY <1>3 DEF TakeWorkspace
  <1>4. ASSUME NEW p \in Process, GiveUp(p) PROVE NoLeakedLock'
    BY <1>4 DEF GiveUp
  <1>5. ASSUME NEW p \in Process, Finish(p) PROVE NoLeakedLock'
    BY <1>5 DEF Finish
  <1>6. ASSUME NEW p \in Process, UnlockWorkspace(p) PROVE NoLeakedLock'
    BY <1>6 DEF UnlockWorkspace
  <1>7. ASSUME NEW p \in Process, UnlockRepository(p) PROVE NoLeakedLock'
    BY <1>7 DEF UnlockRepository
  <1>8. ASSUME NEW p \in Process, Crash(p) PROVE NoLeakedLock'
    BY <1>8 DEF Crash
  <1>9. CASE UNCHANGED lockVars
    BY <1>9 DEF lockVars
  <1> QED
    BY <1>1, <1>2, <1>3, <1>4, <1>5, <1>6, <1>7, <1>8, <1>9
       DEF Next, Advance, TimeOut, AcquireFails

\* The inductive invariant holds in every state.
THEOREM LocksInductive == Spec => []IInv
  <1>1. IInv /\ [Next]_lockVars => IInv'
    BY StepTypeOK, StepNoLeakedLock DEF IInv
  <1> QED
    BY InitIInv, <1>1, PTL DEF Spec

\* Locks and processes keep their shape, and a command polls only for a key it
\* asked for.
THEOREM LocksTypeOK == Spec => []TypeOK
  <1>1. IInv => TypeOK
    BY DEF IInv
  <1> QED
    BY <1>1, LocksInductive, PTL

\* A key is locked by a process exactly between taking it and giving it back,
\* whatever failures and crashes happen.
THEOREM LocksNeverLeak == Spec => []NoLeakedLock
  <1>1. IInv => NoLeakedLock
    BY DEF IInv
  <1> QED
    BY <1>1, LocksInductive, PTL

\* Two commands at work never share a repository or a workspace.
THEOREM LocksExclude == Spec => []MutualExclusion
  <1>1. IInv => MutualExclusion
    <2> SUFFICES ASSUME IInv, NEW p \in Process, NEW q \in Process, p # q,
                        phase[p] = "held", phase[q] = "held"
                 PROVE  /\ want[p].repository = want[q].repository
                             => want[p].repository = NULL
                        /\ want[p].workspace = want[q].workspace
                             => want[p].workspace = NULL
      BY DEF MutualExclusion
    <2>1. \A k \in Key : ~(k \in HeldKeys(p) /\ k \in HeldKeys(q))
      BY DEF IInv, NoLeakedLock
    <2>2. HeldKeys(p) = {want[p].repository, want[p].workspace} \ {NULL}
      BY DEF HeldKeys
    <2>3. HeldKeys(q) = {want[q].repository, want[q].workspace} \ {NULL}
      BY DEF HeldKeys
    <2> QED
      BY <2>1, <2>2, <2>3, HeldKeysAreKeys DEF IInv
  <1> QED
    BY <1>1, LocksInductive, PTL

(***************************************************************************)
(* A command that waits for a repository lock holds nothing; one that      *)
(* waits for a workspace lock waits for a command that waits for nothing.  *)
(* So a chain of waiting commands has at most two links.                   *)
(***************************************************************************)
LEMMA WaitingForWorkspace ==
  ASSUME IInv, NEW p \in Process, NEW q \in Process, phase[p] = "workspace",
         WaitsFor(p, q)
  PROVE  Polled(q) = NULL
  <1>1. want[p].workspace \in Workspace /\ holder[want[p].workspace] = q
    BY DEF WaitsFor, Polled, IInv, TypeOK, Footprint
  <1>2. want[p].workspace \in HeldKeys(q)
    BY <1>1 DEF IInv, NoLeakedLock, Key
  <1>3. phase[q] \notin {"repository", "workspace"}
    BY <1>1, <1>2, KeysAssumption DEF HeldKeys, IInv, TypeOK, Footprint
  <1> QED
    BY <1>3 DEF Polled

\* Who waits for a repository's lock holds none.
LEMMA WaitingForRepository ==
  ASSUME IInv, NEW p \in Process, NEW q \in Process, phase[p] = "repository",
         WaitsFor(p, q), Polled(q) # NULL
  PROVE  phase[q] = "workspace"
  <1>1. want[p].repository \in Repository /\ holder[want[p].repository] = q
    BY DEF WaitsFor, Polled, IInv, TypeOK, Footprint
  <1>2. want[p].repository \in HeldKeys(q)
    BY <1>1 DEF IInv, NoLeakedLock, Key
  <1>3. phase[q] # "repository"
    BY <1>2 DEF HeldKeys
  <1> QED
    BY <1>3 DEF Polled

\* No set of commands waits in a circle.
THEOREM LocksNeverDeadlock == Spec => []NoCircularWait
  <1>1. IInv => NoCircularWait
    <2> SUFFICES ASSUME IInv, NEW S \in SUBSET Process,
                        \A p \in S : \E q \in S : WaitsFor(p, q)
                 PROVE  S = {}
      BY DEF NoCircularWait
    <2>1. \A p \in S : Polled(p) # NULL
      BY DEF WaitsFor
    <2>2. \A p \in S : phase[p] \in {"repository", "workspace"}
      BY <2>1 DEF Polled
    <2>3. \A p \in S : phase[p] # "workspace"
      BY <2>1, WaitingForWorkspace
    <2>4. \A p \in S : phase[p] # "repository"
      BY <2>1, <2>3, WaitingForRepository
    <2> QED
      BY <2>2, <2>3, <2>4
  <1> QED
    BY <1>1, LocksInductive, PTL
=============================================================================
