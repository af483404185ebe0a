---------------------------- MODULE SelectionProofs ---------------------------
(***************************************************************************)
(* Proof that a session's windows are built where it is bound              *)
(* (OpensWhereBound), for any tree, binds, edits and number of commands.   *)
(*                                                                         *)
(* The bind an open renders is read once and used later.  It is still the  *)
(* recorded one because the lock of the session is held from before the    *)
(* bind is written until the session is created (Held), and whoever writes *)
(* a bind holds the lock of its session.                                   *)
(***************************************************************************)
EXTENDS Selection, TLAPS

\* The steps a command takes under the lock of its session.
UnderLock == {"record", "render", "create"}

Held(p) ==
  pc[p] \in UnderLock => ws[p] \in DOMAIN lock /\ lock[ws[p]] = p

\* What an open remembers of the bind, once the bind is written.
Written(p) == pc[p] \in {"render", "create"} => ws[p] \in DOMAIN records
Rendered(p) ==
  pc[p] = "create" =>
    /\ records[ws[p]] = base[p].from
    /\ \/ base[p].host = Root(ws[p])
       \/ base[p].inside # NULL /\ Encloses(base[p].inside, base[p].host)

Shape ==
  DOMAIN pc = Process /\ DOMAIN ws = Process /\ DOMAIN base = Process

Bound == Shape /\ \A p \in Process : Held(p) /\ Written(p) /\ Rendered(p)

\* Commands under locks are about different sessions.
LEMMA SessionsDiffer ==
  ASSUME Bound, NEW p \in Process, NEW q \in Process, p # q,
         pc[p] \in UnderLock, pc[q] \in UnderLock
  PROVE  ws[p] # ws[q]
BY DEF Bound, Held

\* A bind that can be resolved leads to a directory within the repository.
LEMMA ResolvesInside ==
  ASSUME NEW root, NEW rel, Resolve(root, rel) # NULL
  PROVE  /\ canonicalize(root) # NULL
         /\ Encloses(canonicalize(root), Resolve(root, rel))
BY DEF Resolve

\* Until a command has the lock it touches neither locks nor records, and no
\* other command.
LEMMA EarlyStepsKeepBound ==
  ASSUME Bound, NEW q \in Process,
         Start(q) \/ ResolveRepository(q) \/ ReadRecords(q) \/ MatchBinds(q) \/ Argument(q)
  PROVE  Bound'
<1>1. /\ UNCHANGED <<lock, records, base>>
      /\ pc[q] \notin UnderLock
  BY DEF Start, ResolveRepository, ReadRecords, MatchBinds, Argument, UnderLock
<1>2. \E l : l \notin UnderLock /\ pc' = [pc EXCEPT ![q] = l]
  BY DEF Start, ResolveRepository, ReadRecords, MatchBinds, Argument, UnderLock, Goto, Exit
<1>3. ws' = ws \/ \E w : ws' = [ws EXCEPT ![q] = w]
  BY DEF Start, ResolveRepository, ReadRecords, MatchBinds, Argument
<1>4. ASSUME NEW p \in Process, p # q
      PROVE  pc'[p] = pc[p] /\ ws'[p] = ws[p]
  BY <1>2, <1>3, <1>4 DEF Bound, Shape
<1>5. pc'[q] \notin UnderLock /\ Shape'
  BY <1>2, <1>3, <1>1 DEF Bound, Shape
<1> QED
  BY <1>1, <1>4, <1>5 DEF Bound, Held, Written, Rendered, UnderLock

\* A lock that is free is nobody's.
LEMMA AcquiringKeepsBound ==
  ASSUME Bound, NEW q \in Process, AcquireLock(q)
  PROVE  Bound'
<1>1. /\ UNCHANGED <<records, base, ws>>
      /\ pc[q] = "lock"
  BY DEF AcquireLock
<1>2. CASE ws[q] \in DOMAIN lock
  <2>1. lock' = lock /\ pc' = [pc EXCEPT ![q] = "done"]
    BY <1>2 DEF AcquireLock, Exit
  <2> QED
    BY <1>1, <2>1 DEF Bound, Shape, Held, Written, Rendered, UnderLock
<1>3. CASE ws[q] \notin DOMAIN lock
  <2>1. /\ lock' = [v \in DOMAIN lock \cup {ws[q]} |-> IF v = ws[q] THEN q ELSE lock[v]]
        /\ pc' = [pc EXCEPT ![q] = "record"]
    BY <1>3 DEF AcquireLock, Goto
  <2>2. ASSUME NEW p \in Process
        PROVE  Held(p)'
    <3>1. CASE p = q
      BY <1>1, <2>1, <3>1 DEF Held
    <3>2. CASE p # q
      BY <1>1, <1>3, <2>1, <3>2 DEF Bound, Shape, Held
    <3> QED
      BY <3>1, <3>2
  <2>3. ASSUME NEW p \in Process
        PROVE  Written(p)' /\ Rendered(p)'
    BY <1>1, <2>1 DEF Bound, Shape, Written, Rendered
  <2> QED
    BY <1>1, <2>1, <2>2, <2>3 DEF Bound, Shape
<1> QED
  BY <1>2, <1>3

\* A bind is written under the lock of its session, so no open that has
\* rendered its own is affected.
LEMMA RecordingKeepsBound ==
  ASSUME Bound, NEW q \in Process, Record(q)
  PROVE  Bound'
<1>1. UNCHANGED <<base, ws>> /\ pc[q] = "record" /\ pc[q] \in UnderLock
  BY DEF Record, UnderLock
<1>2. /\ DOMAIN records' = DOMAIN records \cup {ws[q]}
      /\ \A w \in DOMAIN records : w # ws[q] => records'[w] = records[w]
  BY DEF Record
<1>3. \/ lock' = Free(ws[q]) /\ pc' = [pc EXCEPT ![q] = "done"]
      \/ lock' = lock /\ pc' = [pc EXCEPT ![q] = "render"]
  BY DEF Record, Exit, Goto
<1>4. ASSUME NEW p \in Process, p # q, pc'[p] \in UnderLock
      PROVE  pc'[p] = pc[p] /\ pc[p] \in UnderLock /\ ws[p] # ws[q]
  <2>1. pc'[p] = pc[p]
    BY <1>3, <1>4 DEF Bound, Shape
  <2> QED
    BY <1>1, <1>4, <2>1, SessionsDiffer
<1>5. ASSUME NEW p \in Process, p # q
      PROVE  Held(p)' /\ Written(p)' /\ Rendered(p)'
  <2>1. CASE pc'[p] \in UnderLock
    <3>1. pc'[p] = pc[p] /\ pc[p] \in UnderLock /\ ws[p] # ws[q]
      BY <1>4, <1>5, <2>1
    <3>2. Held(p)'
      BY <1>1, <1>3, <3>1 DEF Bound, Held, Free
    <3>3. Written(p)' /\ Rendered(p)'
      BY <1>1, <1>2, <3>1 DEF Bound, Written, Rendered
    <3> QED
      BY <3>2, <3>3
  <2>2. CASE pc'[p] \notin UnderLock
    BY <2>2 DEF Held, Written, Rendered, UnderLock
  <2> QED
    BY <2>1, <2>2
<1>6. Held(q)' /\ Written(q)' /\ Rendered(q)'
  BY <1>1, <1>2, <1>3 DEF Bound, Shape, Held, Written, Rendered, UnderLock
<1>7. Shape'
  BY <1>1, <1>3 DEF Bound, Shape
<1> QED
  BY <1>5, <1>6, <1>7 DEF Bound

\* An open that renders remembers the recorded bind, and a directory inside.
LEMMA RenderingKeepsBound ==
  ASSUME Bound, NEW q \in Process, Render(q)
  PROVE  Bound'
<1> DEFINE root == Root(ws[q])
           recorded == records[ws[q]]
           host == IF recorded = NULL THEN NULL ELSE Resolve(root, recorded)
           rendered == [host |-> IF host = NULL THEN root ELSE host,
                        rel |-> IF host = NULL THEN <<>> ELSE recorded,
                        from |-> recorded,
                        inside |-> canonicalize(root)]
<1>1. /\ UNCHANGED <<records, lock, ws>>
      /\ pc[q] = "render" /\ pc' = [pc EXCEPT ![q] = "create"]
      /\ base' = [base EXCEPT ![q] = rendered]
  BY DEF Render, Goto
<1>2. \/ rendered.host = root
      \/ rendered.inside # NULL /\ Encloses(rendered.inside, rendered.host)
  <2>1. CASE host = NULL
    BY <2>1
  <2>2. CASE host # NULL
    <3>1. host = Resolve(root, recorded)
      BY <2>2
    <3> QED
      BY <2>2, <3>1, ResolvesInside
  <2> QED
    BY <2>1, <2>2
<1> HIDE DEF rendered
<1>3. rendered.from = recorded
  BY DEF rendered
<1>4. ASSUME NEW p \in Process, p # q
      PROVE  Held(p)' /\ Written(p)' /\ Rendered(p)'
  BY <1>1, <1>4 DEF Bound, Shape, Held, Written, Rendered
<1>5. Held(q)' /\ Written(q)'
  BY <1>1 DEF Bound, Shape, Held, Written, UnderLock
<1>6. Rendered(q)'
  BY <1>1, <1>2, <1>3 DEF Bound, Shape, Rendered
<1> QED
  BY <1>1, <1>4, <1>5, <1>6 DEF Bound, Shape

\* Giving back one's own lock leaves the others theirs.
LEMMA CreatingKeepsBound ==
  ASSUME Bound, NEW q \in Process, Create(q)
  PROVE  Bound'
<1>1. /\ UNCHANGED <<records, base, ws>> /\ lock' = Free(ws[q])
      /\ pc[q] \in UnderLock /\ pc' = [pc EXCEPT ![q] = "done"]
  BY DEF Create, Exit, UnderLock
<1>2. ASSUME NEW p \in Process, p # q
      PROVE  Held(p)' /\ Written(p)' /\ Rendered(p)'
  <2>1. pc'[p] = pc[p]
    BY <1>1, <1>2 DEF Bound, Shape
  <2>2. Held(p)'
    <3>1. CASE pc[p] \in UnderLock
      <4>1. ws[p] # ws[q]
        BY <1>1, <1>2, <3>1, SessionsDiffer
      <4> QED
        BY <1>1, <2>1, <3>1, <4>1 DEF Bound, Held, Free
    <3>2. CASE pc[p] \notin UnderLock
      BY <2>1, <3>2 DEF Held
    <3> QED
      BY <3>1, <3>2
  <2> QED
    BY <1>1, <2>1, <2>2 DEF Bound, Written, Rendered
<1>3. Held(q)' /\ Written(q)' /\ Rendered(q)'
  BY <1>1 DEF Bound, Shape, Held, Written, Rendered, UnderLock
<1> QED
  BY <1>1, <1>2, <1>3 DEF Bound, Shape

\* An open builds the windows of a session from the bind recorded at that
\* moment (ensure.go:101-106), in a directory that lay inside the repository
\* when it was looked up (bindpath.go:3-7), whatever other commands record and
\* users make of the tree meanwhile.
THEOREM OpensUseTheRecordedBind == Spec => []OpensWhereBound
<1>1. Init => Bound
  BY DEF Init, Bound, Shape, Held, Written, Rendered, UnderLock
<1>2. Bound /\ [Next]_selectionVars => Bound'
  <2> SUFFICES ASSUME Bound, [Next]_selectionVars PROVE Bound'
    OBVIOUS
  <2>1. ASSUME NEW q \in Process, Step(q)
        PROVE  Bound'
    BY <2>1, EarlyStepsKeepBound, AcquiringKeepsBound, RecordingKeepsBound,
       RenderingKeepsBound, CreatingKeepsBound DEF Step
  <2>2. CASE UNCHANGED <<records, lock, progress>>
    BY <2>2 DEF progress, Bound, Shape, Held, Written, Rendered
  <2>3. ASSUME NEW place, NEW node, Change(place, node)
        PROVE  Bound'
    BY <2>2, <2>3 DEF Change
  <2>4. ASSUME NEW from, NEW to, Move(from, to)
        PROVE  Bound'
    BY <2>2, <2>4 DEF Move
  <2>5. CASE UNCHANGED selectionVars
    BY <2>2, <2>5 DEF selectionVars
  <2> QED
    BY <2>1, <2>3, <2>4, <2>5 DEF Next
<1>3. Bound => OpensWhereBound
  BY DEF Bound, Rendered, OpensWhereBound
<1> QED
  BY <1>1, <1>2, <1>3, PTL DEF Spec
=============================================================================
