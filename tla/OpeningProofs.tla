---------------------------- MODULE OpeningProofs ----------------------------
(***************************************************************************)
(* Proofs about Opening: for any number of commands of any builds, with    *)
(* crashes anywhere, each migration runs once and in order, a command that *)
(* has opened the store finds no migration pending, and an inspection      *)
(* omits nothing that was committed before it looked.                      *)
(*                                                                         *)
(* The order of the history alone is not inductive.  A commit appends the  *)
(* number computed when the version was read, so the proof also needs that *)
(* nothing is committed in between: the write lock is its holder's, and    *)
(* whoever has read the version holds it.                                  *)
(***************************************************************************)
EXTENDS Opening, SequenceTheorems, TLAPS

Entry == [ran : Nat, version : Nat]

Migrating == {"began", "applied"}

\* The parts of the state the argument is about.
Shape ==
  /\ history \in Seq(Entry) /\ Newest # 0
  /\ pc \in [Command -> Inspecting \cup Opening \cup {"done"}]
  /\ next \in [Command -> Nat]

\* Inside its transaction a command holds the write lock, and the number it
\* computed there is still the migration that follows.
Serial ==
  \A c \in Command :
    /\ pc[c] \in Migrating => writer = c
    /\ pc[c] = "applied" => next[c] = Version + 1

IInv == Shape /\ Serial /\ OpenIsCurrent /\ MigrationsInOrder

\* What holds of the shape holds of the newest commit.
LEMMA NewestCommit ==
  ASSUME Shape
  PROVE  Newest \in Nat \ {0} /\ Version \in Nat
  <1>1. Newest \in Nat \ {0}
    BY DEF Shape, Newest
  <1>2. history[Newest] \in Entry
    BY <1>1, ElementOfSeq DEF Shape, Newest
  <1>3. QED
    BY <1>1, <1>2 DEF Version, Entry

\* A commit of the migration that follows, or of rows, keeps the order, and
\* does not lower the version.
LEMMA AppendKeepsOrder ==
  ASSUME Shape, MigrationsInOrder, NEW e \in Entry,
         history' = Append(history, e),
         \/ e.ran = 0 /\ e.version = Version
         \/ e.ran = Version + 1 /\ e.version = Version + 1
  PROVE  MigrationsInOrder' /\ Version' = e.version
  <1>1. /\ Newest' = Newest + 1
        /\ \A i \in 1..Newest : history'[i] = history[i]
        /\ history'[Newest + 1] = e
    BY AppendProperties DEF Shape, Newest
  <1>2. Version' = e.version
    BY <1>1 DEF Version
  <1>3. ASSUME NEW i \in 2..Newest'
        PROVE  LET was == history'[i - 1].version now == history'[i] IN
               \/ now.ran = 0 /\ now.version = was
               \/ now.ran = was + 1 /\ now.version = was + 1
    <2>1. CASE i \in 2..Newest
      <3>1. i \in 1..Newest /\ i - 1 \in 1..Newest
        BY <2>1, NewestCommit
      <3>2. history'[i] = history[i] /\ history'[i - 1] = history[i - 1]
        BY <1>1, <3>1
      <3>3. QED
        BY <2>1, <3>2 DEF MigrationsInOrder
    <2>2. CASE i = Newest + 1
      <3>1. i - 1 = Newest /\ Newest \in 1..Newest
        BY <2>2, NewestCommit
      <3>2. history'[i - 1] = history[Newest] /\ history'[i] = e
        BY <1>1, <2>2, <3>1
      <3>3. history'[i - 1].version = Version
        BY <3>2 DEF Version
      <3>4. \/ history'[i].ran = 0 /\ history'[i].version = Version
            \/ /\ history'[i].ran = Version + 1
               /\ history'[i].version = Version + 1
        BY <3>2
      <3>5. QED
        BY <3>3, <3>4, Zenon
    <2>3. i \in 2..Newest \/ i = Newest + 1
      BY <1>1, NewestCommit
    <2>4. QED
      BY <2>1, <2>2, <2>3
  <1>4. QED
    BY <1>2, <1>3 DEF MigrationsInOrder

\* The initial state has at most two commits, of the same schema.
LEMMA InitIInv ==
  ASSUME OpeningAssumption, Init
  PROVE  IInv
  <1>1. Shape
    <2>1. PICK v \in StartVersions :
            history \in {<<[ran |-> 0, version |-> v]>>,
                         <<[ran |-> 0, version |-> v], [ran |-> 0, version |-> v]>>}
      BY DEF Init
    <2>2. [ran |-> 0, version |-> v] \in Entry
      BY DEF OpeningAssumption, Entry
    <2>3. history \in Seq(Entry) /\ Newest # 0
      <3>1. ASSUME NEW e \in Entry
            PROVE  /\ <<e>> \in Seq(Entry) /\ Len(<<e>>) # 0
                   /\ <<e, e>> \in Seq(Entry) /\ Len(<<e, e>>) # 0
        OBVIOUS
      <3>2. QED
        BY <2>1, <2>2, <3>1 DEF Newest
    <2>4. pc \in [Command -> Inspecting \cup Opening \cup {"done"}]
      BY DEF Init, Inspecting, Opening
    <2>5. next \in [Command -> Nat]
      BY DEF Init
    <2>6. QED
      BY <2>3, <2>4, <2>5 DEF Shape
  <1>2. Serial /\ OpenIsCurrent
    BY DEF Init, Serial, OpenIsCurrent, Migrating
  <1>3. MigrationsInOrder
    BY DEF Init, MigrationsInOrder, Newest
  <1>4. QED
    BY <1>1, <1>2, <1>3 DEF IInv

\* A step that commits nothing keeps the invariant if it respects the lock:
\* it moves one command, into a transaction only with the lock free or held
\* by that command, and takes the lock from nobody else.
LEMMA QuietStep ==
  ASSUME IInv, NEW c \in Command,
         NEW l \in Inspecting \cup Opening \cup {"done"},
         UNCHANGED <<history, next>>,
         pc' = [pc EXCEPT ![c] = l],
         writer' = writer \/ writer = c \/ writer = NULL,
         \A d \in Command \ {c} : writer = d => writer' = d,
         l \in Migrating => writer' = c,
         l = "applied" => pc[c] = "applied",
         l = "ready" => Version >= Supports[c]
  PROVE  IInv'
  <1>1. Shape'
    BY DEF IInv, Shape, Newest
  <1>2. Serial'
    BY DEF IInv, Shape, Serial, Version, Newest, Migrating
  <1>3. OpenIsCurrent'
    BY DEF IInv, Shape, OpenIsCurrent, Version, Newest
  <1>4. MigrationsInOrder'
    BY DEF IInv, MigrationsInOrder, Newest
  <1>5. QED
    BY <1>1, <1>2, <1>3, <1>4 DEF IInv

\* Whatever happens without a commit respects the lock.
LEMMA QuietActions ==
  ASSUME IInv, NEW c \in Command,
         \/ Inspect(c) \/ InspectionFails(c) \/ Busy(c) \/ Crash(c)
         \/ Begin(c) \/ Close(c) \/ RemoveIndex(c) \/ RemoveLog(c)
         \/ \E pg \in Page : WriteBack(c, pg)
  PROVE  IInv'
  <1> USE QuietStep DEF disk, finding, Goto, Concludes, Disconnect, Inspecting,
                        Opening, Migrating
  <1>1. ASSUME StatDatabase(c) \/ StatWal(c) \/ StatShm(c) \/ Connect(c)
        PROVE  IInv'
    BY <1>1 DEF StatDatabase, StatWal, StatShm, Connect
  <1>2. ASSUME CheckIntegrity(c) \/ ReadVersion(c) \/ CheckImage(c) \/ LookAgain(c)
        PROVE  IInv'
    BY <1>2 DEF CheckIntegrity, ReadVersion, CheckImage, LookAgain
  <1>3. ASSUME \E pg \in Page : ReadPage(c, pg) \/ WriteBack(c, pg)
        PROVE  IInv'
    <2>1. UNCHANGED <<history, next, pc, writer>>
      BY <1>3 DEF ReadPage, WriteBack
    <2>2. QED
      BY <2>1 DEF IInv, Shape, Serial, OpenIsCurrent, MigrationsInOrder,
                  Newest, Version
  <1>4. ASSUME Decide(c) \/ ReadRows(c) \/ InspectionFails(c)
        PROVE  IInv'
    BY <1>4 DEF Decide, ReadRows, InspectionFails
  <1>5. ASSUME Begin(c) PROVE IInv'
    BY <1>5, OpeningAssumption DEF Begin
  <1>6. ASSUME Busy(c) PROVE IInv'
    <2>1. PICK l \in {"close", "done"} : pc' = [pc EXCEPT ![c] = l]
      BY <1>6 DEF Busy, Finishes
    <2>2. UNCHANGED <<history, next, writer>>
      BY <1>6 DEF Busy
    <2>3. QED
      BY <2>1, <2>2
  <1>7. ASSUME Crash(c) PROVE IInv'
    BY <1>7 DEF Crash
  <1>8. ASSUME Close(c) PROVE IInv'
    <2>1. PICK l \in {"checkpoint", "done"} : pc' = [pc EXCEPT ![c] = l]
      BY <1>8 DEF Close
    <2>2. UNCHANGED <<history, next, writer>>
      BY <1>8 DEF Close
    <2>3. QED
      BY <2>1, <2>2
  <1>9. ASSUME RemoveIndex(c) \/ RemoveLog(c) PROVE IInv'
    BY <1>9 DEF RemoveIndex, RemoveLog
  <1>10. QED
    BY <1>1, <1>2, <1>3, <1>4, <1>5, <1>6, <1>7, <1>8, <1>9 DEF Inspect

\* Reading the version computes the migration that follows, under the lock;
\* a command is ready only when none is pending.
LEMMA ApplyNextKeeps ==
  ASSUME IInv, OpeningAssumption, NEW c \in Command, ApplyNext(c)
  PROVE  IInv'
  <1>1. Shape'
    <2>1. history' = history
      BY DEF ApplyNext, disk
    <2>2. next' \in [Command -> Nat]
      <3>1. Version + 1 \in Nat
        BY NewestCommit DEF IInv
      <3>2. QED
        BY <3>1 DEF IInv, ApplyNext, Shape
    <2>3. pc' \in [Command -> Inspecting \cup Opening \cup {"done"}]
      BY DEF IInv, ApplyNext, Shape, Goto, Opening
    <2>4. QED
      BY <2>1, <2>2, <2>3 DEF IInv, Shape, Newest
  <1>2. Serial'
    BY DEF IInv, Shape, ApplyNext, Serial, disk, Goto, Version, Newest, Migrating
  <1>3. OpenIsCurrent'
    BY DEF IInv, Shape, ApplyNext, OpenIsCurrent, disk, Goto, Version, Newest
  <1>4. MigrationsInOrder'
    BY DEF IInv, ApplyNext, MigrationsInOrder, disk, Newest
  <1>5. QED
    BY <1>1, <1>2, <1>3, <1>4 DEF IInv

\* A commit that follows the newest one, made while nobody else is inside a
\* transaction, keeps the invariant.
LEMMA CommitStep ==
  ASSUME IInv, OpeningAssumption, NEW c \in Command, NEW e \in Entry,
         NEW l \in {"begin", "close"},
         history' = Append(history, e),
         \/ e.ran = 0 /\ e.version = Version
         \/ e.ran = Version + 1 /\ e.version = Version + 1,
         \A d \in Command \ {c} : pc[d] \notin Migrating,
         pc' = [pc EXCEPT ![c] = l],
         next' = next
  PROVE  IInv'
  <1>1. MigrationsInOrder' /\ Version' = e.version
    BY AppendKeepsOrder DEF IInv
  <1>2. Shape'
    <2>1. history' \in Seq(Entry) /\ Newest' = Newest + 1
      BY AppendProperties DEF IInv, Shape, Newest
    <2>2. Newest' # 0
      BY <2>1, NewestCommit DEF IInv
    <2>3. QED
      BY <2>1, <2>2 DEF IInv, Shape, Opening
  <1>3. Serial'
    BY DEF IInv, Shape, Serial, Migrating
  <1>4. OpenIsCurrent'
    <2>1. Version \in Nat /\ Version' >= Version
      BY <1>1, NewestCommit DEF IInv
    <2>2. QED
      BY <1>1, <2>1 DEF IInv, Shape, OpenIsCurrent, OpeningAssumption
  <1>5. QED
    BY <1>1, <1>2, <1>3, <1>4 DEF IInv

\* A committed migration keeps the invariant.
LEMMA CommitKeeps ==
  ASSUME IInv, OpeningAssumption, NEW c \in Command, Commit(c) \/ Work(c)
  PROVE  IInv'
  <1>1. CASE Commit(c)
    <2> DEFINE e == [ran |-> next[c], version |-> next[c]]
    <2>1. writer = c /\ next[c] = Version + 1
      BY <1>1 DEF IInv, Serial, Commit, Migrating
    <2>2. e \in Entry /\ e.ran = Version + 1 /\ e.version = Version + 1
      BY <2>1 DEF IInv, Shape, Entry
    <2>3. \A d \in Command \ {c} : pc[d] \notin Migrating
      BY <2>1 DEF IInv, Serial
    <2>4. QED
      BY <1>1, <2>2, <2>3, CommitStep DEF Commit, Goto
  <1>2. CASE Work(c)
    <2>1. CASE UNCHANGED history
      BY <1>2, <2>1, QuietStep DEF Work, Goto, Opening, Migrating
    <2>2. CASE writer = NULL /\ history' = Append(history, [ran |-> 0, version |-> Version])
      <3> DEFINE e == [ran |-> 0, version |-> Version]
      <3>1. e \in Entry /\ e.ran = 0 /\ e.version = Version
        BY NewestCommit DEF IInv, Entry
      <3>2. \A d \in Command \ {c} : pc[d] \notin Migrating
        BY <2>2 DEF IInv, Serial, OpeningAssumption
      <3>3. QED
        BY <1>2, <2>2, <3>1, <3>2, CommitStep DEF Work, Goto
    <2>3. QED
      BY <1>2, <2>1, <2>2 DEF Work
  <1>3. QED
    BY <1>1, <1>2

\* The inductive invariant: the shape, the lock, and the two results.
THEOREM OpeningInvariant == Spec => []IInv
  <1>1. Init => IInv
    BY InitIInv, OpeningAssumption
  <1>2. IInv /\ [Next]_openingVars => IInv'
    <2> SUFFICES ASSUME IInv, [Next]_openingVars PROVE IInv'
      OBVIOUS
    <2>1. CASE UNCHANGED openingVars
      BY <2>1 DEF openingVars, disk, IInv, Shape, Serial, OpenIsCurrent,
                  MigrationsInOrder, Newest, Version
    <2>2. ASSUME NEW c \in Command,
                 Inspect(c) \/ Mutate(c) \/ InspectionFails(c) \/ Busy(c) \/ Crash(c)
          PROVE  IInv'
      BY <2>2, QuietActions, ApplyNextKeeps, CommitKeeps, OpeningAssumption
         DEF Mutate
    <2>3. QED
      BY <2>1, <2>2 DEF Next
  <1>3. QED
    BY <1>1, <1>2, PTL DEF Spec

\* Each migration runs once and in order, whichever commands open the
\* database and wherever they die (migrate.go migrate, applyNext).
THEOREM MigrationsRunInOrder == Spec => []MigrationsInOrder
  <1>1. IInv => MigrationsInOrder
    BY DEF IInv
  <1>2. QED
    BY <1>1, OpeningInvariant, PTL

\* No command works on a database its build would still migrate (state.go Open).
THEOREM OpenedMeansMigrated == Spec => []OpenIsCurrent
  <1>1. IInv => OpenIsCurrent
    BY DEF IInv
  <1>2. QED
    BY <1>1, OpeningInvariant, PTL

-----------------------------------------------------------------------------
(***************************************************************************)
(* That an inspection omits nothing committed before it rests on the file: *)
(* where there is no log every page has been written back, so that a bare  *)
(* read after a look that found no log is of that moment or later.  That   *)
(* again rests on the connections: whoever may write keeps the log there,  *)
(* and the last to leave is alone while it removes it.                     *)
(***************************************************************************)

\* No page, and nothing an inspection remembers, is of a commit to come.
Past ==
  /\ file \in [Page -> 1..Newest]
  /\ since \in [Command -> 0..Newest]
  /\ cache \in [Command -> [Page -> 0..Newest]]
  /\ DOMAIN verdict = Command

Cleaning == {"checkpoint", "unlink"}

\* Who writes or cleans up is connected, who cleans up is alone, and there is
\* a log as long as anybody is connected.
Joined ==
  /\ connected \subseteq Command
  /\ connected # {} => wal
  /\ \A c \in Command :
       /\ pc[c] \in Migrating \cup {"ready"} => c \in connected
       /\ pc[c] \in Cleaning => connected = {c}

\* Without a log, or past its checkpoint, the file has every commit.
WrittenBack ==
  ~wal \/ (\E c \in Command : pc[c] = "unlink") => \A pg \in Page : file[pg] = Newest

\* An inspection starts with nothing read, and reads the bare file only if that
\* had every commit when it looked for the log.
Looked ==
  \A c \in Command :
    /\ pc[c] = "stat" => cache[c] = Unread /\ verdict[c] = "none"
    /\ since[c] = 0 => verdict[c] = "none" /\ pc[c] \notin Inspecting \ {"stat"}
    /\ pc[c] = "immutable" => \A pg \in Page : file[pg] >= since[c]

InspectionInv == Past /\ Joined /\ WrittenBack /\ Looked /\ InspectionIsCurrent

\* Every step of a command, taken apart.
Moves(c) == Inspect(c) \/ Mutate(c) \/ InspectionFails(c) \/ Busy(c) \/ Crash(c)

\* The history only grows, and only a connected command appends to it.
LEMMA HistoryGrows ==
  ASSUME IInv, NEW c \in Command, Moves(c)
  PROVE  /\ Newest \in Nat \ {0} /\ Newest' \in Nat /\ Newest' >= Newest
         /\ \A i \in 1..Newest : history'[i] = history[i]
         /\ history' # history => pc[c] \in {"applied", "ready"}
<1>1. Newest \in Nat \ {0}
  BY NewestCommit DEF IInv
<1>2. CASE UNCHANGED history
  BY <1>1, <1>2 DEF Newest
<1>3. CASE Commit(c) \/ Work(c)
  <2>1. CASE history' # history
    <3>1. /\ [ran |-> next[c], version |-> next[c]] \in Entry
          /\ [ran |-> 0, version |-> Version] \in Entry
      BY NewestCommit DEF IInv, Shape, Entry
    <3>2. PICK e \in Entry : history' = Append(history, e)
      <4>1. CASE Commit(c)
        BY <3>1, <4>1 DEF Commit
      <4>2. CASE Work(c)
        BY <2>1, <3>1, <4>2 DEF Work
      <4> QED
        BY <1>3, <4>1, <4>2
    <3>3. /\ Newest' = Newest + 1
          /\ \A i \in 1..Newest : history'[i] = history[i]
      BY <3>2, AppendProperties DEF IInv, Shape, Newest
    <3> QED
      BY <1>1, <1>3, <3>3 DEF Commit, Work
  <2> QED
    BY <1>2, <2>1
<1>4. CASE ~(Commit(c) \/ Work(c))
  <2>1. UNCHANGED history
    BY <1>4 DEF Moves, Inspect, Mutate, InspectionFails, Busy, Crash, disk,
       StatDatabase, StatWal, StatShm, Connect, CheckIntegrity, ReadVersion,
       CheckImage, LookAgain, ReadPage, Decide, ReadRows, Begin, ApplyNext, Close,
       WriteBack, RemoveIndex, RemoveLog
  <2> QED
    BY <1>2, <2>1
<1> QED
  BY <1>3, <1>4

\* Nothing is remembered of the future.
LEMMA PastStays ==
  ASSUME IInv, Past, NEW c \in Command, Moves(c)
  PROVE  Past'
<1>1. Newest \in Nat \ {0} /\ Newest' \in Nat /\ Newest' >= Newest
  BY HistoryGrows
<1>2. file' \in [Page -> 1..Newest']
  <2>1. CASE \E pg \in Page : WriteBack(c, pg)
    <3>1. Newest' = Newest
      BY <2>1 DEF WriteBack, Newest
    <3>2. file' \in [Page -> 1..Newest]
      BY <1>1, <2>1 DEF WriteBack, Past
    <3> QED
      BY <3>1, <3>2
  <2>2. CASE UNCHANGED file
    BY <1>1, <2>2 DEF Past
  <2> QED
    BY <2>1, <2>2 DEF Moves, Inspect, Mutate, InspectionFails, Busy, Crash, disk,
       StatDatabase, StatWal, StatShm, Connect, CheckIntegrity, ReadVersion,
       CheckImage, LookAgain, ReadPage, Decide, ReadRows, Begin, ApplyNext, Close,
       Commit, Work, RemoveIndex, RemoveLog
<1>3. since' \in [Command -> 0..Newest']
  <2>1. CASE StatDatabase(c)
    BY <1>1, <2>1 DEF StatDatabase, Past
  <2>2. CASE UNCHANGED since
    BY <1>1, <2>2 DEF Past
  <2> QED
    BY <2>1, <2>2 DEF Moves, Inspect, Mutate, InspectionFails, Busy, Crash, finding,
       StatWal, StatShm, Connect, CheckIntegrity, ReadVersion, CheckImage,
       LookAgain, ReadPage, Decide, ReadRows, Begin, ApplyNext, Close, Commit,
       Work, RemoveIndex, RemoveLog, WriteBack
<1>4. cache' \in [Command -> [Page -> 0..Newest']]
  <2>1. CASE ReadRows(c)
    <3>1. Newest' = Newest
      BY <2>1 DEF ReadRows, disk, Newest
    <3>2. [pg \in Page |-> Newest] \in [Page -> 0..Newest]
      BY <1>1
    <3>3. cache' \in [Command -> [Page -> 0..Newest]]
      BY <2>1, <3>2 DEF ReadRows, Past
    <3> QED
      BY <3>1, <3>3
  <2>2. CASE \E pg \in Page : ReadPage(c, pg)
    <3>1. PICK pg \in Page : cache' = [cache EXCEPT ![c][pg] = file[pg]]
      BY <2>2 DEF ReadPage
    <3>2. file[pg] \in 0..Newest /\ cache[c] \in [Page -> 0..Newest]
      BY <1>1 DEF Past
    <3>3. cache' \in [Command -> [Page -> 0..Newest]]
      BY <3>1, <3>2 DEF Past
    <3>4. Newest' = Newest
      BY <2>2 DEF ReadPage, disk, Newest
    <3> QED
      BY <3>3, <3>4
  <2>3. CASE UNCHANGED cache
    <3>1. 0..Newest \subseteq 0..Newest'
      BY <1>1
    <3> QED
      BY <2>3, <3>1 DEF Past
  <2> QED
    BY <2>1, <2>2, <2>3 DEF Moves, Inspect, Mutate, InspectionFails, Busy, Crash,
       finding, StatDatabase, StatWal, StatShm, Connect, CheckIntegrity,
       ReadVersion, CheckImage, LookAgain, Decide, Begin, ApplyNext, Close, Commit,
       Work, RemoveIndex, RemoveLog, WriteBack
<1>5. DOMAIN verdict' = Command
  BY DEF Past, Moves, Inspect, Mutate, InspectionFails, Busy, Crash, finding,
     Concludes, StatDatabase, StatWal, StatShm, Connect, CheckIntegrity,
     ReadVersion, CheckImage, LookAgain, ReadPage, Decide, ReadRows, Begin,
     ApplyNext, Close, Commit, Work, RemoveIndex, RemoveLog, WriteBack
<1> QED
  BY <1>2, <1>3, <1>4, <1>5 DEF Past

\* Steps of an inspection leave whoever writes or cleans up connected, and
\* alone.
LEMMA JoinedStays ==
  ASSUME IInv, Joined, NEW c \in Command, Moves(c)
  PROVE  Joined'
<1> USE DEF IInv, Shape, Joined, Cleaning, Migrating, disk, finding, Goto, Concludes,
            Disconnect
<1>1. CASE StatDatabase(c) \/ StatWal(c) \/ StatShm(c) \/ CheckIntegrity(c)
  BY <1>1 DEF StatDatabase, StatWal, StatShm, CheckIntegrity
<1>2. CASE Connect(c)
  BY <1>2 DEF Connect, Exclusive
<1>3. CASE ReadVersion(c) \/ CheckImage(c) \/ LookAgain(c) \/ InspectionFails(c)
  BY <1>3 DEF ReadVersion, CheckImage, LookAgain, InspectionFails
<1>4. CASE \E pg \in Page : ReadPage(c, pg) \/ WriteBack(c, pg)
  BY <1>4 DEF ReadPage, WriteBack
<1>5. CASE Decide(c) \/ ReadRows(c)
  <2>1. PICK l \in {"rows", "begin", "done"} : pc' = [pc EXCEPT ![c] = l]
    BY <1>5 DEF Decide, ReadRows
  <2>2. connected' \in {connected, connected \ {c}} /\ wal' = wal
        /\ pc[c] \in {"decide", "rows"}
    BY <1>5 DEF Decide, ReadRows
  <2> QED
    BY <2>1, <2>2
<1>6. CASE Begin(c)
  BY <1>6 DEF Begin, Exclusive
<1>7. CASE ApplyNext(c)
  BY <1>7 DEF ApplyNext
<1>8. CASE Commit(c) \/ Work(c)
  BY <1>8 DEF Commit, Work
<1>9. CASE Busy(c)
  BY <1>9 DEF Busy, Finishes
<1>10. CASE Crash(c)
  BY <1>10 DEF Crash
<1>11. CASE Close(c)
  BY <1>11 DEF Close, Exclusive
<1>12. CASE RemoveIndex(c) \/ RemoveLog(c)
  BY <1>12 DEF RemoveIndex, RemoveLog
<1> QED
  BY <1>1, <1>2, <1>3, <1>4, <1>5, <1>6, <1>7, <1>8, <1>9, <1>10, <1>11, <1>12
     DEF Moves, Inspect, Mutate

\* The log goes only when the file has everything, and only who is connected
\* commits more.
LEMMA WrittenBackStays ==
  ASSUME IInv, Past, Joined, WrittenBack, NEW c \in Command, Moves(c)
  PROVE  WrittenBack'
<1>1. CASE history' # history
  <2>1. pc[c] \in {"applied", "ready"} /\ c \in connected /\ wal
    BY <1>1, HistoryGrows DEF Joined, Migrating
  <2>2. wal' = wal /\ pc' \in [Command -> Inspecting \cup Opening \cup {"done"}]
        /\ pc' = [pc EXCEPT ![c] = pc'[c]] /\ pc'[c] \in {"begin", "close"}
    <3>1. Commit(c) \/ Work(c)
      BY <1>1 DEF Moves, Inspect, Mutate, InspectionFails, Busy, Crash, disk,
         StatDatabase, StatWal, StatShm, Connect, CheckIntegrity, ReadVersion,
         CheckImage, LookAgain, ReadPage, Decide, ReadRows, Begin, ApplyNext,
         Close, WriteBack, RemoveIndex, RemoveLog
    <3> QED
      BY <3>1 DEF Commit, Work, Goto, IInv, Shape, Opening
  <2>3. \A d \in Command : pc[d] # "unlink"
    BY <2>1 DEF Joined, Cleaning
  <2> QED
    BY <2>1, <2>2, <2>3 DEF WrittenBack, IInv, Shape
<1>2. CASE history' = history /\ \E pg \in Page : WriteBack(c, pg)
  BY <1>2 DEF WriteBack, WrittenBack, Past, Newest
<1>3. CASE RemoveIndex(c) \/ RemoveLog(c)
  BY <1>3 DEF RemoveIndex, RemoveLog, WrittenBack, Newest
<1>4. CASE /\ history' = history
           /\ ~(\E pg \in Page : WriteBack(c, pg)) /\ ~RemoveIndex(c) /\ ~RemoveLog(c)
  <2>1. file' = file /\ (wal => wal')
    BY <1>4 DEF Moves, Inspect, Mutate, InspectionFails, Busy, Crash, disk,
       StatDatabase, StatWal, StatShm, Connect, CheckIntegrity, ReadVersion,
       CheckImage, LookAgain, ReadPage, Decide, ReadRows, Begin, ApplyNext, Close,
       Commit, Work
  <2>2. \A d \in Command : pc'[d] = "unlink" => pc[d] = "unlink"
    BY <1>4 DEF Moves, Inspect, Mutate, InspectionFails, Busy, Crash, Goto,
       Concludes, Finishes, IInv, Shape,
       StatDatabase, StatWal, StatShm, Connect, CheckIntegrity, ReadVersion,
       CheckImage, LookAgain, ReadPage, Decide, ReadRows, Begin, ApplyNext, Close,
       Commit, Work
  <2> QED
    BY <1>4, <2>1, <2>2 DEF WrittenBack, Newest
<1> QED
  BY <1>1, <1>2, <1>3, <1>4

\* Between the look that found no log and the bare read, the file only gains.
LEMMA LookedStays ==
  ASSUME IInv, Past, WrittenBack, Looked, NEW c \in Command, Moves(c)
  PROVE  Looked'
<1>1. Newest \in Nat \ {0} /\ Newest' \in Nat
  BY HistoryGrows
<1>2. \A pg \in Page : file[pg] \in 1..Newest /\ file'[pg] >= file[pg]
  <2>1. CASE UNCHANGED file
    BY <1>1, <2>1 DEF Past
  <2>2. CASE \E pg \in Page : WriteBack(c, pg)
    BY <1>1, <2>2 DEF WriteBack, Past
  <2> QED
    BY <2>1, <2>2 DEF Moves, Inspect, Mutate, InspectionFails, Busy, Crash, disk,
       StatDatabase, StatWal, StatShm, Connect, CheckIntegrity, ReadVersion,
       CheckImage, LookAgain, ReadPage, Decide, ReadRows, Begin, ApplyNext, Close,
       Commit, Work, RemoveIndex, RemoveLog
<1>3. ASSUME NEW d \in Command, pc'[d] = "stat"
      PROVE  cache'[d] = Unread /\ verdict'[d] = "none"
  <2>1. d # c /\ pc[d] = "stat"
    BY <1>3 DEF Moves, Inspect, Mutate, InspectionFails, Busy, Crash, Goto, Concludes,
       Finishes, IInv, Shape, Inspecting, Opening,
       StatDatabase, StatWal, StatShm, Connect, CheckIntegrity, ReadVersion,
       CheckImage, LookAgain, ReadPage, Decide, ReadRows, Begin, ApplyNext, Close,
       Commit, Work, WriteBack, RemoveIndex, RemoveLog
  <2>2. cache'[d] = cache[d] /\ verdict'[d] = verdict[d]
    BY <2>1 DEF Moves, Inspect, Mutate, InspectionFails, Busy, Crash, finding,
       Concludes, Past,
       StatDatabase, StatWal, StatShm, Connect, CheckIntegrity, ReadVersion,
       CheckImage, LookAgain, ReadPage, Decide, ReadRows, Begin, ApplyNext, Close,
       Commit, Work, WriteBack, RemoveIndex, RemoveLog
  <2> QED
    BY <2>1, <2>2 DEF Looked
<1>4. ASSUME NEW d \in Command, pc'[d] = "immutable", NEW pg \in Page
      PROVE  file'[pg] >= since'[d]
  <2>1. CASE StatWal(c) /\ d = c
    <3>1. ~wal /\ since' = since /\ file' = file
      BY <1>4, <2>1 DEF StatWal, Goto, IInv, Shape, finding, disk
    <3>2. file[pg] = Newest /\ since[d] \in 0..Newest
      BY <3>1 DEF WrittenBack, Past
    <3> QED
      BY <1>1, <3>1, <3>2
  <2>2. CASE ~(StatWal(c) /\ d = c)
    <3>1. pc[d] = "immutable" /\ since'[d] = since[d]
      BY <1>4, <2>2 DEF Moves, Inspect, Mutate, InspectionFails, Busy, Crash, Goto,
         Concludes, Finishes, IInv, Shape, Past, finding,
         StatDatabase, StatWal, StatShm, Connect, CheckIntegrity, ReadVersion,
         CheckImage, LookAgain, ReadPage, Decide, ReadRows, Begin, ApplyNext, Close,
         Commit, Work, WriteBack, RemoveIndex, RemoveLog
    <3>2. file[pg] >= since[d] /\ since[d] \in 0..Newest /\ file'[pg] \in Int
      BY <1>1, <3>1, PastStays DEF Looked, Past
    <3> QED
      BY <1>1, <1>2, <3>1, <3>2
  <2> QED
    BY <2>1, <2>2
<1>5. ASSUME NEW d \in Command, since'[d] = 0
      PROVE  verdict'[d] = "none" /\ pc'[d] \notin Inspecting \ {"stat"}
  <2>1. since'[d] = since[d]
    BY <1>1, <1>5 DEF Moves, Inspect, Mutate, InspectionFails, Busy, Crash, finding, Past,
       StatDatabase, StatWal, StatShm, Connect, CheckIntegrity, ReadVersion,
       CheckImage, LookAgain, ReadPage, Decide, ReadRows, Begin, ApplyNext, Close,
       Commit, Work, WriteBack, RemoveIndex, RemoveLog
  <2>2. verdict[d] = "none" /\ pc[d] \notin Inspecting \ {"stat"}
    BY <1>5, <2>1 DEF Looked
  <2>3. CASE pc[d] = "stat" /\ d = c
    BY <1>1, <1>5, <2>1, <2>2, <2>3 DEF Moves, Inspect, Mutate, InspectionFails, Busy, Crash,
       Goto, Past, IInv, Shape, finding, Inspecting,
       StatDatabase, StatWal, StatShm, Connect, CheckIntegrity, ReadVersion,
       CheckImage, LookAgain, ReadPage, Decide, ReadRows, Begin, ApplyNext, Close,
       Commit, Work, WriteBack, RemoveIndex, RemoveLog
  <2>4. CASE ~(pc[d] = "stat" /\ d = c)
    BY <1>1, <2>2, <2>4 DEF Moves, Inspect, Mutate, InspectionFails, Busy, Crash,
       Goto, Concludes, Finishes, Past, IInv, Shape, finding, Inspecting,
       StatDatabase, StatWal, StatShm, Connect, CheckIntegrity, ReadVersion,
       CheckImage, LookAgain, ReadPage, Decide, ReadRows, Begin, ApplyNext, Close,
       Commit, Work, WriteBack, RemoveIndex, RemoveLog
  <2> QED
    BY <2>3, <2>4
<1> QED
  BY <1>3, <1>4, <1>5 DEF Looked

\* What the history held since an inspection began it goes on to hold.
Seen(c) == {history[i].version : i \in since[c]..Newest}

\* A schema verdict is of a version that was there, and cannot be outdated by
\* later commits.
LEMMA VerdictsStay ==
  ASSUME IInv, Past, Looked, InspectionIsCurrent, OpeningAssumption,
         NEW c \in Command, Moves(c), NEW d \in Command
  PROVE  /\ verdict'[d] = "pending" => \E v \in Seen(d)' : v < Supports[d]
         /\ verdict'[d] = "future" => \E v \in Seen(d)' : v > Supports[d]
<1>1. /\ Newest \in Nat \ {0} /\ Newest' \in Nat /\ Newest' >= Newest
      /\ \A i \in 1..Newest : history'[i] = history[i]
      /\ since[d] \in 0..Newest
  BY HistoryGrows DEF Past
<1>2. CASE verdict'[d] = verdict[d] /\ since'[d] = since[d]
  <2>1. PICK i \in since[d]..Newest :
          /\ verdict[d] = "pending" => history[i].version < Supports[d]
          /\ verdict[d] = "future" => history[i].version > Supports[d]
    BY <1>1 DEF InspectionIsCurrent
  <2>2. since[d] = 0 => verdict[d] = "none"
    BY DEF Looked
  <2>3. CASE since[d] # 0
    BY <1>1, <1>2, <2>1, <2>3 DEF Seen
  <2> QED
    BY <1>2, <2>2, <2>3
<1>3. CASE StatDatabase(c) /\ d = c
  BY <1>3 DEF StatDatabase, Concludes, Looked, Past
<1>4. CASE ReadVersion(c) /\ d = c
  BY <1>1, <1>4, NewestCommit
     DEF ReadVersion, Concludes, VersionVerdict, Version, Past, Seen, IInv, disk
<1>5. CASE CheckImage(c) /\ d = c
  <2>1. PICK i \in Nat : i = cache[c]["head"]
    BY DEF Past, Page
  <2>2. i \in since[c]..Newest /\ i # 0
    BY <1>1, <1>5, <2>1 DEF CheckImage, Past, Page, InspectionIsCurrent
  <2>3. history' = history /\ since' = since
    BY <1>5 DEF CheckImage, disk
  <2>4. history[i].version \in Seen(d)'
    BY <1>1, <1>5, <2>2, <2>3 DEF Seen, Newest
  <2>5. verdict'[d] \in {VersionVerdict(c, history[i].version), "corrupt"}
    BY <1>5, <2>1 DEF CheckImage, Past
  <2> QED
    BY <1>5, <2>4, <2>5 DEF VersionVerdict
<1>6. CASE LookAgain(c) /\ d = c /\ wal
  BY <1>6 DEF LookAgain, Concludes, Past
<1> QED
  BY <1>2, <1>3, <1>4, <1>5, <1>6 DEF Moves, Inspect, Mutate, InspectionFails, Busy,
     Crash, finding, Concludes, Past,
     StatDatabase, StatWal, StatShm, Connect, CheckIntegrity, ReadVersion,
     CheckImage, LookAgain, ReadPage, Decide, ReadRows, Begin, ApplyNext, Close,
     Commit, Work, WriteBack, RemoveIndex, RemoveLog

\* Pages are read from a file that had every commit when the look was made, or
\* through the log.
LEMMA PagesStayCurrent ==
  ASSUME IInv, Past, Looked, InspectionIsCurrent, NEW c \in Command, Moves(c),
         NEW d \in Command, NEW pg \in Page, cache'[d][pg] # 0
  PROVE  cache'[d][pg] >= since'[d]
<1>1. Newest \in Nat \ {0} /\ since[d] \in 0..Newest /\ cache[d] \in [Page -> 0..Newest]
  BY HistoryGrows DEF Past
<1>2. CASE StatDatabase(c) /\ d = c
  BY <1>2 DEF StatDatabase, Looked, Unread
<1>3. CASE ReadRows(c) /\ d = c /\ c \in connected
  BY <1>1, <1>3 DEF ReadRows, Past
<1>4. CASE (\E q \in Page : ReadPage(c, q)) /\ d = c
  <2>1. PICK q \in Page : cache' = [cache EXCEPT ![c][q] = file[q]]
        /\ pc[c] = "immutable" /\ since' = since
    BY <1>4 DEF ReadPage, finding
  <2> QED
    BY <1>1, <1>4, <2>1 DEF Looked, Past, InspectionIsCurrent
<1>5. CASE cache'[d] = cache[d] /\ since'[d] = since[d]
  BY <1>5 DEF InspectionIsCurrent
<1> QED
  BY <1>2, <1>3, <1>4, <1>5 DEF Moves, Inspect, Mutate, InspectionFails, Busy,
     Crash, finding, Concludes, Past,
     StatDatabase, StatWal, StatShm, Connect, CheckIntegrity, ReadVersion,
     CheckImage, LookAgain, ReadPage, Decide, ReadRows, Begin, ApplyNext, Close,
     Commit, Work, WriteBack, RemoveIndex, RemoveLog

\* A database nobody has open has its log or everything in the file.
LEMMA InspectionStarts ==
  ASSUME Init
  PROVE  InspectionInv
<1>1. IInv
  BY InitIInv, OpeningAssumption
<1>2. Newest \in Nat \ {0}
  BY <1>1, NewestCommit DEF IInv
<1>3. Past
  BY <1>2 DEF Init, Past, Unread
<1>4. Joined /\ Looked
  BY DEF Init, Joined, Looked, Migrating, Cleaning, Inspecting
<1>5. WrittenBack
  BY DEF Init, WrittenBack
<1>6. InspectionIsCurrent
  BY DEF Init, InspectionIsCurrent, Unread
<1> QED
  BY <1>3, <1>4, <1>5, <1>6 DEF InspectionInv

\* An inspection that takes no part in the locking, and may read a file that is
\* being written, still omits nothing committed before it began, and calls no
\* schema old or new that was not so meanwhile (readonly.go OpenReadOnly,
\* walStateOf).
THEOREM InspectionsOmitNothing == Spec => []InspectionIsCurrent
<1>1. Init => InspectionInv
  BY InspectionStarts
<1>2. IInv /\ InspectionInv /\ [Next]_openingVars => InspectionInv'
  <2> SUFFICES ASSUME IInv, InspectionInv, [Next]_openingVars PROVE InspectionInv'
    OBVIOUS
  <2>1. CASE UNCHANGED openingVars
    <3>1. Newest' = Newest
      BY <2>1 DEF openingVars, disk, Newest
    <3>2. Past'
      BY <2>1, <3>1 DEF openingVars, disk, finding, InspectionInv, Past
    <3>3. Joined'
      BY <2>1 DEF openingVars, disk, InspectionInv, Joined
    <3>4. WrittenBack'
      BY <2>1, <3>1 DEF openingVars, disk, InspectionInv, WrittenBack
    <3>5. Looked'
      BY <2>1 DEF openingVars, disk, finding, InspectionInv, Looked
    <3>6. InspectionIsCurrent'
      BY <2>1, <3>1 DEF openingVars, disk, finding, InspectionInv, InspectionIsCurrent
    <3> QED
      BY <3>2, <3>3, <3>4, <3>5, <3>6 DEF InspectionInv
  <2>2. ASSUME NEW c \in Command, Moves(c) PROVE InspectionInv'
    <3>1. Past' /\ Joined' /\ WrittenBack' /\ Looked'
      BY <2>2, PastStays, JoinedStays, WrittenBackStays, LookedStays DEF InspectionInv
    <3>2. InspectionIsCurrent'
      <4>1. ASSUME NEW d \in Command
            PROVE  /\ verdict'[d] = "pending" => \E v \in Seen(d)' : v < Supports[d]
                   /\ verdict'[d] = "future" => \E v \in Seen(d)' : v > Supports[d]
        BY <2>2, VerdictsStay, OpeningAssumption DEF InspectionInv
      <4>2. ASSUME NEW d \in Command, NEW pg \in Page, cache'[d][pg] # 0
            PROVE  cache'[d][pg] >= since'[d]
        BY <2>2, <4>2, PagesStayCurrent DEF InspectionInv
      <4> QED
        BY <4>1, <4>2 DEF InspectionIsCurrent, Seen
    <3> QED
      BY <3>1, <3>2 DEF InspectionInv
  <2> QED
    BY <2>1, <2>2 DEF Next, Moves
<1>3. InspectionInv => InspectionIsCurrent
  BY DEF InspectionInv
<1> QED
  BY <1>1, <1>2, <1>3, OpeningInvariant, PTL DEF Spec
=============================================================================
