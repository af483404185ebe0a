-------------------------- MODULE ObservationProofs --------------------------
(***************************************************************************)
(* Proofs about Observation: for any workspaces, names and installations,  *)
(* however often they change while a command looks, what an observation    *)
(* and doctor say is so, and attach connects to its own workspace.         *)
(*                                                                         *)
(* What is said at the end rests on values that were read one by one.  The *)
(* invariant says what each of them still means when the next is read: of  *)
(* which sessions there have been it speaks, that its workspace is         *)
(* recorded or was not while the session lived, and that nobody else can   *)
(* have its name.                                                          *)
(***************************************************************************)
EXTENDS Observation, SequenceTheorems, FiniteSetTheorems, TLAPS

\* Installations are as they are assumed to be at first, also after others have
\* changed them.
Shaped ==
  /\ records \in [Workspace -> Name \cup {NULL}]
  /\ counter \in Nat
  /\ IsFiniteSet(DOMAIN sessions) /\ sessions \in [DOMAIN sessions -> Session]
  /\ \A i \in DOMAIN sessions : i \in Nat /\ i < counter

Apart ==
  /\ \A v, w \in Workspace : records[v] = records[w] /\ records[v] # NULL => v = w
  /\ \A i, j \in DOMAIN sessions : sessions[i].name = sessions[j].name => i = j

\* What is remembered for the properties, in terms of what there is: while the
\* server runs on, an ID is one session's.
Remembered ==
  /\ steady \subseteq DOMAIN sessions
  /\ Seen(sessions) \subseteq been
  /\ \A w \in Workspace : Claims(sessions, w) /\ records[w] = NULL => w \in orphaned
  /\ ~container => gone
  /\ ~renumbered =>
       /\ \A x \in been : x.id \in Nat /\ x.id < counter
       /\ \A x, y \in been : x.id = y.id => x.ws = y.ws
  /\ ~renumbered /\ ~meddled => \A x, y \in been : x.id = y.id => x.name = y.name

\* A workspace, that it is recorded, or was not while it had a session.
Accounted(w) == records[w] # NULL \/ w \in orphaned

\* Unless users interfere, sessions have the names that are recorded.
NamedAsRecorded ==
  ~meddled =>
    \A i \in DOMAIN sessions :
      sessions[i].ws # NULL /\ sessions[i].keys = sessions[i].ws
        => records[sessions[i].ws] = sessions[i].name \/ sessions[i].ws \in orphaned

\* What the observer has of the session it is asking about.
Told(i) == \E s \in live : s.id = i /\ s.name = sessions[i].name /\ s.ws = sessions[i].ws

Value == Name \cup Workspace \cup {NULL}

TypedReading ==
  /\ queue \in Seq(Nat) /\ values \in Seq(Value)
  /\ Len(values) < 3
  /\ values # <<>> => queue # <<>>

Asked ==
  values # <<>> =>
    /\ Head(queue) \in steady =>
         /\ values[1] = sessions[Head(queue)].name
         /\ Len(values) = 2 => values[2] = sessions[Head(queue)].ws
    /\ \E x \in been :
         /\ x.id = Head(queue) /\ x.name = values[1]
         /\ Len(values) = 2 => renumbered \/ values[2] \in {x.ws, NULL}
    /\ Len(values) = 2 /\ values[2] \in Workspace => Accounted(values[2])

Reading ==
  pc = "fields" =>
    /\ TypedReading /\ Asked
    /\ \A i \in steady : (\E k \in 1..Len(queue) : queue[k] = i) \/ Told(i)

\* No session of another workspace has the name of a session that belongs.
Holds(s) ==
  s.ws \in Workspace /\ s.keys = s.ws /\ ~meddled /\ ~renumbered /\ s.ws \notin orphaned
    => /\ records[s.ws] = s.name
       /\ \A i \in DOMAIN sessions : sessions[i].name = s.name => sessions[i].ws = s.ws

Listed ==
  /\ pc \in {"inspect", "records", "list"} => values = <<>> /\ live = {}
  /\ TellsOfOne
  /\ \A s \in live : s.ws \in Workspace => Accounted(s.ws)
  /\ \A s \in live : Holds(s)

Concluded ==
  /\ Judging => MissesNone
  /\ pc = "connect" =>
       /\ command = "attach" /\ subject \in Workspace
       /\ Claimants(subject) # {}
       /\ \A s \in Claimants(subject) : Belongs(s, subject)

\* status and attach have a workspace.
Chosen == command = "attach" => subject \in Workspace

ObservationInv ==
  /\ Chosen /\ Shaped /\ Apart /\ Remembered /\ NamedAsRecorded
  /\ Reading /\ Listed /\ Concluded
  /\ FindingsAreTrue /\ AttachHitsOwn

-----------------------------------------------------------------------------
(* The installation *)

\* What any change by the others comes to: a name is recorded for good, a
\* session keeps its keys, and but for users its name, and a new session has
\* the next ID and, but for users, the name recorded for its workspace.
Moves ==
  /\ Shaped' /\ Apart'
  /\ \A w \in Workspace : records[w] # NULL => records'[w] = records[w]
  /\ counter' >= counter \/ (DOMAIN sessions # {} /\ DOMAIN sessions' = {})
  /\ \A i \in DOMAIN sessions' \cap DOMAIN sessions :
       /\ sessions'[i].ws = sessions[i].ws /\ sessions'[i].keys = sessions[i].keys
       /\ meddled' \/ sessions'[i] = sessions[i]
  /\ \A i \in DOMAIN sessions' \ DOMAIN sessions :
       /\ i = counter
       /\ \/ meddled'
          \/ \E w \in Workspace : /\ records[w] # NULL
                                  /\ sessions'[i] = [name |-> records[w], ws |-> w, keys |-> w]
  /\ meddled => meddled'

\* Registration of a workspace records a name no other has (store.go,
\* AllocateSessionName).
LEMMA RegistrationsMove ==
  ASSUME Shaped, Apart, NEW w \in Workspace, Register(w)
  PROVE  Moves
<1>1. PICK n \in Name : MayAllocate(w, n) /\ records' = [records EXCEPT ![w] = n]
  BY DEF Register
<1>2. UNCHANGED <<sessions, counter, meddled>> /\ records[w] = NULL
  BY DEF Register
<1>3. Shaped'
  BY <1>1, <1>2 DEF Shaped
<1>4. Apart'
  BY <1>1, <1>2 DEF Shaped, Apart, MayAllocate
<1> QED
  BY <1>1, <1>2, <1>3, <1>4 DEF Moves, Shaped

\* A new session takes a free name and the next ID (tmux.go, CreateSession).
LEMMA StartsMove ==
  ASSUME Shaped, Apart, NEW n \in Name, NEW w \in Workspace \cup {NULL}, Starts(n, w)
  PROVE  /\ Shaped' /\ Apart' /\ records' = records /\ counter' >= counter
         /\ DOMAIN sessions' = DOMAIN sessions \cup {counter}
         /\ counter \notin DOMAIN sessions
         /\ \A i \in DOMAIN sessions : sessions'[i] = sessions[i]
         /\ sessions'[counter] = [name |-> n, ws |-> w, keys |-> w]
<1>1. /\ \A i \in DOMAIN sessions : sessions[i].name # n
      /\ sessions' = [i \in DOMAIN sessions \cup {counter} |->
                        IF i \in DOMAIN sessions THEN sessions[i]
                        ELSE [name |-> n, ws |-> w, keys |-> w]]
      /\ counter' = counter + 1 /\ records' = records
  BY DEF Starts
<1>2. counter \notin DOMAIN sessions
  BY DEF Shaped
<1>3. /\ DOMAIN sessions' = DOMAIN sessions \cup {counter}
      /\ \A i \in DOMAIN sessions : sessions'[i] = sessions[i]
      /\ sessions'[counter] = [name |-> n, ws |-> w, keys |-> w]
  BY <1>1, <1>2
<1>4. IsFiniteSet(DOMAIN sessions')
  BY <1>3, FS_AddElement DEF Shaped
<1>5. [name |-> n, ws |-> w, keys |-> w] \in Session
  BY DEF Session
<1>6. sessions' \in [DOMAIN sessions' -> Session]
  BY <1>1, <1>5 DEF Shaped
<1>7. Shaped'
  BY <1>1, <1>3, <1>4, <1>6 DEF Shaped
<1>8. Apart'
  BY <1>1, <1>2, <1>3 DEF Apart
<1>9. counter' >= counter
  BY <1>1 DEF Shaped
<1> QED
  BY <1>1, <1>2, <1>3, <1>7, <1>8, <1>9

\* open creates a session under the recorded name (ensure.go), a user under any.
LEMMA CreationsMove ==
  ASSUME Shaped, Apart, UserStarts \/ \E w \in Workspace : CreateSession(w)
  PROVE  Moves
<1>1. CASE UserStarts
  <2>1. PICK n \in Name : Starts(n, NULL)
    BY <1>1 DEF UserStarts
  <2>2. meddled' /\ counter' >= counter /\ Shaped' /\ Apart'
    BY <1>1, <2>1, StartsMove DEF UserStarts
  <2>3. /\ records' = records /\ DOMAIN sessions' = DOMAIN sessions \cup {counter}
        /\ \A i \in DOMAIN sessions : sessions'[i] = sessions[i]
    BY <2>1, StartsMove
  <2> QED
    BY <2>2, <2>3 DEF Moves
<1>2. ASSUME NEW w \in Workspace, CreateSession(w)
      PROVE  Moves
  <2>1. records[w] \in Name /\ records[w] # NULL /\ Starts(records[w], w)
    BY <1>2 DEF CreateSession, Shaped
  <2>2. meddled' = meddled
    BY <1>2 DEF CreateSession
  <2>3. counter' >= counter /\ Shaped' /\ Apart'
    BY <2>1, StartsMove
  <2>4. /\ records' = records /\ DOMAIN sessions' = DOMAIN sessions \cup {counter}
        /\ \A i \in DOMAIN sessions : sessions'[i] = sessions[i]
        /\ sessions'[counter] = [name |-> records[w], ws |-> w, keys |-> w]
    BY <2>1, StartsMove
  <2> QED
    BY <2>1, <2>2, <2>3, <2>4 DEF Moves
<1> QED
  BY <1>1, <1>2

\* A session that ends may take the server with it (tmux's exit-empty).
LEMMA EndsMove ==
  ASSUME Shaped, Apart, NEW i \in DOMAIN sessions, End(i)
  PROVE  Moves
<1>1. /\ sessions' = [j \in DOMAIN sessions \ {i} |-> sessions[j]]
      /\ counter' = IF DOMAIN sessions = {i} THEN 0 ELSE counter
      /\ UNCHANGED <<records, meddled>>
  BY DEF End
<1>2. IsFiniteSet(DOMAIN sessions')
  BY <1>1, FS_RemoveElement DEF Shaped
<1>3. Shaped'
  BY <1>1, <1>2 DEF Shaped
<1>4. Apart'
  BY <1>1 DEF Apart
<1>5. counter' >= counter \/ (DOMAIN sessions # {} /\ DOMAIN sessions' = {})
  BY <1>1 DEF Shaped
<1>6. /\ DOMAIN sessions' \subseteq DOMAIN sessions
      /\ \A j \in DOMAIN sessions' : sessions'[j] = sessions[j]
  BY <1>1
<1>7. meddled => meddled'
  BY <1>1
<1>8. records' = records
  BY <1>1
<1> QED
  <2>1. \A j \in DOMAIN sessions' \cap DOMAIN sessions :
          /\ sessions'[j].ws = sessions[j].ws /\ sessions'[j].keys = sessions[j].keys
          /\ meddled' \/ sessions'[j] = sessions[j]
    BY <1>6
  <2>2. DOMAIN sessions' \ DOMAIN sessions = {}
    BY <1>6
  <2>3. \A w \in Workspace : records[w] # NULL => records'[w] = records[w]
    BY <1>8
  <2> QED
    BY <1>3, <1>4, <1>5, <1>7, <2>1, <2>2, <2>3, Zenon DEF Moves

\* A user gives a session another free name.
LEMMA RenamesMove ==
  ASSUME Shaped, Apart, NEW i \in DOMAIN sessions, Rename(i)
  PROVE  Moves
<1>1. PICK n \in Name : /\ \A j \in DOMAIN sessions : sessions[j].name # n
                        /\ sessions' = [sessions EXCEPT ![i].name = n]
  BY DEF Rename
<1>2. UNCHANGED <<counter, records>> /\ meddled' = TRUE
  BY DEF Rename
<1>3. /\ DOMAIN sessions' = DOMAIN sessions
      /\ \A j \in DOMAIN sessions :
           sessions'[j] = IF j = i THEN [sessions[i] EXCEPT !.name = n] ELSE sessions[j]
  BY <1>1 DEF Shaped
<1>4. sessions[i] \in Session
  BY DEF Shaped
<1>5. /\ [sessions[i] EXCEPT !.name = n] \in Session
      /\ [sessions[i] EXCEPT !.name = n].name = n
      /\ [sessions[i] EXCEPT !.name = n].ws = sessions[i].ws
      /\ [sessions[i] EXCEPT !.name = n].keys = sessions[i].keys
  BY <1>4 DEF Session
<1>6. sessions' \in [DOMAIN sessions' -> Session]
  BY <1>1, <1>3, <1>5 DEF Shaped
<1>7. Shaped'
  BY <1>2, <1>3, <1>6 DEF Shaped
<1>8. Apart'
  BY <1>1, <1>2, <1>3, <1>5 DEF Apart
<1>9. \A j \in DOMAIN sessions :
        sessions'[j].ws = sessions[j].ws /\ sessions'[j].keys = sessions[j].keys
  BY <1>3, <1>5
<1>10. counter' >= counter
  BY <1>2 DEF Shaped
<1> QED
  BY <1>2, <1>3, <1>7, <1>8, <1>9, <1>10 DEF Moves

\* Whatever the others do comes to that, and is remembered.
LEMMA OthersMove ==
  ASSUME Shaped, Apart, Others
  PROVE  Moves /\ Remembers
<1>1. CASE DockerChanges
  <2>1. UNCHANGED <<sessions, counter, records, meddled>> /\ Remembers
    BY <1>1 DEF DockerChanges
  <2>2. Shaped' /\ Apart'
    BY <2>1 DEF Shaped, Apart
  <2> QED
    BY <2>1, <2>2 DEF Moves, Shaped
<1>2. ASSUME NEW w \in Workspace, Register(w) PROVE Moves /\ Remembers
  BY <1>2, RegistrationsMove DEF Register
<1>3. CASE UserStarts \/ \E w \in Workspace : CreateSession(w)
  BY <1>3, CreationsMove DEF UserStarts, CreateSession, Starts
<1>4. ASSUME NEW i \in DOMAIN sessions, End(i) PROVE Moves /\ Remembers
  BY <1>4, EndsMove DEF End
<1>5. ASSUME NEW i \in DOMAIN sessions, Rename(i) PROVE Moves /\ Remembers
  BY <1>5, RenamesMove DEF Rename, Remembers
<1> QED
  BY <1>1, <1>2, <1>3, <1>4, <1>5 DEF Others

\* What is remembered only grows, but for the sessions that have not changed.
Recalls ==
  /\ been \subseteq been' /\ orphaned \subseteq orphaned'
  /\ gone => gone'
  /\ renumbered => renumbered'
  /\ \A i \in steady' : i \in steady /\ i \in DOMAIN sessions' /\ sessions'[i] = sessions[i]
  /\ UNCHANGED observer

\* What each change adds to what the properties remember of it.
LEMMA RecallsAll ==
  ASSUME Shaped, Remembered, Moves, Remembers
  PROVE  Recalls /\ Remembered'
<1>1. /\ steady' = {i \in steady : i \in DOMAIN sessions' /\ sessions'[i] = sessions[i]}
      /\ been' = been \cup Seen(sessions')
      /\ orphaned' = orphaned \cup
           {w \in Workspace : Claims(sessions', w) /\ records'[w] = NULL}
      /\ gone' = (gone \/ ~container')
      /\ renumbered' = (renumbered \/ (Serving /\ DOMAIN sessions' = {}))
      /\ UNCHANGED observer
  BY DEF Remembers
<1>2. (gone => gone') /\ (~container' => gone')
  BY <1>1
<1>3. renumbered => renumbered'
  BY <1>1
<1>4. Recalls
  BY <1>1, <1>2, <1>3 DEF Recalls
<1>5. /\ steady' \subseteq DOMAIN sessions' /\ Seen(sessions') \subseteq been'
      /\ \A w \in Workspace : Claims(sessions', w) /\ records'[w] = NULL => w \in orphaned'
  BY <1>1
<1>6. ASSUME ~renumbered'
      PROVE  ~renumbered /\ counter' >= counter /\ counter \in Nat /\ counter' \in Nat
  <2>1. ~(DOMAIN sessions # {} /\ DOMAIN sessions' = {})
    BY <1>1, <1>6 DEF Serving
  <2> QED
    BY <1>3, <1>6, <2>1 DEF Moves, Shaped
<1>7. ASSUME NEW j \in DOMAIN sessions
      PROVE  [id |-> j, name |-> sessions[j].name, ws |-> sessions[j].ws] \in been
  BY <1>7 DEF Remembered, Seen
<1>8. ASSUME NEW x \in been', x \notin been
      PROVE  \E j \in DOMAIN sessions' :
               x = [id |-> j, name |-> sessions'[j].name, ws |-> sessions'[j].ws]
  BY <1>1, <1>8 DEF Seen
<1>9. ASSUME ~renumbered', NEW x \in been'
      PROVE  x.id \in Nat /\ x.id < counter'
  <2>1. CASE x \in been
    BY <1>6, <1>9, <2>1 DEF Remembered
  <2>2. CASE x \notin been
    <3>1. x.id \in DOMAIN sessions'
      BY <1>8, <2>2
    <3> QED
      BY <3>1 DEF Moves, Shaped
  <2> QED
    BY <2>1, <2>2
\* A session that is there already has been before, as it is now.
<1>10. ASSUME ~renumbered', NEW x \in been, NEW y \in been', y \notin been, x.id = y.id
       PROVE  x.ws = y.ws /\ (~meddled' => x.name = y.name)
  <2>1. PICK j \in DOMAIN sessions' :
               y = [id |-> j, name |-> sessions'[j].name, ws |-> sessions'[j].ws]
    BY <1>8, <1>10
  <2>2. x.id = j /\ j # counter
    BY <1>6, <1>10, <2>1 DEF Remembered
  <2>3. j \in DOMAIN sessions
    BY <2>2 DEF Moves
  <2>4. /\ sessions'[j].ws = sessions[j].ws
        /\ meddled' \/ sessions'[j] = sessions[j]
    BY <2>3 DEF Moves
  <2> DEFINE z == [id |-> j, name |-> sessions[j].name, ws |-> sessions[j].ws]
  <2>5. z \in been /\ z.id = x.id /\ z.ws = sessions[j].ws /\ z.name = sessions[j].name
    BY <1>7, <2>2, <2>3
  <2>6. ~renumbered /\ (~meddled' => ~meddled)
    BY <1>6, <1>10 DEF Moves
  <2>7. x.ws = z.ws /\ (~meddled' => x.name = z.name)
    BY <2>5, <2>6 DEF Remembered
  <2> QED
    BY <2>1, <2>4, <2>5, <2>7
<1>11. ASSUME ~renumbered', NEW x \in been', NEW y \in been', x.id = y.id
       PROVE  x.ws = y.ws /\ (~meddled' => x.name = y.name)
  <2>1. CASE x \in been /\ y \in been
    <3>1. ~renumbered /\ (~meddled' => ~meddled)
      BY <1>6, <1>11 DEF Moves
    <3> QED
      BY <1>11, <2>1, <3>1 DEF Remembered
  <2>2. CASE x \in been /\ y \notin been
    BY <1>10, <1>11, <2>2
  <2>3. CASE x \notin been /\ y \in been
    BY <1>10, <1>11, <2>3
  <2>4. CASE x \notin been /\ y \notin been
    BY <1>8, <1>11, <2>4
  <2> QED
    BY <2>1, <2>2, <2>3, <2>4
<1> QED
  BY <1>2, <1>4, <1>5, <1>9, <1>11 DEF Remembered

\* Recorded names stay those of the sessions, as long as users name none.
LEMMA NamesStayRecorded ==
  ASSUME Shaped, NamedAsRecorded, Remembered, Moves, Recalls
  PROVE  NamedAsRecorded'
<1> SUFFICES ASSUME ~meddled', NEW i \in DOMAIN sessions',
                    sessions'[i].ws # NULL, sessions'[i].keys = sessions'[i].ws
             PROVE  \/ records'[sessions'[i].ws] = sessions'[i].name
                    \/ sessions'[i].ws \in orphaned'
  BY DEF NamedAsRecorded
<1>1. CASE i \in DOMAIN sessions
  <2>1. sessions'[i] = sessions[i] /\ ~meddled
    BY <1>1 DEF Moves
  <2>2. \/ records[sessions[i].ws] = sessions[i].name
        \/ sessions[i].ws \in orphaned
    BY <1>1, <2>1 DEF NamedAsRecorded
  <2>3. sessions[i] \in Session
    BY <1>1 DEF Shaped
  <2>4. sessions[i].ws \in Workspace
    BY <2>1, <2>3 DEF Session
  <2>5. records[sessions[i].ws] = NULL => sessions[i].ws \in orphaned
    BY <1>1, <2>4 DEF Remembered, Claims
  <2> QED
    BY <2>1, <2>2, <2>4, <2>5 DEF Moves, Recalls
<1>2. CASE i \notin DOMAIN sessions
  BY <1>2 DEF Moves
<1> QED
  BY <1>1, <1>2

\* What is accounted for stays so.
LEMMA AccountedStays ==
  ASSUME Moves, Recalls, NEW w \in Workspace, Accounted(w)
  PROVE  Accounted(w)'
BY DEF Moves, Recalls, Accounted

\* A name that a workspace holds is given to no session of another.
LEMMA HoldsStays ==
  ASSUME Apart, Moves, Recalls, NEW s, Accounted(s.ws), Holds(s)
  PROVE  /\ s.ws \in Workspace /\ s.keys = s.ws /\ ~meddled' /\ ~renumbered'
              /\ s.ws \notin orphaned'
           => /\ records'[s.ws] = s.name
              /\ \A i \in DOMAIN sessions' :
                   sessions'[i].name = s.name => sessions'[i].ws = s.ws
<1> SUFFICES ASSUME s.ws \in Workspace, s.keys = s.ws, ~meddled', ~renumbered',
                    s.ws \notin orphaned'
             PROVE  /\ records'[s.ws] = s.name
                    /\ \A i \in DOMAIN sessions' :
                         sessions'[i].name = s.name => sessions'[i].ws = s.ws
  OBVIOUS
<1>1. ~meddled /\ ~renumbered /\ s.ws \notin orphaned
  BY DEF Moves, Recalls
<1>2. /\ records[s.ws] = s.name /\ records[s.ws] # NULL
      /\ \A i \in DOMAIN sessions : sessions[i].name = s.name => sessions[i].ws = s.ws
  BY <1>1 DEF Holds, Accounted
<1>3. records'[s.ws] = s.name
  BY <1>2 DEF Moves
<1>4. ASSUME NEW i \in DOMAIN sessions', sessions'[i].name = s.name
      PROVE  sessions'[i].ws = s.ws
  <2>1. CASE i \in DOMAIN sessions
    BY <1>2, <1>4, <2>1 DEF Moves
  <2>2. CASE i \notin DOMAIN sessions
    <3>1. PICK w \in Workspace :
            /\ records[w] # NULL
            /\ sessions'[i] = [name |-> records[w], ws |-> w, keys |-> w]
      BY <2>2 DEF Moves
    <3>2. records[w] = records[s.ws]
      BY <1>2, <1>4, <3>1
    <3> QED
      BY <3>1, <3>2 DEF Apart
  <2> QED
    BY <2>1, <2>2
<1> QED
  BY <1>3, <1>4

\* What the observer has found keeps its meaning, whatever the others do.
LEMMA OthersKeep ==
  ASSUME ObservationInv, Others
  PROVE  ObservationInv'
<1> USE DEF ObservationInv
<1>1. Moves /\ Recalls /\ Remembered' /\ Shaped' /\ Apart'
  BY OthersMove, RecallsAll DEF Moves
<1>2. NamedAsRecorded'
  BY <1>1, NamesStayRecorded
<1>3. UNCHANGED <<command, subject, pc, view, read, queue, values, live, failed, probe, attached>>
  BY <1>1 DEF Recalls, observer, finding
<1>4. /\ been \subseteq been' /\ orphaned \subseteq orphaned'
      /\ gone => gone'
      /\ renumbered => renumbered'
      /\ \A i \in steady' : i \in steady /\ sessions'[i] = sessions[i]
  BY <1>1 DEF Recalls
<1>5. meddled => meddled'
  BY <1>1 DEF Moves
<1>6. Reading'
  <2> SUFFICES ASSUME pc = "fields" PROVE Reading'
    BY <1>3 DEF Reading
  <2>1. TypedReading' /\ TypedReading
    BY <1>3 DEF Reading, TypedReading
  <2>2. Asked'
    <3> SUFFICES ASSUME values # <<>> PROVE Asked'
      BY <1>3 DEF Asked
    <3>1. Head(queue) \in steady' =>
            /\ values[1] = sessions'[Head(queue)].name
            /\ Len(values) = 2 => values[2] = sessions'[Head(queue)].ws
      BY <1>4 DEF Reading, Asked
    <3>2. \E x \in been' :
            /\ x.id = Head(queue) /\ x.name = values[1]
            /\ Len(values) = 2 => renumbered' \/ values[2] \in {x.ws, NULL}
      BY <1>4 DEF Reading, Asked
    <3>3. Len(values) = 2 /\ values[2] \in Workspace => Accounted(values[2])'
      <4>1. Len(values) = 2 /\ values[2] \in Workspace => Accounted(values[2])
        BY DEF Reading, Asked
      <4> QED
        BY <1>1, <1>3, <4>1 DEF Moves, Recalls, Accounted
    <3> QED
      BY <1>3, <3>1, <3>2, <3>3 DEF Asked
  <2>3. \A i \in steady : (\E k \in 1..Len(queue) : queue[k] = i) \/ Told(i)
    BY DEF Reading
  <2>4. \A i \in steady' : (\E k \in 1..Len(queue) : queue[k] = i) \/ Told(i)'
    BY <1>3, <1>4, <2>3 DEF Told
  <2> QED
    BY <1>3, <2>1, <2>2, <2>4 DEF Reading
<1>7. Listed'
  <2>1. pc' \in {"inspect", "records", "list"} => values' = <<>> /\ live' = {}
    BY <1>3 DEF Listed
  <2>2. TellsOfOne'
    BY <1>3, <1>4 DEF Listed, TellsOfOne
  <2>3. \A s \in live' : s.ws \in Workspace => Accounted(s.ws)'
    <3>1. \A s \in live : s.ws \in Workspace => Accounted(s.ws)
      BY DEF Listed
    <3> QED
      BY <1>1, <1>3, <3>1 DEF Moves, Recalls, Accounted
  <2>4. ASSUME NEW s \in live'
        PROVE  Holds(s)'
    <3>1. s.ws \in Workspace => Accounted(s.ws) /\ Holds(s)
      BY <1>3 DEF Listed
    <3>2. s.ws \in Workspace /\ s.keys = s.ws /\ ~meddled' /\ ~renumbered'
              /\ s.ws \notin orphaned'
           => /\ records'[s.ws] = s.name
              /\ \A i \in DOMAIN sessions' :
                   sessions'[i].name = s.name => sessions'[i].ws = s.ws
      BY <1>1, <3>1, HoldsStays
    <3> QED
      BY <3>2 DEF Holds
  <2> QED
    BY <2>1, <2>2, <2>3, <2>4 DEF Listed
<1>8. Concluded'
  BY <1>3, <1>4 DEF Concluded, Judging, MissesNone, Claimants, Belongs
<1>9. FindingsAreTrue'
  BY <1>3, <1>4 DEF FindingsAreTrue, Orphans, Claimants
<1>10. AttachHitsOwn'
  BY <1>3, <1>4, <1>5 DEF AttachHitsOwn
<1>11. Chosen'
  BY <1>3 DEF Chosen
<1> QED
  BY <1>1, <1>2, <1>6, <1>7, <1>8, <1>9, <1>10, <1>11

-----------------------------------------------------------------------------
(* The observer *)

\* What an observer's step leaves of the invariant: the installation, and what
\* is remembered of it.
LEMMA LookingLeaves ==
  ASSUME ObservationInv, UNCHANGED <<world, command, subject, ghosts>>
  PROVE  /\ Chosen' /\ Shaped' /\ Apart' /\ Remembered' /\ NamedAsRecorded'
         /\ UNCHANGED <<sessions, counter, records, container, daemon, steady, been,
                        orphaned, gone, renumbered, meddled, command, subject>>
<1>1. UNCHANGED <<sessions, counter, records, container, daemon, steady, been,
                  orphaned, gone, renumbered, meddled, command, subject>>
  BY DEF world, ghosts
<1> QED
  BY <1>1 DEF ObservationInv, Chosen, Shaped, Apart, Remembered, NamedAsRecorded, Seen, Claims

\* Nothing is told yet, or no more of what was told.
LEMMA ListedStays ==
  ASSUME ObservationInv, UNCHANGED <<world, command, subject, ghosts>>,
         live' \in {{}, live},
         pc' \in {"inspect", "records", "list"} => values' = <<>> /\ live' = {}
  PROVE  Listed'
<1>1. UNCHANGED <<sessions, records, been, orphaned, renumbered, meddled>>
  BY LookingLeaves
<1>2. \A s \in live' : s \in live
  OBVIOUS
<1>3. TellsOfOne'
  BY <1>1, <1>2 DEF ObservationInv, Listed, TellsOfOne
<1>4. \A s \in live' : s.ws \in Workspace => Accounted(s.ws)'
  BY <1>1, <1>2 DEF ObservationInv, Listed, Accounted
<1>5. \A s \in live' : Holds(s)'
  BY <1>1, <1>2 DEF ObservationInv, Listed, Holds
<1> QED
  BY <1>3, <1>4, <1>5 DEF Listed

\* The database is read, or what doctor may read of it found out.
LEMMA ReadsKeep ==
  ASSUME ObservationInv, InspectDatabase \/ ReadRecords
  PROVE  ObservationInv'
<1>1. /\ UNCHANGED <<world, command, subject, ghosts>>
      /\ UNCHANGED <<queue, values, live, failed, probe, attached>>
      /\ pc \in {"inspect", "records"} /\ pc' = "list"
  BY DEF InspectDatabase, ReadRecords, Goto
<1>2. Listed'
  BY <1>1, ListedStays DEF ObservationInv, Listed
<1>3. Reading' /\ Concluded'
  BY <1>1 DEF Reading, Concluded, Judging
<1>4. FindingsAreTrue' /\ AttachHitsOwn'
  BY <1>1, LookingLeaves DEF ObservationInv, FindingsAreTrue, AttachHitsOwn
<1> QED
  BY <1>1, <1>2, <1>3, <1>4, LookingLeaves DEF ObservationInv

\* list-sessions gives every session there is.
LEMMA ListingKeeps ==
  ASSUME ObservationInv, ListSessions
  PROVE  ObservationInv'
<1>1. /\ UNCHANGED <<world, command, subject, ghosts>>
      /\ UNCHANGED <<view, read, values, live, failed, probe, attached>>
      /\ pc = "list" /\ pc' = "fields"
  BY DEF ListSessions, Goto
<1> DEFINE n == Cardinality(DOMAIN sessions)
<1>2. PICK ids \in [1..n -> DOMAIN sessions] : IsInjective(ids) /\ queue' = ids
  BY DEF ListSessions
<1>3. IsFiniteSet(DOMAIN sessions) /\ n \in Nat /\ DOMAIN sessions \subseteq Nat
  BY FS_CardinalityType DEF ObservationInv, Shaped
<1>4. IsFiniteSet(1..n) /\ Cardinality(1..n) = n
  BY <1>3, FS_Interval
<1>5. ids \in Injection(1..n, DOMAIN sessions)
  BY <1>2 DEF IsInjective, Injection
<1>6. ids \in Surjection(1..n, DOMAIN sessions)
  BY <1>3, <1>4, <1>5, FS_Injection
<1>7. \A i \in DOMAIN sessions : \E k \in 1..n : ids[k] = i
  BY <1>6 DEF Surjection
<1>8. queue' \in Seq(Nat) /\ Len(queue') = n
  BY <1>2, <1>3, SeqDef
<1>9. values' = <<>> /\ live' = {}
  BY <1>1 DEF ObservationInv, Listed
<1>10. Reading'
  <2>1. TypedReading'
    BY <1>8, <1>9 DEF TypedReading
  <2>2. Asked'
    BY <1>9 DEF Asked
  <2>3. \A i \in steady' : \E k \in 1..Len(queue') : queue'[k] = i
    BY <1>1, <1>2, <1>7, <1>8, LookingLeaves DEF ObservationInv, Remembered
  <2> QED
    BY <2>1, <2>2, <2>3 DEF Reading
<1>11. Listed' /\ Concluded'
  BY <1>1, ListedStays DEF Concluded, Judging
<1>12. FindingsAreTrue' /\ AttachHitsOwn'
  BY <1>1, LookingLeaves DEF ObservationInv, FindingsAreTrue, AttachHitsOwn
<1> QED
  BY <1>1, <1>10, <1>11, <1>12, LookingLeaves DEF ObservationInv

\* The observation fails, and tells of no session.
LEMMA FailuresKeep ==
  ASSUME ObservationInv, UNCHANGED <<world, command, subject, ghosts>>,
         pc \in {"list", "fields"}, pc' = "judge", failed', live' = {},
         UNCHANGED <<view, read, probe, attached>>
  PROVE  ObservationInv'
<1>1. Listed'
  BY ListedStays
<1>2. Reading' /\ Concluded'
  BY DEF Reading, Concluded, Judging
<1>3. FindingsAreTrue' /\ AttachHitsOwn'
  BY LookingLeaves DEF ObservationInv, FindingsAreTrue, AttachHitsOwn
<1> QED
  BY <1>1, <1>2, <1>3, LookingLeaves DEF ObservationInv

\* What display-message printed, without a session nothing (tmux.go, Sessions).
Printed(f) == IF Head(queue) \in DOMAIN sessions THEN sessions[Head(queue)][f] ELSE NULL

Goes(vs) == pc' = "fields" /\ values' = vs /\ UNCHANGED <<queue, live, failed>>

\* The three values are read in turn, and a session without a name ends the
\* observation.
LEMMA FieldsInTurn ==
  ASSUME ObservationInv, ReadField
  PROVE  /\ UNCHANGED <<world, command, subject, ghosts, view, read, probe, attached>>
         /\ pc = "fields" /\ queue # <<>> /\ TypedReading
         /\ \/ pc' = "judge" /\ failed' /\ live' = {}
            \/ values = <<>> /\ Head(queue) \in DOMAIN sessions
               /\ Goes(Append(values, Printed("name")))
            \/ Len(values) = 1 /\ Goes(Append(values, Printed("ws")))
            \/ /\ Len(values) = 2 /\ pc' = "fields" /\ failed' = failed
               /\ live' = live \cup {[id |-> Head(queue), name |-> values[1],
                                      ws |-> values[2], keys |-> Printed("keys")]}
               /\ queue' = Tail(queue) /\ values' = <<>>
<1>1. /\ pc = "fields" /\ queue # <<>> /\ TypedReading
      /\ UNCHANGED <<view, read, probe, attached>>
  BY DEF ReadField, ObservationInv, Reading
<1>4. Len(values) = 0 \/ Len(values) = 1 \/ Len(values) = 2
  <2>1. values \in Seq(Value)
    BY <1>1 DEF TypedReading
  <2>2. Len(values) \in Nat
    BY <2>1, LenProperties
  <2>3. Len(values) < 3
    BY <1>1 DEF TypedReading
  <2>4. \A n \in Nat : n < 3 => n = 0 \/ n = 1 \/ n = 2
    OBVIOUS
  <2> QED
    BY <2>2, <2>3, <2>4, Zenon
<1> DEFINE f == Field[Len(values) + 1]
           value == IF Target = {} THEN NULL ELSE sessions[CHOOSE i \in Target : TRUE][f]
           got == Append(values, value)
<1>2. IF got[1] = NULL THEN Nameless
      ELSE /\ IF Len(got) < Len(Field)
              THEN values' = got /\ UNCHANGED <<queue, live>>
              ELSE /\ live' = live \cup {[id |-> Head(queue), name |-> got[1],
                                          ws |-> got[2], keys |-> got[3]]}
                   /\ queue' = Tail(queue) /\ values' = <<>>
           /\ UNCHANGED failed /\ Goto("fields")
  BY DEF ReadField
<1>3. value = Printed(f)
  BY DEF Target, Printed
<1> HIDE DEF value
<1>5. /\ Len(got) = Len(values) + 1
      /\ got[Len(values) + 1] = value
      /\ \A k \in 1..Len(values) : got[k] = values[k]
  BY <1>1, AppendProperties DEF TypedReading
<1>6. Len(Field) = 3 /\ Field[1] = "name" /\ Field[2] = "ws" /\ Field[3] = "keys"
  BY DEF Field
<1>7. CASE got[1] = NULL
  BY <1>1, <1>2, <1>7 DEF Nameless, Goto
<1>8. CASE got[1] # NULL
  <2>1. UNCHANGED <<world, command, subject, ghosts>> /\ pc' = "fields" /\ failed' = failed
    BY <1>2, <1>8 DEF Goto
  <2>2. CASE Len(values) = 0
    <3>1. values = <<>> /\ value = Printed("name")
      BY <1>1, <1>3, <1>6, <2>2, EmptySeq DEF TypedReading
    <3>2. Head(queue) \in DOMAIN sessions
      BY <1>5, <1>8, <2>2, <3>1 DEF Printed
    <3>3. got = Append(values, Printed("name"))
      BY <3>1
    <3>4. values' = got /\ UNCHANGED <<queue, live>>
      BY <1>2, <1>5, <1>6, <1>8, <2>2
    <3> QED
      BY <1>1, <2>1, <3>1, <3>2, <3>3, <3>4 DEF Goes
  <2>3. CASE Len(values) = 1
    <3>1. value = Printed("ws")
      BY <1>3, <1>6, <2>3
    <3>2. values' = got /\ UNCHANGED <<queue, live>>
      BY <1>2, <1>5, <1>6, <1>8, <2>3
    <3>3. got = Append(values, Printed("ws"))
      BY <3>1
    <3> QED
      BY <1>1, <2>1, <2>3, <3>2, <3>3 DEF Goes
  <2>4. CASE Len(values) = 2
    <3>1. got[1] = values[1] /\ got[2] = values[2] /\ got[3] = Printed("keys")
      BY <1>3, <1>5, <1>6, <2>4
    <3>2. /\ live' = live \cup {[id |-> Head(queue), name |-> got[1],
                                 ws |-> got[2], keys |-> got[3]]}
          /\ queue' = Tail(queue) /\ values' = <<>>
      BY <1>2, <1>5, <1>6, <1>8, <2>4
    <3> QED
      BY <1>1, <2>1, <2>4, <3>1, <3>2
  <2> QED
    BY <1>4, <2>2, <2>3, <2>4
<1> QED
  BY <1>7, <1>8

\* What there has been includes the session asked about, as it is.
LEMMA PresentHasBeen ==
  ASSUME ObservationInv, NEW i \in DOMAIN sessions
  PROVE  /\ [id |-> i, name |-> sessions[i].name, ws |-> sessions[i].ws] \in been
         /\ sessions[i] \in Session
BY DEF ObservationInv, Remembered, Seen, Shaped

\* The first values of a session: the name of one that is there, and a
\* workspace that is accounted for.
LEMMA ReadingOn ==
  ASSUME ObservationInv, UNCHANGED <<world, command, subject, ghosts, view, read, probe, attached>>,
         pc = "fields", queue # <<>>, TypedReading,
         \/ values = <<>> /\ Head(queue) \in DOMAIN sessions /\ Goes(Append(values, Printed("name")))
         \/ Len(values) = 1 /\ Goes(Append(values, Printed("ws")))
  PROVE  ObservationInv'
<1> DEFINE h == Head(queue)
<1>1. pc' = "fields" /\ UNCHANGED <<queue, live, failed>>
  BY DEF Goes
<1>2. UNCHANGED <<sessions, records, steady, been, orphaned, renumbered, subject, command>>
  BY LookingLeaves
<1>3. h \in DOMAIN sessions => sessions[h] \in Session
  BY PresentHasBeen
<1>4. ASSUME values = <<>>, h \in DOMAIN sessions, Goes(Append(values, Printed("name")))
      PROVE  TypedReading' /\ Asked'
  <2>1. values' = <<sessions[h].name>> /\ Len(values') = 1 /\ values'[1] = sessions[h].name
    <3>1. values' = Append(<<>>, sessions[h].name)
      BY <1>4 DEF Goes, Printed
    <3> QED
      BY <3>1
  <2>2. TypedReading'
    BY <1>1, <1>3, <1>4, <2>1 DEF TypedReading, Value, Session
  <2>3. \E x \in been' : x.id = h /\ x.name = sessions[h].name
    <3>1. [id |-> h, name |-> sessions[h].name, ws |-> sessions[h].ws] \in been
      BY <1>4, PresentHasBeen
    <3> QED
      BY <1>2, <3>1
  <2>4. Asked'
    BY <1>1, <1>2, <2>1, <2>3 DEF Asked
  <2> QED
    BY <2>2, <2>4
<1>5. ASSUME Len(values) = 1, Goes(Append(values, Printed("ws")))
      PROVE  TypedReading' /\ Asked'
  <2>1. Printed("ws") = (IF h \in DOMAIN sessions THEN sessions[h].ws ELSE NULL)
    BY DEF Printed
  <2>2. Printed("ws") \in Value
    BY <1>3, <2>1 DEF Session, Value
  <2>3. values' = Append(values, Printed("ws")) /\ values \in Seq(Value) /\ values # <<>>
    BY <1>5, EmptySeq DEF Goes, TypedReading
  <2>4. /\ values' \in Seq(Value) /\ Len(values') = 2
        /\ values'[1] = values[1] /\ values'[2] = Printed("ws")
    <3>1. /\ values' \in Seq(Value) /\ Len(values') = Len(values) + 1
          /\ \A k \in 1..Len(values) : values'[k] = values[k]
          /\ values'[Len(values) + 1] = Printed("ws")
      BY <2>2, <2>3, AppendProperties
    <3> QED
      BY <1>5, <3>1
  <2>5. TypedReading'
    BY <1>1, <2>4 DEF TypedReading
  <2>6. h \in steady => /\ values[1] = sessions[h].name
                        /\ Printed("ws") = sessions[h].ws
    <3>1. steady \subseteq DOMAIN sessions
      BY DEF ObservationInv, Remembered
    <3> QED
      BY <2>1, <2>3, <3>1 DEF ObservationInv, Reading, Asked
  <2>7. \E x \in been : /\ x.id = h /\ x.name = values[1]
                        /\ renumbered \/ Printed("ws") \in {x.ws, NULL}
    <3>1. PICK x \in been : x.id = h /\ x.name = values[1]
      BY <2>3 DEF ObservationInv, Reading, Asked
    <3>2. ASSUME ~renumbered, h \in DOMAIN sessions
          PROVE  sessions[h].ws = x.ws
      <4> DEFINE z == [id |-> h, name |-> sessions[h].name, ws |-> sessions[h].ws]
      <4>1. z \in been /\ z.id = h /\ z.ws = sessions[h].ws
        BY <3>2, PresentHasBeen
      <4> QED
        BY <3>1, <3>2, <4>1 DEF ObservationInv, Remembered
    <3> QED
      BY <2>1, <3>1, <3>2
  <2>8. Printed("ws") \in Workspace => Accounted(Printed("ws"))
    <3> SUFFICES ASSUME Printed("ws") \in Workspace PROVE Accounted(Printed("ws"))
      OBVIOUS
    <3>1. h \in DOMAIN sessions /\ Printed("ws") = sessions[h].ws
      BY <2>1, ObservationAssumption
    <3> QED
      BY <3>1 DEF ObservationInv, Remembered, Claims, Accounted
  <2>9. Asked'
    BY <1>1, <1>2, <2>4, <2>6, <2>7, <2>8 DEF Asked, Accounted
  <2> QED
    BY <2>5, <2>9
<1>6. TypedReading' /\ Asked'
  BY <1>4, <1>5
<1>7. \A i \in steady' : (\E k \in 1..Len(queue') : queue'[k] = i) \/ Told(i)'
  <2>1. \A i \in steady : (\E k \in 1..Len(queue) : queue[k] = i) \/ Told(i)
    BY DEF ObservationInv, Reading
  <2> QED
    BY <1>1, <1>2, <2>1 DEF Told
<1>8. Reading'
  BY <1>6, <1>7 DEF Reading
<1>9. Listed' /\ Concluded'
  BY <1>1, ListedStays DEF Concluded, Judging
<1>10. FindingsAreTrue' /\ AttachHitsOwn'
  BY <1>1, LookingLeaves DEF ObservationInv, FindingsAreTrue, AttachHitsOwn
<1> QED
  BY <1>8, <1>9, <1>10, LookingLeaves DEF ObservationInv

\* A session that has answered to the end, with both keys its workspace's, is
\* the one that has the ID, unless the server was replaced.
LEMMA AnsweredIsThere ==
  ASSUME ObservationInv, pc = "fields", Len(values) = 2, values # <<>>,
         values[2] \in Workspace, Printed("keys") = values[2], ~renumbered
  PROVE  /\ Head(queue) \in DOMAIN sessions
         /\ sessions[Head(queue)].ws = values[2] /\ sessions[Head(queue)].keys = values[2]
         /\ ~meddled => sessions[Head(queue)].name = values[1]
<1> DEFINE h == Head(queue)
<1>1. h \in DOMAIN sessions /\ sessions[h].keys = values[2]
  BY ObservationAssumption DEF Printed
<1>2. PICK x \in been : /\ x.id = h /\ x.name = values[1]
                        /\ renumbered \/ values[2] \in {x.ws, NULL}
  BY DEF ObservationInv, Reading, Asked
<1> DEFINE z == [id |-> h, name |-> sessions[h].name, ws |-> sessions[h].ws]
<1>3. z \in been /\ z.id = h /\ z.name = sessions[h].name /\ z.ws = sessions[h].ws
  BY <1>1, PresentHasBeen
<1>4. values[2] = x.ws
  BY <1>2, ObservationAssumption
<1>5. /\ x.ws = z.ws
      /\ ~meddled => x.name = z.name
  BY <1>2, <1>3 DEF ObservationInv, Remembered
<1> QED
  BY <1>1, <1>2, <1>3, <1>4, <1>5

\* The last value of a session: it is told of as it was.
LEMMA ReadingDone ==
  ASSUME ObservationInv, UNCHANGED <<world, command, subject, ghosts, view, read, probe, attached>>,
         pc = "fields", queue # <<>>, TypedReading,
         Len(values) = 2, pc' = "fields", failed' = failed,
         live' = live \cup {[id |-> Head(queue), name |-> values[1],
                             ws |-> values[2], keys |-> Printed("keys")]},
         queue' = Tail(queue), values' = <<>>
  PROVE  ObservationInv'
<1> DEFINE h == Head(queue)
           new == [id |-> h, name |-> values[1], ws |-> values[2], keys |-> Printed("keys")]
<1>1. UNCHANGED <<sessions, records, steady, been, orphaned, renumbered, meddled,
                  subject, command>>
  BY LookingLeaves
<1>2. values # <<>>
  <2>1. Len(<<>>) = 0
    OBVIOUS
  <2> QED
    BY <2>1
<1>3. /\ queue \in Seq(Nat) /\ Tail(queue) \in Seq(Nat)
      /\ Len(queue) \in Nat /\ Len(Tail(queue)) = Len(queue) - 1
      /\ \A k \in 1..Len(Tail(queue)) : Tail(queue)[k] = queue[k + 1]
      /\ h = queue[1]
  BY HeadTailProperties, LenProperties DEF TypedReading
<1>4. /\ h \in steady => values[1] = sessions[h].name /\ values[2] = sessions[h].ws
      /\ \E x \in been : /\ x.id = h /\ x.name = values[1]
                         /\ renumbered \/ values[2] \in {x.ws, NULL}
      /\ values[2] \in Workspace => Accounted(values[2])
  BY <1>2 DEF ObservationInv, Reading, Asked
<1>5. /\ new.id = h /\ new.name = values[1] /\ new.ws = values[2]
      /\ new.keys = Printed("keys")
      /\ live' = live \cup {new}
  OBVIOUS
<1> HIDE DEF new
<1>6. ASSUME NEW i \in steady'
      PROVE  (\E k \in 1..Len(queue') : queue'[k] = i) \/ Told(i)'
  <2>1. CASE Told(i)
    BY <1>1, <1>5, <2>1 DEF Told
  <2>2. CASE i = h
    BY <1>1, <1>4, <1>5, <1>6, <2>2 DEF Told
  <2>3. ASSUME NEW k \in 1..Len(queue), queue[k] = i, i # h
        PROVE  \E l \in 1..Len(queue') : queue'[l] = i
    <3>1. k # 1
      BY <1>3, <2>3
    <3>2. k - 1 \in 1..Len(Tail(queue)) /\ (k - 1) + 1 = k
      BY <1>3, <3>1
    <3>3. Tail(queue)[k - 1] = queue[k]
      BY <1>3, <3>2
    <3> QED
      BY <2>3, <3>2, <3>3
  <2>4. (\E k \in 1..Len(queue) : queue[k] = i) \/ Told(i)
    BY <1>1, <1>6 DEF ObservationInv, Reading
  <2> QED
    BY <2>1, <2>2, <2>3, <2>4
<1>7. TypedReading' /\ Asked'
  <2>1. Len(values') < 3 /\ values' \in Seq(Value)
    BY EmptySeq
  <2> QED
    BY <1>3, <2>1 DEF TypedReading, Asked
<1>8. Reading'
  BY <1>6, <1>7 DEF Reading
<1>9. TellsOfOne'
  BY <1>1, <1>4, <1>5 DEF ObservationInv, Listed, TellsOfOne
<1>10. \A s \in live' : s.ws \in Workspace => Accounted(s.ws)'
  BY <1>1, <1>4, <1>5 DEF ObservationInv, Listed, Accounted
<1>11. Holds(new)
  <2> SUFFICES ASSUME values[2] \in Workspace, Printed("keys") = values[2],
                      ~meddled, ~renumbered, values[2] \notin orphaned
               PROVE  /\ records[values[2]] = values[1]
                      /\ \A i \in DOMAIN sessions :
                           sessions[i].name = values[1] => sessions[i].ws = values[2]
    BY <1>5 DEF Holds
  <2>1. /\ h \in DOMAIN sessions
        /\ sessions[h].ws = values[2] /\ sessions[h].keys = values[2]
        /\ sessions[h].name = values[1]
    BY <1>2, AnsweredIsThere
  <2>2. records[values[2]] = values[1]
    BY <2>1, ObservationAssumption DEF ObservationInv, NamedAsRecorded
  <2>3. \A i \in DOMAIN sessions : sessions[i].name = values[1] => i = h
    BY <2>1 DEF ObservationInv, Apart
  <2> QED
    BY <2>1, <2>2, <2>3
<1>12. \A s \in live' : Holds(s)'
  BY <1>1, <1>5, <1>11 DEF ObservationInv, Listed, Holds
<1>13. Listed' /\ Concluded'
  BY <1>9, <1>10, <1>12 DEF Listed, Concluded, Judging
<1>14. FindingsAreTrue' /\ AttachHitsOwn'
  BY LookingLeaves DEF ObservationInv, FindingsAreTrue, AttachHitsOwn
<1> QED
  BY <1>8, <1>13, <1>14, LookingLeaves DEF ObservationInv

\* tmux does not answer, or answers for one session after the other.
LEMMA ObservingKeeps ==
  ASSUME ObservationInv, TmuxFails \/ ReadField
  PROVE  ObservationInv'
<1>1. CASE TmuxFails
  BY <1>1, FailuresKeep DEF TmuxFails, Goto
<1>2. CASE ReadField
  <2>1. CASE pc' = "judge" /\ failed' /\ live' = {}
    BY <1>2, <2>1, FieldsInTurn, FailuresKeep
  <2>2. CASE ~(pc' = "judge" /\ failed' /\ live' = {})
    BY <1>2, <2>2, FieldsInTurn, ReadingOn, ReadingDone
  <2> QED
    BY <2>1, <2>2
<1> QED
  BY <1>1, <1>2

\* Once all sessions are read, every steady one has been told of.
LEMMA AllReadKeeps ==
  ASSUME ObservationInv, AllRead
  PROVE  ObservationInv'
<1>1. /\ UNCHANGED <<world, command, subject, ghosts>>
      /\ UNCHANGED <<view, read, queue, values, live, failed, probe, attached>>
      /\ pc = "fields" /\ pc' = "judge" /\ queue = <<>>
  BY DEF AllRead, Goto, finding
<1>2. UNCHANGED <<sessions, steady>>
  BY <1>1, LookingLeaves
<1>3. MissesNone
  <2>1. \A i \in steady : (\E k \in 1..Len(queue) : queue[k] = i) \/ Told(i)
    BY <1>1 DEF ObservationInv, Reading
  <2>2. 1..Len(queue) = {}
    BY <1>1
  <2> QED
    BY <2>1, <2>2 DEF MissesNone, Told
<1>4. Concluded'
  BY <1>1, <1>2, <1>3 DEF Concluded, MissesNone
<1>5. Reading' /\ Listed'
  BY <1>1, ListedStays DEF Reading
<1>6. FindingsAreTrue' /\ AttachHitsOwn'
  BY <1>1, LookingLeaves DEF ObservationInv, FindingsAreTrue, AttachHitsOwn
<1> QED
  BY <1>1, <1>4, <1>5, <1>6, LookingLeaves DEF ObservationInv

\* doctor's findings about sessions are about rows read after the sessions
\* (doctor/sessions.go, orphanedSessions).
LEMMA JudgingSessionsKeeps ==
  ASSUME ObservationInv, JudgeSessions
  PROVE  ObservationInv'
<1>1. /\ UNCHANGED <<world, command, subject, ghosts>>
      /\ UNCHANGED <<view, queue, values, live, failed, probe, attached>>
      /\ pc = "judge" /\ pc' = "probe"
      /\ read' = IF view = "through" THEN records ELSE read
  BY DEF JudgeSessions, Goto
<1>2. UNCHANGED <<sessions, records, steady, orphaned, gone>>
  BY <1>1, LookingLeaves
<1>3. FindingsAreTrue'
  <2>1. ASSUME view = "through", NEW w \in Orphans'
        PROVE  w \in orphaned
    <3>1. w \in Workspace /\ Claimants(w) # {} /\ records[w] = NULL
      BY <1>1, <2>1 DEF Orphans, Claimants
    <3> QED
      BY <3>1 DEF Claimants, ObservationInv, Listed, Accounted
  <2> QED
    BY <1>1, <1>2, <2>1 DEF ObservationInv, FindingsAreTrue
<1>4. Concluded'
  BY <1>1, <1>2 DEF ObservationInv, Concluded, Judging, MissesNone
<1>5. Reading' /\ Listed'
  BY <1>1, ListedStays DEF Reading
<1>6. AttachHitsOwn'
  BY <1>1, LookingLeaves DEF ObservationInv, AttachHitsOwn
<1> QED
  BY <1>1, <1>3, <1>4, <1>5, <1>6, LookingLeaves DEF ObservationInv

\* doctor's finding about the container is docker's answer (doctor/bindings.go).
LEMMA ProbingKeeps ==
  ASSUME ObservationInv, ProbeBinding
  PROVE  ObservationInv'
<1>1. /\ UNCHANGED <<world, command, subject, ghosts>>
      /\ UNCHANGED <<view, read, queue, values, live, failed, attached>>
      /\ pc = "probe" /\ pc' = "done"
  BY DEF ProbeBinding, Goto
<1>2. UNCHANGED <<sessions, container, steady, orphaned, gone, command, subject>>
  BY <1>1, LookingLeaves
<1>3. probe' = "missing" => gone
  BY DEF ProbeBinding, ObservationInv, Remembered
<1>4. Orphans' = Orphans
  BY <1>1, <1>2 DEF Orphans, Claimants
<1>5. FindingsAreTrue'
  BY <1>1, <1>2, <1>3, <1>4 DEF ObservationInv, FindingsAreTrue
<1>6. Concluded'
  BY <1>1, <1>2 DEF ObservationInv, Concluded, Judging, MissesNone
<1>7. Reading' /\ Listed'
  BY <1>1, ListedStays DEF Reading
<1>8. AttachHitsOwn'
  BY <1>1, LookingLeaves DEF ObservationInv, AttachHitsOwn
<1> QED
  BY <1>1, <1>5, <1>6, <1>7, <1>8, LookingLeaves DEF ObservationInv

\* attach goes on with a session that belongs, the others with what they have
\* (cli/attach.go, buildAttach).
LEMMA JudgingSubjectKeeps ==
  ASSUME ObservationInv, JudgeSubject
  PROVE  ObservationInv'
<1>1. /\ UNCHANGED <<world, command, subject, ghosts>>
      /\ UNCHANGED <<view, read, queue, values, live, failed, probe, attached>>
      /\ pc = "judge" /\ pc' \in {"connect", "done"} /\ command # "doctor"
  BY DEF JudgeSubject, Goto, finding
<1>2. UNCHANGED <<sessions, steady, command, subject>>
  BY <1>1, LookingLeaves
<1>3. ASSUME pc' = "connect"
      PROVE  /\ command = "attach" /\ subject \in Workspace
             /\ Claimants(subject) # {}
             /\ \A s \in Claimants(subject) : Belongs(s, subject)
  <2>1. /\ command = "attach" /\ StateOf(subject) = "live"
        /\ \A s \in Claimants(subject) : Belongs(s, subject)
    BY <1>3 DEF JudgeSubject, Goto
  <2> QED
    BY <2>1 DEF StateOf, ObservationInv, Chosen
<1>4. Concluded'
  BY <1>1, <1>2, <1>3 DEF ObservationInv, Concluded, Judging, MissesNone, Claimants, Belongs
<1>5. Reading' /\ Listed'
  BY <1>1, ListedStays DEF Reading
<1>6. FindingsAreTrue' /\ AttachHitsOwn'
  BY <1>1, LookingLeaves
  DEF ObservationInv, FindingsAreTrue, AttachHitsOwn, Orphans
<1> QED
  BY <1>1, <1>4, <1>5, <1>6, LookingLeaves DEF ObservationInv

\* attach connects by name, and nobody else has the name of a session that
\* belongs (cli/attach.go; wiring.go, attachTerminal).
LEMMA ConnectingKeeps ==
  ASSUME ObservationInv, Connect
  PROVE  ObservationInv'
<1>1. /\ UNCHANGED <<world, command, subject, ghosts>>
      /\ UNCHANGED <<view, read, queue, values, live, failed, probe>>
      /\ pc = "connect" /\ pc' = "done"
  BY DEF Connect, Goto
<1>2. UNCHANGED <<sessions, steady, orphaned, gone, renumbered, meddled, command, subject>>
  BY <1>1, LookingLeaves
<1>3. AttachHitsOwn'
  <2> SUFFICES ASSUME attached' # NULL, ~meddled, ~renumbered, subject \notin orphaned
               PROVE  attached'.ws = subject
    BY <1>2 DEF AttachHitsOwn
  <2> DEFINE s == CHOOSE t \in live : t.ws = subject
  <2>1. /\ command = "attach" /\ subject \in Workspace /\ Claimants(subject) # {}
        /\ \A t \in Claimants(subject) : Belongs(t, subject)
    BY <1>1 DEF ObservationInv, Concluded
  <2>2. s \in live /\ s.ws = subject /\ s.keys = subject
    BY <2>1 DEF Claimants, Belongs
  <2> HIDE DEF s
  <2>3. \A i \in DOMAIN sessions : sessions[i].name = s.name => sessions[i].ws = subject
    BY <2>1, <2>2 DEF ObservationInv, Listed, Holds
  <2>4. PICK i \in DOMAIN sessions : sessions[i].name = s.name /\ attached' = sessions[i]
    BY DEF Connect, s
  <2> QED
    BY <2>3, <2>4
<1>4. FindingsAreTrue'
  <2>1. command = "attach"
    BY <1>1 DEF ObservationInv, Concluded
  <2> QED
    BY <1>1, <1>2, <2>1 DEF ObservationInv, FindingsAreTrue, Orphans
<1>5. Concluded'
  BY <1>1, <1>2 DEF ObservationInv, Concluded, Judging, MissesNone
<1>6. Reading' /\ Listed'
  BY <1>1, ListedStays DEF Reading
<1> QED
  BY <1>1, <1>3, <1>4, <1>5, <1>6, LookingLeaves DEF ObservationInv

-----------------------------------------------------------------------------
(* The theorems *)

\* An installation of the start is as it is assumed to be.
LEMMA ObservationAtFirst == Init => ObservationInv
<1> SUFFICES ASSUME Init PROVE ObservationInv
  OBVIOUS
<1>1. PICK start \in Installations : sessions = start.sessions /\ records = start.records
  BY DEF Init
<1>2. /\ records \in [Workspace -> Name \cup {NULL}]
      /\ \A v, w \in Workspace : records[v] = records[w] /\ records[v] # NULL => v = w
      /\ IsFiniteSet(DOMAIN sessions) /\ sessions \in [DOMAIN sessions -> Session]
      /\ \A i \in DOMAIN sessions : i \in Nat /\ i < Cardinality(DOMAIN sessions)
      /\ \A i, j \in DOMAIN sessions : sessions[i].name = sessions[j].name => i = j
      /\ \A i \in DOMAIN sessions :
           sessions[i].ws # NULL /\ sessions[i].keys = sessions[i].ws
             => records[sessions[i].ws] \in {NULL, sessions[i].name}
  BY <1>1, InstallationsAssumption
<1>3. Shaped /\ Apart
  BY <1>2, FS_CardinalityType DEF Init, Shaped, Apart
<1>4. Remembered
  <2>1. been = Seen(sessions) /\ counter = Cardinality(DOMAIN sessions)
    BY DEF Init
  <2>2. \A x \in been : /\ x.id \in DOMAIN sessions
                        /\ x.name = sessions[x.id].name /\ x.ws = sessions[x.id].ws
    BY <2>1 DEF Seen
  <2>3. \A x \in been : x.id \in Nat /\ x.id < counter
    BY <1>2, <2>1, <2>2
  <2>4. \A x, y \in been : x.id = y.id => x.ws = y.ws /\ x.name = y.name
    BY <2>2
  <2>5. /\ steady = DOMAIN sessions /\ gone = ~container
        /\ \A w \in Workspace : Claims(sessions, w) /\ records[w] = NULL => w \in orphaned
    BY DEF Init
  <2> QED
    BY <2>1, <2>3, <2>4, <2>5 DEF Remembered
<1>5. NamedAsRecorded
  <2> SUFFICES ASSUME NEW i \in DOMAIN sessions,
                      sessions[i].ws # NULL, sessions[i].keys = sessions[i].ws
               PROVE  \/ records[sessions[i].ws] = sessions[i].name
                      \/ sessions[i].ws \in orphaned
    BY DEF NamedAsRecorded
  <2>1. sessions[i].ws \in Workspace
    BY <1>2 DEF Session
  <2> QED
    BY <1>2, <1>4, <2>1 DEF Remembered, Claims
<1>6. pc \in {"inspect", "records"} /\ values = <<>> /\ live = {} /\ attached = NULL
      /\ probe = "none"
  BY DEF Init
<1>7. Reading /\ Concluded /\ FindingsAreTrue /\ AttachHitsOwn
  BY <1>6 DEF Reading, Concluded, Judging, FindingsAreTrue, AttachHitsOwn
<1>8. Listed
  BY <1>6 DEF Listed, TellsOfOne
<1>9. Chosen
  BY DEF Init, Chosen
<1> QED
  BY <1>3, <1>4, <1>5, <1>7, <1>8, <1>9 DEF ObservationInv

\* Every step of the observer and of the others keeps the invariant.
LEMMA ObservationStays == Spec => []ObservationInv
<1>1. ObservationInv /\ [Next]_observationVars => ObservationInv'
  <2> SUFFICES ASSUME ObservationInv, [Next]_observationVars PROVE ObservationInv'
    OBVIOUS
  <2>1. CASE UNCHANGED observationVars
    <3>1. UNCHANGED <<sessions, counter, records, container, daemon, events, command,
                      subject, pc, view, read, queue, values, live, failed, probe,
                      attached, steady, been, orphaned, gone, renumbered, meddled>>
      BY <2>1 DEF observationVars, world, observer, finding, ghosts
    <3>2. UNCHANGED <<world, command, subject, ghosts>>
      BY <3>1 DEF world, ghosts
    <3>3. Reading' /\ Concluded' /\ FindingsAreTrue' /\ AttachHitsOwn'
      BY <3>1 DEF ObservationInv, Reading, TypedReading, Asked, Accounted, Told, Concluded,
                  Judging, MissesNone, Claimants, Belongs, FindingsAreTrue, Orphans,
                  AttachHitsOwn
    <3>4. Listed'
      BY <3>1, <3>2, ListedStays DEF ObservationInv, Listed
    <3> QED
      BY <3>2, <3>3, <3>4, LookingLeaves DEF ObservationInv
  <2>2. CASE Others
    BY <2>2, OthersKeep
  <2>3. CASE Observe
    BY <2>3, ReadsKeep, ListingKeeps, ObservingKeeps, AllReadKeeps, JudgingSessionsKeeps,
       JudgingSubjectKeeps, ProbingKeeps, ConnectingKeeps DEF Observe
  <2> QED
    BY <2>1, <2>2, <2>3 DEF Next
<1> QED
  BY <1>1, ObservationAtFirst, PTL DEF Spec

\* An observation misses no session that was there all along, and mixes no two
\* while the server runs on, whatever happens between its calls (tmux.go,
\* Sessions).
THEOREM ObservationsAreTrue == Spec => []ObservationIsTrue
<1>1. ObservationInv => ObservationIsTrue
  BY DEF ObservationInv, Listed, Concluded, ObservationIsTrue
<1> QED
  BY <1>1, ObservationStays, PTL

\* doctor calls no session orphaned that was registered all along, and no
\* container gone that was there (doctor/sessions.go, doctor/bindings.go).
THEOREM DoctorFindsTruth == Spec => []FindingsAreTrue
<1>1. ObservationInv => FindingsAreTrue
  BY DEF ObservationInv
<1> QED
  BY <1>1, ObservationStays, PTL

\* attach never connects to another workspace's session, unless users name
\* sessions, the server is replaced or a record is lost (cli/attach.go).
THEOREM AttachesHitTheirOwn == Spec => []AttachHitsOwn
<1>1. ObservationInv => AttachHitsOwn
  BY DEF ObservationInv
<1> QED
  BY <1>1, ObservationStays, PTL
=============================================================================
