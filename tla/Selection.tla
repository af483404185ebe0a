------------------------------ MODULE Selection ------------------------------
(***************************************************************************)
(* How a command finds the session it is about, and the directory that     *)
(* session opens in (internal/target, internal/resolve, internal/bindpath, *)
(* internal/cli/bind.go and open.go; controller: SetBind and Ensure).      *)
(*                                                                         *)
(* <repo>/<session> and <repo> name it; a bare command takes the deepest   *)
(* bind around the working directory.  A bind is recorded relative to the  *)
(* repository root and resolved whenever it is used, while directories     *)
(* are replaced by links, removed or moved, and others bind.  Containers,  *)
(* tmux and the rest of the record are module Controller's, the ways the   *)
(* database may fail to open module Opening's.                             *)
(*                                                                         *)
(* A path is the sequence of its names; a bind of <<>> is the root, ".".   *)
(***************************************************************************)
EXTENDS Naturals, Sequences, SequencesExt, FiniteSets, FiniteSetsExt

CONSTANTS
  Process,      \* commands
  Place,        \* the paths at which there may be something
  Trees,        \* file trees to begin with
  Roots,        \* repository_roots
  Targets,      \* target arguments, split at the slashes
  Cwds,         \* working directories, as the shell spells them
  Paths,        \* path arguments, as given: [abs, parts]
  Recorded,     \* what earlier commands may have recorded
  Changes,      \* what users may make of a place: <<place, node>>
  Moves,        \* where users may move a repository: <<from, to>>
  MaxEdits,     \* how often they do either
  NULL          \* no path, no bind, no holder

ASSUME SelectionAssumption == MaxEdits \in Nat

VARIABLES
  tree,     \* what is at each place: [kind, to]
  records,  \* the bind of each recorded session
  lock,     \* the holder of each session's lock
  pc,       \* where each command is
  cmd,      \* its operation, arguments and working directory, and the edits before it
  ws,       \* the session it has resolved to: <<repository root, session>>
  rows,     \* the records a bare command has read
  bind,     \* the bind it will record
  base,     \* the directory it renders windows in, and the bind that gave it
  exit,     \* its exit code
  edits     \* how often users have changed the tree

progress == <<pc, cmd, ws, rows, bind, base, exit>>
users == <<tree, edits>>
selectionVars == <<users, records, lock, progress>>

Root(w) == w[1]
Session(w) == w[2]
Default == ""

-----------------------------------------------------------------------------
\* The file system.  "main" and "linked" are directories too: the root of a
\* repository, and a linked worktree of the one at `to`; "link" is a symlink.

Nothing == [kind |-> "none", to |-> NULL]
Node(path) == IF path \in Place THEN tree[path] ELSE Nothing
IsDir(path) == path = <<>> \/ Node(path).kind \in {"dir", "main", "linked"}

\* EvalSymlinks and the check for a directory: NULL where either fails.
canonicalize(path) ==
  LET Follow[n \in 0..Cardinality(Place), p \in Seq(STRING)] ==
        IF p = <<>> THEN <<>>
        ELSE LET dir == Follow[n, Front(p)]
                 here == Append(dir, Last(p))
             IN CASE dir = NULL -> NULL
                  [] dir # NULL /\ IsDir(here) -> here
                  [] dir # NULL /\ Node(here).kind = "link" /\ n > 0 ->
                       Follow[n - 1, Node(here).to]
                  [] OTHER -> NULL
  IN Follow[Cardinality(Place), path]

Encloses(dir, path) == IsPrefix(dir, path)

\* filepath.Abs: ".." is resolved by name alone, before any link is followed.
Abs(cwd, arg) ==
  FoldLeft(LAMBDA p, part :
             IF part # ".." THEN Append(p, part) ELSE IF p = <<>> THEN p ELSE Front(p),
           IF arg.abs THEN <<>> ELSE cwd, arg.parts)

\* git's answer for the nearest tree around a canonical path, if it has one.
mainWorktree(path) ==
  LET around == {i \in 1..Len(path) :
                   Node(SubSeq(path, 1, i)).kind \in {"main", "linked"}}
      top == SubSeq(path, 1, Max(around))
      main == IF Node(top).kind = "main" THEN top ELSE canonicalize(Node(top).to)
  IN IF around # {} /\ main # NULL /\ Node(main).kind = "main" THEN main ELSE path

-----------------------------------------------------------------------------
\* bindpath.

\* Mutant: containment was checked when the bind was recorded.
ResolveTrusting(repoRoot, rel) ==
  IF canonicalize(repoRoot) = NULL THEN NULL
  ELSE canonicalize(canonicalize(repoRoot) \o rel)

Resolve(repoRoot, rel) ==
  LET root == canonicalize(repoRoot)
      resolved == canonicalize(root \o rel)
  IN IF root # NULL /\ resolved # NULL /\ Encloses(root, resolved)
     THEN resolved ELSE NULL

\* Mutant: the path is kept as it was spelled.
RelAsTyped(repoRoot, path) ==
  IF canonicalize(path) # NULL /\ Encloses(repoRoot, path)
  THEN SubSeq(path, Len(repoRoot) + 1, Len(path)) ELSE NULL

Rel(repoRoot, path) ==
  LET root == canonicalize(repoRoot)
      resolved == canonicalize(path)
  IN IF root # NULL /\ resolved # NULL /\ Encloses(root, resolved)
     THEN SubSeq(resolved, Len(root) + 1, Len(resolved)) ELSE NULL

-----------------------------------------------------------------------------
\* target.Parse and resolve.byName.

Malformed(target) == Len(target) > 2 \/ \E i \in 1..Len(target) : target[i] \in {"", "?"}
Present(target) == target # <<>>
SessionOf(target) == IF Len(target) = 2 THEN target[2] ELSE Default

\* A name is one literal component: "*" stands for a pattern.
Literal(name) == name \notin {".", "..", "*"}
Candidates(name) ==
  {canonicalize(Append(r, name)) : r \in IF Literal(name) THEN Roots ELSE {}} \ {NULL}

\* The sessions of a repository whose bind, as it resolves now, is around a
\* directory.
BoundAt(repoRoot, read, s) == Resolve(repoRoot, read[<<repoRoot, s>>])
Around(repoRoot, read, dir) ==
  LET binding == {w \in DOMAIN read : Root(w) = repoRoot /\ read[w] # NULL}
      at(s) == BoundAt(repoRoot, read, s)
  IN {s \in {Session(w) : w \in binding} : at(s) # NULL /\ Encloses(at(s), dir)}

\* Mutant: any bind around it will do.
ClaimsAny(repoRoot, read, dir) == Around(repoRoot, read, dir)

\* The deepest of them, counted in components.
Claims(repoRoot, read, dir) ==
  LET depth(s) == Len(BoundAt(repoRoot, read, s))
      around == Around(repoRoot, read, dir)
  IN {s \in around : \A t \in around : depth(t) <= depth(s)}

-----------------------------------------------------------------------------

Init ==
  /\ tree \in Trees
  /\ records \in Recorded
  /\ lock = [w \in {} |-> NULL]
  /\ pc = [p \in Process |-> "start"]
  /\ cmd = [p \in Process |-> NULL]
  /\ ws = [p \in Process |-> NULL]
  /\ rows = [p \in Process |-> <<>>]
  /\ bind = [p \in Process |-> NULL]
  /\ base = [p \in Process |-> NULL]
  /\ exit = [p \in Process |-> NULL]
  /\ edits = 0

Goto(p, l) == pc' = [pc EXCEPT ![p] = l] /\ UNCHANGED exit
Exit(p, code) == pc' = [pc EXCEPT ![p] = "done"] /\ exit' = [exit EXCEPT ![p] = code]
Bare(p) == ~Present(cmd[p].target)

\* bind's path argument, or none, or --clear; and open's --cwd, or none.
Given(arg) == [bind |-> "set", path |-> arg]
Here == Given([abs |-> FALSE, parts |-> <<>>])
Clear == [bind |-> "clear", path |-> NULL]
Keep == [bind |-> "keep", path |-> NULL]
Options == [bind |-> {Given(a) : a \in Paths} \cup {Here, Clear},
            open |-> {Given(a) : a \in Paths} \cup {Keep}]

\* The directory an argument names.
Typed(p) == Abs(cmd[p].cwd, cmd[p].option.path)

Start(p) ==
  /\ pc[p] = "start"
  /\ \E op \in {"open", "bind"}, target \in Targets, cwd \in Cwds :
       \E option \in Options[op] :
         /\ op = "bind" => Present(target)
         /\ canonicalize(cwd) # NULL
         /\ cmd' = [cmd EXCEPT ![p] = [op |-> op, target |-> target, cwd |-> cwd,
                                       option |-> option, since |-> edits]]
         /\ IF Malformed(target) THEN Exit(p, 2) ELSE Goto(p, "resolve")
  /\ UNCHANGED <<users, records, lock, ws, rows, bind, base>>

\* resolve.Resolve: the repository named, or the one around the working
\* directory.
ResolveRepository(p) ==
  /\ pc[p] = "resolve"
  /\ LET target == cmd[p].target
         found == IF Bare(p) THEN {canonicalize(cmd[p].cwd)} ELSE Candidates(target[1])
     IN IF Cardinality(found) = 1 /\ found # {NULL}
        THEN /\ \E dir \in found :
                  ws' = [ws EXCEPT ![p] = <<mainWorktree(dir), SessionOf(target)>>]
             /\ Goto(p, IF Bare(p) THEN "read" ELSE "argument")
        ELSE /\ Exit(p, IF Bare(p) THEN 1 ELSE IF found = {} THEN 4 ELSE 3)
             /\ UNCHANGED ws
  /\ UNCHANGED <<users, records, lock, cmd, rows, bind, base>>

\* sessionForCwd: the records; or a database that cannot be read, which no
\* default session papers over.
ReadRecords(p) ==
  /\ pc[p] = "read"
  /\ \/ rows' = [rows EXCEPT ![p] = records] /\ Goto(p, "match")
     \/ Exit(p, 1) /\ UNCHANGED rows
  /\ UNCHANGED <<users, records, lock, cmd, ws, bind, base>>

\* The working directory is brought to the form binds have, through Rel and
\* back; one outside the repository gets the default session.
MatchBinds(p) ==
  /\ pc[p] = "match"
  /\ LET root == Root(ws[p])
         rel == Rel(root, cmd[p].cwd)
         claims == IF rel = NULL \/ Resolve(root, rel) = NULL THEN {}
                   ELSE Claims(root, rows[p], Resolve(root, rel))
     IN IF Cardinality(claims) > 1
        THEN Exit(p, 3) /\ UNCHANGED ws
        ELSE /\ ws' = [ws EXCEPT ![p] = <<root, IF claims = {} THEN Default
                                                ELSE CHOOSE s \in claims : TRUE>>]
             /\ Goto(p, "argument")
  /\ UNCHANGED <<users, records, lock, cmd, rows, bind, base>>

\* bindArgument, and --cwd: a path that cannot be bound is bad usage.
Argument(p) ==
  /\ pc[p] = "argument"
  /\ LET sets == cmd[p].option.bind = "set"
         rel == IF sets THEN Rel(Root(ws[p]), Typed(p)) ELSE NULL
     IN /\ bind' = [bind EXCEPT ![p] = rel]
        /\ IF sets /\ rel = NULL THEN Exit(p, 2) ELSE Goto(p, "lock")
  /\ UNCHANGED <<users, records, lock, cmd, ws, rows, base>>

Free(w) == [v \in DOMAIN lock \ {w} |-> lock[v]]

\* lockPhases: the session's lock, or a timeout.
AcquireLock(p) ==
  /\ pc[p] = "lock"
  /\ IF ws[p] \in DOMAIN lock
     THEN Exit(p, 1) /\ UNCHANGED lock
     ELSE /\ lock' = [v \in DOMAIN lock \cup {ws[p]} |-> IF v = ws[p] THEN p ELSE lock[v]]
          /\ Goto(p, "record")
  /\ UNCHANGED <<users, records, cmd, ws, rows, bind, base>>

\* SetBind, or what Ensure writes before it observes anything: the session is
\* registered if it is not, and its bind set, cleared or kept.
Record(p) ==
  /\ pc[p] = "record"
  /\ records' = [w \in DOMAIN records \cup {ws[p]} |->
                   IF w # ws[p] THEN records[w]
                   ELSE IF cmd[p].option = Keep
                   THEN IF w \in DOMAIN records THEN records[w] ELSE NULL
                   ELSE bind[p]]
  /\ IF cmd[p].op = "bind"
     THEN lock' = Free(ws[p]) /\ Exit(p, 0)
     ELSE Goto(p, "render") /\ UNCHANGED lock
  /\ UNCHANGED <<users, cmd, ws, rows, bind, base>>

\* resolveBindBase: an unusable bind is neither followed nor fatal.
Render(p) ==
  /\ pc[p] = "render"
  /\ LET root == Root(ws[p])
         recorded == records[ws[p]]
         host == IF recorded = NULL THEN NULL ELSE Resolve(root, recorded)
     IN base' = [base EXCEPT ![p] =
                   [host |-> IF host = NULL THEN root ELSE host,
                    rel |-> IF host = NULL THEN <<>> ELSE recorded,
                    from |-> recorded,
                    inside |-> canonicalize(root)]]
  /\ Goto(p, "create")
  /\ UNCHANGED <<users, records, lock, cmd, ws, rows, bind>>

\* The session is created, or creation fails, and the lock given back.
Create(p) ==
  /\ pc[p] = "create"
  /\ \E code \in {0, 1} : Exit(p, code)
  /\ lock' = Free(ws[p])
  /\ UNCHANGED <<users, records, cmd, ws, rows, bind, base>>

-----------------------------------------------------------------------------
\* Users, at any moment.

Edited == edits < MaxEdits /\ edits' = edits + 1

Change(place, node) ==
  /\ Edited
  /\ tree[place] # node
  /\ tree' = [tree EXCEPT ![place] = node]
  /\ UNCHANGED <<records, lock, progress>>

\* A repository is renamed with all that is in it; what pointed at it does not
\* follow.
Move(from, to) ==
  /\ Edited
  /\ Node(from).kind = "main" /\ Node(to).kind = "none"
  /\ tree' = [q \in Place |->
                IF IsPrefix(to, q) THEN Node(from \o SubSeq(q, Len(to) + 1, Len(q)))
                ELSE IF IsPrefix(from, q) THEN Nothing ELSE tree[q]]
  /\ UNCHANGED <<records, lock, progress>>

Step(p) ==
  \/ Start(p) \/ ResolveRepository(p) \/ ReadRecords(p) \/ MatchBinds(p)
  \/ Argument(p) \/ AcquireLock(p) \/ Record(p) \/ Render(p) \/ Create(p)

Next ==
  \/ \E p \in Process : Step(p)
  \/ \E c \in Changes : Change(c[1], c[2])
  \/ \E m \in Moves : Move(m[1], m[2])

Spec == Init /\ [][Next]_selectionVars

-----------------------------------------------------------------------------
\* The sessions recorded under `owner` whose bind is the nearest directory
\* above `dir`, found by walking up from it.
Nearest(root, owner, read, dir) ==
  LET bound(i) == {Session(w) : w \in {v \in DOMAIN read :
                     /\ Root(v) = owner /\ read[v] # NULL
                     /\ Resolve(root, read[v]) = SubSeq(dir, 1, i)}}
      levels == {i \in 0..Len(dir) : bound(i) # {}}
  IN IF dir = NULL THEN {} ELSE IF levels = {} THEN {} ELSE bound(Max(levels))

Inside(root, dir) ==
  canonicalize(root) # NULL /\ dir # NULL /\ Encloses(canonicalize(root), dir)

(***************************************************************************)
(* A bare command gets the session bound to the nearest directory above    *)
(* the one it runs in, however that is spelled, the default session if     *)
(* there is none, and no session if two are bound there (select.go:25-29). *)
(***************************************************************************)
BareSelectsDeepest ==
  [][\A p \in Process : pc[p] = "match" /\ pc'[p] # "match" =>
       LET root == Root(ws[p])
           dir == canonicalize(cmd[p].cwd)
           nearest == IF Inside(root, dir) THEN Nearest(root, root, rows[p], dir) ELSE {}
       IN CASE Cardinality(nearest) = 0 -> ws'[p] = <<root, Default>> /\ pc'[p] # "done"
            [] Cardinality(nearest) = 1 -> Session(ws'[p]) \in nearest /\ pc'[p] # "done"
            [] OTHER -> exit'[p] = 3]_selectionVars

(***************************************************************************)
(* The windows of a session are built from the bind that is recorded when  *)
(* it is created, "no window is ever built from a bind that changed        *)
(* underneath it" (ensure.go:101-106), and in a directory that lay inside  *)
(* the repository when it was looked up, whatever the path has become      *)
(* (bindpath.go:3-7).                                                      *)
(***************************************************************************)
OpensWhereBound ==
  \A p \in Process : pc[p] = "create" =>
    /\ records[ws[p]] = base[p].from
    /\ \/ base[p].host = Root(ws[p])
       \/ base[p].inside # NULL /\ Encloses(base[p].inside, base[p].host)

(***************************************************************************)
(* While nobody edits the tree, any directory of the repository can be     *)
(* bound, however it is spelled, and once bound it is the session's: a     *)
(* command in it is about that session, or one bound to the same place.    *)
(* A relative argument is read against the working directory, as the code  *)
(* does and docs/commands.md:481-483 says; the help of bind says that it   *)
(* is "interpreted relative to the repository root" (bind.go:20-21).       *)
(***************************************************************************)
BindClaimsDirectory ==
  [][\A p \in Process : cmd[p] # NULL =>
       (cmd[p].option.bind = "set" /\ cmd[p].since = edits =>
         LET dir == canonicalize(Typed(p)) IN
         /\ pc[p] = "argument" /\ Inside(Root(ws[p]), dir) => exit'[p] # 2
         /\ pc[p] = "record" /\ pc'[p] # "record" =>
              Session(ws[p]) \in Nearest(Root(ws[p]), Root(ws[p]), records', dir))]_selectionVars
=============================================================================
