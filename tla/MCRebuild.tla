------------------------------ MODULE MCRebuild ------------------------------
(***************************************************************************)
(* Instances of Rebuild.  w1 and w2 are the default and a named session of *)
(* repository r1 at "root".  r2 and r3 are what migration 0002 made of a   *)
(* linked worktree "tree" of it, and of a tree that is "lost" by now: in a *)
(* row of its own, the workspace ID is the repository's.                   *)
(***************************************************************************)
EXTENDS Rebuild, TLC

CONSTANTS r1, r2, r3, w1, w2, p1, p2

MCCandidates == [n \in {"a", "b"} |-> IF n = "a" THEN <<"a", "x">> ELSE <<"b">>]

MCMainOf == [path \in {"root", "tree", "lost", "odd"} |->
               CASE path = "lost" -> "gone"
                 [] path = "odd" -> "unresolvable"
                 [] OTHER -> "root"]

W1 == [id |-> w1, repository_id |-> r1, repo_root |-> "root",
       session |-> "", session_name |-> "a"]
W2 == [id |-> w2, repository_id |-> r1, repo_root |-> "root",
       session |-> "s", session_name |-> "b"]

Siblings == {W1, W2}

Open(ws) == [op |-> "open", ws |-> ws, repo |-> r1, digest |-> "d1", bind |-> NULL,
             container |-> FALSE, force |-> FALSE]

NoTable == [k \in {} |-> NULL]

Row(r, session, name) ==
  [repository_id |-> r, session |-> session, proposed_session |-> "a",
   actual_session |-> name, desired_digest |-> "d0", applied_digest |-> "d0",
   bind |-> NULL]

Database(repositories, workspaces) ==
  [repositories |-> repositories, workspaces |-> workspaces,
   container_bindings |-> NoTable, last_operations |-> NoTable]

At(path) == [repo_root |-> path]

Live(sid, name, id, path, session) ==
  [sid |-> sid, name |-> name, keys |-> [id |-> id, place |-> <<path, session>>]]

\* The database was lost under two live sessions.
Lost == [db |-> Database(NoTable, NoTable),
         sessions |-> {Live(0, "a", w1, "root", ""), Live(1, "b", w2, "root", "s")}]

\* An upgrade: a linked worktree with a live session, and a vanished tree.
Upgraded ==
  [db |-> Database(r2 :> At("tree") @@ r3 :> At("lost"),
                   r2 :> Row(r2, "", "x") @@ r3 :> Row(r3, "", "b")),
   sessions |-> {Live(0, "x", r2, "tree", ""), Live(1, "b", w2, "root", "s")}]

\* An upgrade with two live sessions of one repository, and a path that git
\* does not answer for.
Crowded ==
  [db |-> Database(r2 :> At("tree") @@ r3 :> At("odd"),
                   r2 :> Row(r2, "", "x") @@ r3 :> Row(r3, "", NULL)),
   sessions |-> {Live(0, "x", r2, "tree", ""), Live(1, "b", r1, "root", "")}]

\* Everything is recorded but one name, which an open did not get to adopt.
HalfRecorded ==
  [db |-> Database(r1 :> At("root"),
                   w1 :> Row(r1, "", "a") @@ w2 :> Row(r1, "s", NULL)),
   sessions |-> {Live(0, "a", w1, "root", ""), Live(1, "b", w2, "root", "s")}]

\* An upgrade of a repository that was recorded at its main worktree: its row
\* and its live session carry the old workspace ID; the row may have the name.
Migrated(name) ==
  [db |-> Database(r1 :> At("root"), r1 :> Row(r1, "", name)),
   sessions |-> {Live(0, "a", r1, "root", "")}]

RecoveryScenes ==
  {Lost, Upgraded, Crowded, HalfRecorded, Migrated("a"), Migrated(NULL)}

\* Of UpgradedSessionAdopted.
OnlyMigrated == {Migrated("a")}

OpenCommands == {Open(W1), Open(W2)}
RecoveryLimits == [commands |-> 2, faults |-> 1, crashes |-> 1, acts |-> 1]
=============================================================================
