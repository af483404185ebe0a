---------------------------- MODULE MCController -----------------------------
(***************************************************************************)
(* Instances of Controller.  w1 and w2 are the default and a named session *)
(* of repository r1; w3 is the default session of a repository r2 of the   *)
(* same slug, so that it proposes the same tmux name as w1.                *)
(***************************************************************************)
EXTENDS Controller, TLC

CONSTANTS r1, r2, w1, w2, w3, c1, c2, p1, p2

MCCandidates == [n \in {"a", "b"} |-> IF n = "a" THEN <<"a", "x">> ELSE <<"b">>]

W1 == [id |-> w1, repository_id |-> r1, repo_root |-> "root",
       session |-> "", session_name |-> "a"]
W2 == [id |-> w2, repository_id |-> r1, repo_root |-> "root",
       session |-> "s", session_name |-> "b"]
W3 == [id |-> w3, repository_id |-> r2, repo_root |-> "root2",
       session |-> "", session_name |-> "a"]

Siblings == {W1, W2}
Namesakes == {W1, W3}

\* Written out, since TLC cannot value a constant of module Store through Store.
NoTable == [k \in {} |-> NULL]
FromScratch ==
  {[repositories |-> NoTable, workspaces |-> NoTable,
    container_bindings |-> NoTable, last_operations |-> NoTable]}

Symmetric == Permutations(Process)
SymmetricContainers == Symmetric \cup Permutations(Container)

Command(op, ws) ==
  [op |-> op, ws |-> ws, repo |-> IF ws = NULL THEN r1 ELSE ws.repository_id,
   digest |-> IF op = "open" THEN "d1" ELSE NULL,
   bind |-> NULL, container |-> FALSE, force |-> FALSE]

Open(ws) == Command("open", ws)
Stop(ws) == Command("stop", ws)
StopContainer(ws) == [Stop(ws) EXCEPT !.container = TRUE]
ForceStop(ws) == [StopContainer(ws) EXCEPT !.force = TRUE]
BindTo(ws, b) == [Command("bind", ws) EXCEPT !.bind = b]
Autostart == Command("autostart", NULL)

\* Sessions without containers, and users at tmux.
SessionCommands == {Open(W1), Open(W3), Stop(W1)}
TmuxActs == {"kill", "rename", "occupy", "retag", "lose database"}
SessionLimits == [commands |-> 3, faults |-> 0, crashes |-> 0, acts |-> 2]

\* The shared container: every kind of command, and a user at docker or tmux.
ContainerCommands ==
  {[Open(W1) EXCEPT !.container = TRUE], Open(W2), StopContainer(W1),
   ForceStop(W2), Autostart}
ContainerActs == {"rename", "docker start", "docker stop", "docker rm"}
ContainerLimits == [commands |-> 3, faults |-> 1, crashes |-> 1, acts |-> 1]

\* Nothing fails and nobody interferes, but processes die.
CrashCommands == {Open(W1), [Open(W2) EXCEPT !.bind = "dir"], StopContainer(W1),
                  BindTo(W2, "dir"), Autostart}
CrashLimits == [commands |-> 3, faults |-> 0, crashes |-> 2, acts |-> 0]

Owners == [c \in Container |-> r1]
=============================================================================
