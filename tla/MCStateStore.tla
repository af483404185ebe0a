---------------------------- MODULE MCStateStore -----------------------------
(***************************************************************************)
(* Two sessions of one repository, and three places to start from: nothing *)
(* recorded, a database migration 0002 has just rewritten (the default     *)
(* session still carries its schema 1 ID, the same digest as its           *)
(* repository's), and one whose repository is recorded at the same root    *)
(* under an ID of another spelling.  The two proposed names share their    *)
(* numbered variant, so a scan can run dry.                                *)
(***************************************************************************)
EXTENDS StateStore, TLC

CONSTANTS r1, r0, w1, w2, c1, c2

MCCandidates == [n \in {"a", "b"} |-> <<n, "x">>]

Default == [id |-> w1, repository_id |-> r1, repo_root |-> "root",
            session |-> "", session_name |-> "a"]
Named == [id |-> w2, repository_id |-> r1, repo_root |-> "root",
          session |-> "s", session_name |-> "b"]

MCResolvable == {Default, Named}

OldRow(r) == [repository_id |-> r, session |-> "", proposed_session |-> "a",
              actual_session |-> "a", desired_digest |-> "d1",
              applied_digest |-> "d1", bind |-> NULL]

\* The schema 1 ID of a default session is what became its repository's ID.
DatabaseAt(r) ==
  [repositories |-> r :> [repo_root |-> "root"],
   workspaces |-> r :> OldRow(r),
   container_bindings |-> r :> [container |-> c1, health |-> "present"],
   last_operations |-> r :> "ok"]

MCInitialDatabases ==
  {EmptyDatabase, DatabaseAt(r1), DatabaseAt(r0)}
=============================================================================
