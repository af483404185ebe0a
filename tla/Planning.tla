------------------------------- MODULE Planning ------------------------------
(***************************************************************************)
(* The pure decisions of internal/controller: whether a live session is    *)
(* the workspace's own, and what an open should do about its session and   *)
(* its container (plan.go).  They read one snapshot, the observations an   *)
(* open collected under its locks:                                         *)
(*                                                                         *)
(*   stored     the workspace's record, or NULL                            *)
(*   state      "unknown" (tmux failed to answer), "absent" or "live"      *)
(*   live       the session that claims the workspace's ID, or NULL        *)
(*   by_name    the live sessions under one of its candidate names         *)
(*   container  the container observation, or NULL where none applies      *)
(*                                                                         *)
(* Of the four identity keys a session carries, the workspace ID is one    *)
(* and the other three (slug, root, session component) are one place.      *)
(***************************************************************************)
CONSTANT NULL

KeysOf(ws) == [id |-> ws.id, place |-> <<ws.repo_root, ws.session>>]

\* A session the user made carries no identity key.
NoKeys == [id |-> NULL, place |-> NULL]

Claims(s, id) == s.keys.id = id

SessionBelongsTo(s, ws) == s.keys = KeysOf(ws)

\* The health of a container that could not be observed.
UnknownContainer == [health |-> "unknown", container |-> NULL, bound |-> FALSE]

MissingContainer == [health |-> "missing", container |-> NULL, bound |-> FALSE]

\* bound: the observation carries the user and directory an exec needs.
PresentContainer(c, bound) ==
  [health |-> "present", container |-> c, bound |-> bound]

\* Mutant: a tmux that did not answer is taken for an empty one.
RefusesUnlessUnknown(snap, ws) ==
  \/ snap.live # NULL /\ ~SessionBelongsTo(snap.live, ws)
  \/ \E s \in snap.by_name : ~SessionBelongsTo(s, ws)

\* refusalFor, down to whether it refuses: tmux did not answer, the claimant
\* contradicts the workspace, a candidate name is occupied by a session that
\* is not the workspace's, or the snapshot contradicts itself.
Refuses(snap, ws) ==
  \/ snap.state = "unknown"
  \/ snap.live # NULL /\ ~SessionBelongsTo(snap.live, ws)
  \/ \E s \in snap.by_name : ~SessionBelongsTo(s, ws)
  \/ snap.state = "live" /\ snap.live = NULL

\* Mutant: a session no reconciliation has committed yet is created again.
SessionActionReapplies(snap, ws) ==
  IF Refuses(snap, ws) THEN "refuse"
  ELSE IF snap.state # "live" \/ snap.stored.row.applied_digest = NULL THEN "create"
  ELSE IF snap.stored.row.actual_session = snap.live.name THEN "none" ELSE "adopt"

\* BuildPlan's session action: a live session recorded under another name, or
\* under none, is adopted.
SessionAction(snap, ws) ==
  IF Refuses(snap, ws) THEN "refuse"
  ELSE IF snap.state # "live" THEN "create"
  ELSE IF snap.stored # NULL /\ snap.stored.row.actual_session = snap.live.name
       THEN "none"
  ELSE "adopt"

\* Mutant: a missing container is nobody's business.
ContainerActionLeavesMissing(obs) ==
  CASE obs # NULL /\ obs.health = "unknown" -> "probe-first"
    [] obs # NULL /\ obs.health = "present" /\ ~obs.bound -> "acquire"
    [] OTHER -> "none"

\* containerAction: a running container without its user and directory has
\* still to be acquired, and nothing is started on an unknown one.
ContainerAction(obs) ==
  CASE obs = NULL -> "none"
    [] obs # NULL /\ obs.health = "present" -> IF obs.bound THEN "none" ELSE "acquire"
    [] obs # NULL /\ obs.health = "missing" -> "start"
    [] OTHER -> "probe-first"

\* confirmCreation: what tmux shows after a create proves it, being live, the
\* workspace's own and under the allocated name.
ConfirmsCreation(view, ws, name) ==
  /\ view.state = "live"
  /\ SessionBelongsTo(view.live, ws)
  /\ view.live.name = name
=============================================================================
