--------------------------- MODULE MCObservation -----------------------------
(***************************************************************************)
(* Instances of Observation: two workspaces and three names; nothing, one  *)
(* session running, alone or beside a user's, two of which one has lost    *)
(* its record, and two that claim one workspace.                           *)
(***************************************************************************)
EXTENDS Observation

CONSTANTS w, v, n, m, o

Running(name, ws, keys) == [name |-> name, ws |-> ws, keys |-> keys]
Recorded(x, y) == [u \in Workspace |-> IF u = w THEN x ELSE y]
Nobody == [i \in {} |-> NULL]
Alone == [i \in {0} |-> Running(n, w, w)]
And(x) == [i \in {0, 1} |-> IF i = 0 THEN Running(n, w, w) ELSE x]

Installed ==
  {[records |-> Recorded(NULL, NULL), sessions |-> Nobody],
   [records |-> Recorded(n, NULL), sessions |-> Alone],
   [records |-> Recorded(n, NULL), sessions |-> And(Running(o, NULL, NULL))],
   [records |-> Recorded(NULL, m), sessions |-> And(Running(m, v, v))],
   [records |-> Recorded(n, m), sessions |-> And(Running(o, w, v))]}
=============================================================================
