----------------------------- MODULE MCOpening -------------------------------
(***************************************************************************)
(* Instances of Opening: two builds, of schema 1 and 2, on new databases   *)
(* and ones of schema 2, so that each build meets older, own and newer.    *)
(***************************************************************************)
EXTENDS Opening

CONSTANTS doctor, rebuild, list, open

\* open is of the newer build; a migration may run between any two others.
TwoBuilds == [c \in Command |-> IF c = open THEN 2 ELSE 1]
=============================================================================
