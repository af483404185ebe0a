---------------------------- MODULE MCFileLocks ------------------------------
(***************************************************************************)
(* Three commands over one repository and two of its sessions: the fewest  *)
(* with which a command can wait for one that itself waits for a third.    *)
(***************************************************************************)
EXTENDS FileLocks
=============================================================================
