-------------------------- MODULE MCSnapshotStore --------------------------
(***************************************************************************)
(* TLC instance of SnapshotStore: a local and an installed plugin, a turn  *)
(* and a job that forks its lease, the first snapshot and two after it.    *)
(***************************************************************************)
EXTENDS SnapshotStore, TLC

CONSTANTS turn1, job1
=============================================================================
