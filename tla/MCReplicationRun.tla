-------------------------- MODULE MCReplicationRun --------------------------
(* Runs are interchangeable where nothing temporal is checked. *)
EXTENDS ReplicationRun, TLC

RunSymmetry == Permutations(Runs)
=============================================================================
