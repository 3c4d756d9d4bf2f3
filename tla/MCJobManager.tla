---------------------------- MODULE MCJobManager ----------------------------
(* Small instances of JobManager: see the configurations. *)
EXTENDS JobManager, TLC

\* Job identifiers are random and only compared for equality.
JobSymmetry == Permutations(Jobs)
=============================================================================
