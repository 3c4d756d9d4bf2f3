---------------------------- MODULE MCSambaConfig ----------------------------
(* Shares and workgroups of the runs: see the configuration. *)
EXTENDS SambaConfig, TLC

RequestSymmetry == Permutations(Requests)
=============================================================================
