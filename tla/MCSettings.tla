----------------------------- MODULE MCSettings -----------------------------
(* Names and hashes of the runs: see the configuration. *)
EXTENDS Settings, TLC

RequestSymmetry == Permutations(Requests) \cup Permutations(Hashes)
=============================================================================
