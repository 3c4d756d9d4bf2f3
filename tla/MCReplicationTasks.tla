------------------------- MODULE MCReplicationTasks -------------------------
(* Schedules of the runs. *)
EXTENDS ReplicationTasks, TLC

CONSTANTS even, odd

MCFiresAt == even :> {0} @@ odd :> {1}
TaskSymmetry == Permutations(Regs) \cup Permutations(Clients)
=============================================================================
