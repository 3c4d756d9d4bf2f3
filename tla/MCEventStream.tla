---------------------------- MODULE MCEventStream ----------------------------
(* Connections, their channels and what is asked for in the runs. *)
EXTENDS EventStream, TLC

CONSTANTS kept, passing

MCChans == Conns \X Places
BothTopics == {<<kept, passing>>}
\* What loader.js asks for, and a request that names a topic twice.
SomeTwice == BothTopics \cup {<<kept, kept>>}

ConnSymmetry == Permutations(Conns)
=============================================================================
