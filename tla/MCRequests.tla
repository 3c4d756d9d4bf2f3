----------------------------- MODULE MCRequests -----------------------------
(* The requests, the browser and the handover in the runs: see the configuration. *)
EXTENDS Requests
=============================================================================
