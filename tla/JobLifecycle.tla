---------------------------- MODULE JobLifecycle ----------------------------
(***************************************************************************)
(* What internal/jobs promises about a job, without its threads, children, *)
(* snapshots and clocks: what a list of the jobs shows of it and which     *)
(* outcome a restart will show again.  JobManager implements this module.  *)
(***************************************************************************)
CONSTANT Jobs
VARIABLES
    serving,   \* the API answers
    fresh,     \* identifiers not used yet
    view,      \* what the API shows of a job, or "unlisted"
    saved      \* the status on record, or "none"

lifecycleVars == <<serving, fresh, view, saved>>

Outcome == {"success", "failed", "cancelled", "interrupted"}
Open == {"none", "running"}    \* no outcome on record

Init ==
    /\ serving = TRUE
    /\ fresh = Jobs
    /\ view = [j \in Jobs |-> "unlisted"]
    /\ saved = [j \in Jobs |-> "none"]

\* Every job is listed as running first, and once.
Begin(j) ==
    /\ serving /\ j \in fresh
    /\ fresh' = fresh \ {j}
    /\ view' = [view EXCEPT ![j] = "running"]
    /\ UNCHANGED <<serving, saved>>

\* An identifier whose job did not come about.
Discard(j) ==
    /\ serving /\ j \in fresh
    /\ fresh' = fresh \ {j}
    /\ UNCHANGED <<serving, view, saved>>

\* A running job gets one outcome and keeps it.
Settle(j) ==
    /\ serving /\ view[j] = "running"
    /\ \E s \in Outcome \ {"interrupted"} : view' = [view EXCEPT ![j] = s]
    /\ UNCHANGED <<serving, fresh, saved>>

\* The record follows the view; it may lag behind by one status, and an
\* outcome on record is not replaced.
Save(j) ==
    /\ serving /\ j \notin fresh
    /\ \E s \in {"running"} \cup Outcome :
          /\ saved[j] \in Open \/ s = saved[j]
          /\ view[j] # "unlisted" => s \in {"running", view[j]}
          /\ saved' = [saved EXCEPT ![j] = s]
    /\ UNCHANGED <<serving, fresh, view>>

\* Jobs with an outcome are dropped, and some of their records with them.
Dropped(S) ==
    /\ \A j \in S : view[j] \in Outcome
    /\ view' = [j \in Jobs |-> IF j \in S THEN "unlisted" ELSE view[j]]
    /\ \E E \in SUBSET S :
          saved' = [j \in Jobs |-> IF j \in E THEN "none" ELSE saved[j]]

Forget == serving /\ (\E S \in SUBSET Jobs : Dropped(S)) /\ UNCHANGED <<serving, fresh>>

Erase(j) ==
    /\ serving /\ view[j] = "unlisted"
    /\ saved' = [saved EXCEPT ![j] = "none"]
    /\ UNCHANGED <<serving, fresh, view>>

\* The service dies, and with it jobs that were about to be listed.
Die ==
    /\ serving' = FALSE
    /\ fresh' \in SUBSET fresh
    /\ view' = [j \in Jobs |-> "unlisted"]
    /\ UNCHANGED saved

\* A restarted service shows the outcome on record, or that there was none.
Return(j) ==
    /\ ~serving /\ view[j] = "unlisted" /\ saved[j] # "none"
    /\ view' = [view EXCEPT ![j] = IF saved[j] = "running" THEN "interrupted" ELSE saved[j]]
    /\ saved' \in {saved, [saved EXCEPT ![j] = view'[j]]}
    /\ UNCHANGED <<serving, fresh>>

Serve ==
    /\ ~serving /\ serving' = TRUE
    /\ \E S \in SUBSET Jobs : Dropped(S)
    /\ UNCHANGED fresh

Next ==
    \/ \E j \in Jobs : Begin(j) \/ Discard(j) \/ Settle(j) \/ Save(j) \/ Erase(j) \/ Return(j)
    \/ Forget \/ Die \/ Serve

Spec == Init /\ [][Next]_lifecycleVars
=============================================================================
