--------------------------- MODULE ReplicationRun ---------------------------
(***************************************************************************)
(* What a run of one replication task does to the two pools:               *)
(* Runner.execute and afterJob of internal/replication/runner.go over the  *)
(* commands of snapshot.go.  Every command is a step and may fail.         *)
(*                                                                         *)
(* A snapshot is the second of its label, so that the order of names is    *)
(* that of creation.  A run reads the clock and creates its snapshot in    *)
(* one step.  Of a job its status is kept (JobManager) and, apart from it, *)
(* what its children do, since a cancelled job, or one whose service died, *)
(* may still be transferring.                                              *)
(***************************************************************************)
EXTENDS Naturals, FiniteSets

CONSTANTS
    Runs,     \* runs under way at the same time
    Retain,   \* Task.RetentionCount
    ByHand,   \* the task is also run by hand
    Before,   \* undisturbed runs before the first one that is looked at
    MaxClock  \* bound: the last second

ASSUME RetainAssumption == Retain \in Nat
ASSUME ByHandAssumption == ByHand \in BOOLEAN
ASSUME BeforeAssumption == Before \in Nat
ASSUME MaxClockAssumption == MaxClock \in Nat

VARIABLES
    clock,
    src, held, \* snapshots of the source, and those that are held
    dst,       \* snapshots of the target
    newest,    \* the newest snapshot of which the history says that it was sent, or 0
    up,        \* the service runs
    run,
    crowded,   \* runs that overlapped with another
    leaked,    \* held snapshots that nobody is going to release
    lost       \* the newest snapshot that a run which was not alone rolled back, or 0

vars == <<clock, src, held, dst, newest, up, run, crowded, leaked, lost>>

\* A run: where execute and afterJob are; its snapshot; what it listed and did
\* not use yet; what it sends the difference to, or 0; the status of its job;
\* and its transfer.
\* An "orphan" is a transfer that goes on without its run.
Executing == {"snapped", "held", "listed", "planned"}
Run == [pc: Executing \cup {"idle", "waiting", "pruning", "destroying", "recording", "orphan"},
        snap: Nat, list: SUBSET Nat, prev: Nat,
        job: {"none", "running", "success", "failed", "cancelled", "gone"},
        transfer: {"none", "running", "received", "broken"}]

NewRun(pc, snap) ==
    [pc |-> pc, snap |-> snap, list |-> {}, prev |-> 0, job |-> "none", transfer |-> "none"]
Idle == NewRun("idle", 0)

Active == {r \in Runs : run[r].pc # "idle"}

TypeOK ==
    /\ clock \in Nat
    /\ src \in SUBSET Nat /\ held \in SUBSET src /\ dst \in SUBSET Nat
    /\ newest \in Nat
    /\ up \in BOOLEAN
    /\ run \in [Runs -> Run]
    /\ crowded \in SUBSET Runs
    /\ leaked \in SUBSET held
    /\ lost \in Nat

\* The newest of some snapshots, as a set of one, or of none.
Newest(S) == {d \in S : \A e \in S : e <= d}

\* pruneTarget: all but the newest Retain.
NewestExcess(listed) == {d \in listed : Cardinality({e \in listed : e < d}) >= Retain}
Excess(listed) == {d \in listed : Cardinality({e \in listed : e > d}) >= Retain}

Init ==
    /\ clock = Before + 1
    /\ src = 1 .. Before /\ dst = src \ Excess(src)
    /\ newest = Before
    /\ held = {}
    /\ up = TRUE
    /\ run = [r \in Runs |-> Idle] /\ crowded = {}
    /\ leaked = {} /\ lost = 0

pools == <<src, held, dst, leaked, lost>>
rest == <<clock, newest, up, crowded>>

Goes(r, pc) == run' = [run EXCEPT ![r].pc = pc]

\* The run ends; its transfer may not have.
Ends(r) == run' = [run EXCEPT ![r] =
    IF @.transfer = "running" THEN [@ EXCEPT !.pc = "orphan"] ELSE Idle]

ReleaseHold(s) ==
    \/ held' = held \ {s} /\ leaked' = leaked \ {s}
    \/ s \in held /\ leaked' = leaked \cup {s} /\ UNCHANGED held

-----------------------------------------------------------------------------
(* execute *)

\* zfs snapshot fails when the label exists, and the run is over.  The
\* scheduler skips a task while its function has not returned; a run by hand
\* is never skipped.
Start(r) ==
    /\ up /\ run[r].pc = "idle"
    /\ ByHand \/ \A q \in Runs : run[q].pc \notin Executing
    /\ clock \notin src
    /\ src' = src \cup {clock}
    /\ run' = [run EXCEPT ![r] = NewRun("snapped", clock)]
    /\ crowded' = IF Active = {} THEN {} ELSE Active \cup {r}
    /\ UNCHANGED <<clock, held, dst, newest, up, leaked, lost>>

Hold(r) ==
    /\ run[r].pc = "snapped" /\ run[r].snap \in src \ held
    /\ held' = held \cup {run[r].snap}
    /\ Goes(r, "held")
    /\ UNCHANGED <<src, dst, leaked, lost, rest>>

\* The snapshot is destroyed again, if that works.
HoldFails(r) ==
    /\ run[r].pc = "snapped"
    /\ src' \in {src, src \ ({run[r].snap} \ held)}
    /\ Ends(r)
    /\ UNCHANGED <<held, dst, leaked, lost, rest>>

\* findLastCommon, first half.
ListSource(r) ==
    /\ run[r].pc = "held"
    /\ run' = [run EXCEPT ![r] = [@ EXCEPT !.pc = "listed", !.list = src]]
    /\ UNCHANGED <<pools, rest>>

\* Second half: the last snapshot that both have, or none.
FirstCommon(common) == IF common = {} THEN {0} ELSE {d \in common : \A e \in common : e >= d}
LastCommon(common) == IF common = {} THEN {0} ELSE Newest(common)
ListTarget(r) ==
    /\ run[r].pc = "listed"
    /\ \E p \in LastCommon(run[r].list \cap dst) :
        run' = [run EXCEPT ![r] = [@ EXCEPT !.pc = "planned", !.list = {}, !.prev = p]]
    /\ UNCHANGED <<pools, rest>>

\* A listing fails, or the pipeline cannot be started.
FailsKeepingHold(r) ==
    /\ run[r].pc \in {"held", "listed", "planned"}
    /\ Ends(r)
    /\ UNCHANGED <<pools, rest>>
Fails(r) ==
    /\ run[r].pc \in {"held", "listed", "planned"}
    /\ ReleaseHold(run[r].snap)
    /\ Ends(r)
    /\ UNCHANGED <<src, dst, lost, rest>>

Dispatch(r) ==
    /\ run[r].pc = "planned"
    /\ run' = [run EXCEPT
           ![r] = [@ EXCEPT !.pc = "waiting", !.job = "running", !.transfer = "running"]]
    /\ UNCHANGED <<pools, rest>>

-----------------------------------------------------------------------------
(* The job *)

\* zfs send -i prev snap | zfs recv -F: everything on the target that is newer
\* than prev goes.  A full stream is not received by a target with snapshots.
Received(r) == {d \in dst : d <= run[r].prev} \cup {run[r].snap}
Receive(r) ==
    LET s == run[r].snap  p == run[r].prev IN
    /\ run[r].transfer = "running"
    /\ s \in src
    /\ IF p = 0 THEN dst = {} ELSE p < s /\ p \in src \cap dst
    /\ dst' = Received(r)
    /\ lost' \in IF r \in crowded THEN Newest({lost} \cup (dst \ dst')) ELSE {lost}
    /\ run' = [run EXCEPT
           ![r] = IF @.pc = "orphan" THEN Idle ELSE [@ EXCEPT !.transfer = "received"]]
    /\ UNCHANGED <<src, held, leaked, rest>>

TransferBreaks(r) ==
    /\ run[r].transfer = "running"
    /\ run' = [run EXCEPT
           ![r] = IF @.pc = "orphan" THEN Idle ELSE [@ EXCEPT !.transfer = "broken"]]
    /\ UNCHANGED <<pools, rest>>

\* The manager sees both children end, one of them perhaps with an error.
JobEnds(r) ==
    /\ run[r].pc = "waiting" /\ run[r].job = "running"
    /\ \E status \in {"success", "failed"} :
        /\ \/ run[r].transfer = "received"
           \/ run[r].transfer = "broken" /\ status = "failed"
        /\ run' = [run EXCEPT ![r].job = status]
    /\ UNCHANGED <<pools, rest>>

\* Cancel sets the status at once; the children have up to ten seconds.
JobCancelled(r) ==
    /\ run[r].pc = "waiting" /\ run[r].job = "running"
    /\ run' = [run EXCEPT ![r].job = "cancelled"]
    /\ UNCHANGED <<pools, rest>>

\* Removed by a client or to make room for others.
JobForgotten(r) ==
    /\ run[r].pc = "waiting" /\ run[r].job \in {"success", "failed", "cancelled"}
    /\ run' = [run EXCEPT ![r].job = "gone"]
    /\ UNCHANGED <<pools, rest>>

-----------------------------------------------------------------------------
(* afterJob *)

\* It polls, and sees a terminal status.
SeesEnd(r) ==
    /\ run[r].pc = "waiting" /\ run[r].job \in {"success", "failed", "cancelled"}
    /\ ReleaseHold(run[r].snap)
    /\ Goes(r, IF run[r].job = "success" THEN "pruning" ELSE "recording")
    /\ UNCHANGED <<src, dst, lost, rest>>

\* It finds no job: the run is recorded as failed and the hold stays.
SeesNoJobAndWaits(r) ==
    /\ run[r].pc = "waiting" /\ run[r].job = "gone"
    /\ UNCHANGED vars
SeesNoJob(r) ==
    /\ run[r].pc = "waiting" /\ run[r].job = "gone"
    /\ leaked' = leaked \cup ({run[r].snap} \cap held)
    /\ Ends(r)
    /\ UNCHANGED <<src, held, dst, lost, rest>>

PruneLists(r) ==
    /\ run[r].pc = "pruning"
    /\ run' = [run EXCEPT ![r] = [@ EXCEPT !.pc = "destroying", !.list = Excess(dst)]]
    /\ UNCHANGED <<pools, rest>>

\* One command after the other, the oldest first.
PruneDestroys(r) ==
    /\ run[r].pc = "destroying"
    /\ \E d \in run[r].list \cap dst :
        /\ \A e \in run[r].list : d <= e
        /\ dst' = dst \ {d}
        /\ run' = [run EXCEPT ![r].list = @ \ {d}]
    /\ UNCHANGED <<src, held, leaked, lost, rest>>

\* Nothing is left to destroy, or a command failed.
PruneStops(r) ==
    /\ run[r].pc \in {"pruning", "destroying"}
    /\ run' = [run EXCEPT ![r] = [@ EXCEPT !.pc = "recording", !.list = {}]]
    /\ UNCHANGED <<pools, rest>>

\* finishRun.  A record that cannot be written is lost.
Records(r) ==
    /\ run[r].pc = "recording"
    /\ \/ run[r].job = "success" /\ newest' \in Newest({newest, run[r].snap})
       \/ UNCHANGED newest
    /\ Ends(r)
    /\ UNCHANGED <<clock, pools, up, crowded>>

-----------------------------------------------------------------------------
(* Others, and the service *)

Tick ==
    /\ clock < MaxClock
    /\ clock' = clock + 1
    /\ UNCHANGED <<pools, newest, up, run, crowded>>

\* The handler that destroys a batch of snapshots releases our holds first.
ReleaseHoldsFor(s) ==
    /\ up /\ s \in held
    /\ held' = held \ {s} /\ leaked' = leaked \ {s}
    /\ UNCHANGED <<src, dst, run, lost, rest>>

\* Any tool may destroy a snapshot that is not held.
DestroySource(s) ==
    /\ s \in src \ held
    /\ src' = src \ {s}
    /\ UNCHANGED <<held, dst, run, leaked, lost, rest>>

\* The runs are gone; the children may survive (see JobManager).
Crash ==
    /\ up
    /\ up' = FALSE
    /\ \E survivors \in SUBSET {r \in Runs : run[r].transfer = "running"} :
        run' = [r \in Runs |-> IF r \in survivors THEN [run[r] EXCEPT !.pc = "orphan"] ELSE Idle]
    /\ leaked' = held
    /\ UNCHANGED <<clock, src, held, dst, newest, lost, crowded>>

\* releaseOrphanedHolds, before anything else runs: a command may fail for
\* some of the snapshots, or for all.
StartUp ==
    /\ ~up
    /\ up' = TRUE
    /\ held' \in SUBSET held
    /\ leaked' = held'
    /\ UNCHANGED <<clock, src, dst, newest, run, lost, crowded>>

Step(r) ==
    \/ Hold(r) \/ HoldFails(r) \/ ListSource(r) \/ ListTarget(r) \/ Fails(r) \/ Dispatch(r)
    \/ SeesEnd(r) \/ SeesNoJob(r) \/ PruneLists(r) \/ PruneDestroys(r) \/ PruneStops(r)
    \/ Records(r)

Next ==
    \/ \E r \in Runs :
        \/ Start(r) \/ Step(r)
        \/ Receive(r) \/ TransferBreaks(r)
        \/ JobEnds(r) \/ JobCancelled(r) \/ JobForgotten(r)
    \/ \E s \in src : ReleaseHoldsFor(s) \/ DestroySource(s)
    \/ Tick
    \/ Crash
    \/ StartUp

Spec == Init /\ [][Next]_vars

\* The goroutine of a run goes on and its commands end; the manager notices
\* that the children of a job have ended.
FairSpec == Spec /\ \A r \in Runs : WF_vars(Step(r)) /\ WF_vars(JobEnds(r))

-----------------------------------------------------------------------------
(* Properties *)

\* A run that did not start has nothing; the children start last.
StartInv ==
    \A r \in Runs :
        /\ run[r].pc = "idle" => run[r] = Idle
        /\ run[r].pc \in Executing => run[r].transfer = "none"

\* Who did not overlap is alone.
AloneInv == \A q, r \in Runs : r \in Active \ crowded /\ q # r => q \notin Active

\* What a run that is alone listed is still all there is, and nothing that both
\* pools have is newer than what it sends the difference to.
PlanInv ==
    \A r \in Runs \ crowded :
        /\ run[r].pc = "listed" => src \subseteq run[r].list
        /\ run[r].pc = "planned" \/ run[r].transfer = "running" =>
               \A d \in src \cap dst : d <= run[r].prev

\* Every hold belongs to a run that is going to release it, unless the release
\* failed, the job was forgotten before afterJob saw it end, or the service
\* died since the last start.
Owned == {run[r].snap : r \in {q \in Runs : run[q].pc \in {"held", "listed", "planned", "waiting"}}}
HeldHasOwner == held \subseteq Owned \cup leaked

\* At every step: the parts above, and the holds.
IInv == TypeOK /\ HeldHasOwner /\ StartInv /\ AloneInv /\ PlanInv

\* A run does not keep a hold for ever, provided that transfers end: the hold is
\* released, or the run gives it up. One that is given up (leaked) stays until a
\* start of the service, or who destroys the snapshot, releases it, which nothing
\* promises: afterJob leaves it when it finds the job forgotten (runner.go
\* 281-283, unlike 288 "Release the hold either way") and when the release fails.
HoldIsSettled ==
    (\A r \in Runs : []<>(run[r].transfer # "running")) =>
        \A s \in 1 .. MaxClock : s \in held ~> s \notin held \ leaked

\* The target is never older than the newest run that the history calls a
\* success, unless a run that overlapped with another rolled it back.
TargetKeepsUp ==
    Retain > 0 => \E d \in dst \cup {lost} : newest <= d

\* Why it does: a run that is alone sends what is newer than all before; what
\* was received stays or is followed by something newer, for what is to be
\* pruned is older than something that stays.
Reached(s) == \E d \in dst \cup {lost} : s <= d
Passed(s) == \E d \in dst \cup {lost} : s < d
TimeInv == newest <= clock /\ \A r \in Runs : run[r].snap <= clock
AheadInv == \A r \in Active \ crowded : newest <= run[r].snap
JobInv ==
    \A r \in Runs :
        run[r].job = "success" \/ run[r].pc \in {"pruning", "destroying"} =>
            run[r].transfer = "received"
ReachInv ==
    \A r \in Runs :
        /\ run[r].transfer = "received" => Reached(run[r].snap)
        /\ run[r].pc = "destroying" => \A d \in run[r].list : Passed(d)
TargetInv == TimeInv /\ AheadInv /\ JobInv /\ (Retain > 0 => ReachInv /\ TargetKeepsUp)

\* A run that was alone takes nothing from the target by recv -F that the
\* source still has, so that the next run finds what this one would have.
RollbackSparesShared ==
    [][\A r \in Runs : Receive(r) /\ r \notin crowded => (dst \ dst') \cap src = {}]_vars

=============================================================================
