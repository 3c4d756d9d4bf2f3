------------------------ MODULE ReplicationRun_proofs ------------------------
(***************************************************************************)
(* The invariant of a replication run, for any number of overlapping runs, *)
(* any retention and any time.                                             *)
(***************************************************************************)
EXTENDS ReplicationRun, FiniteSetTheorems, TLAPS

USE RetainAssumption, BeforeAssumption, MaxClockAssumption
USE DEF Run, NewRun, Idle, Executing, pools, rest, Goes, Ends, Newest

\* Nothing is under way at first.
LEMMA InitIInv == Init => IInv
<1> SUFFICES ASSUME Init PROVE IInv
  OBVIOUS
<1>1. TypeOK
  BY DEF Init, TypeOK, Excess
<1>2. HeldHasOwner
  BY DEF Init, HeldHasOwner
<1>3. StartInv /\ AloneInv /\ PlanInv
  BY DEF Init, StartInv, AloneInv, PlanInv, Active
<1> QED
  BY <1>1, <1>2, <1>3 DEF IInv

LEMMA RunTyped ==
    ASSUME IInv
    PROVE  \A r \in Runs : run[r] \in Run
<1> HIDE DEF Run
<1> QED
  BY DEF IInv, TypeOK

\* A new run comes, and all that are under way are no longer alone.
LEMMA StartKeeps == ASSUME IInv, NEW r \in Runs, Start(r) PROVE IInv'
<1> USE DEF IInv, Start
<1>1. NewRun("snapped", clock) \in Run
  BY DEF TypeOK
<1>2. TypeOK'
  <2>1. run' \in [Runs -> Run]
    BY <1>1 DEF TypeOK
  <2>2. crowded' \in SUBSET Runs
    BY DEF Active
  <2> QED
    BY <2>1, <2>2 DEF TypeOK
<1>3. \A q \in Runs : q # r => run'[q] = run[q]
  BY DEF TypeOK
<1>4. run'[r] = NewRun("snapped", clock)
  BY DEF TypeOK
<1>5. HeldHasOwner'
  BY <1>3, <1>4 DEF HeldHasOwner, Owned, TypeOK
<1>6. StartInv'
  BY <1>3, <1>4 DEF StartInv, Active, TypeOK
<1>7. AloneInv'
  BY <1>3, <1>4 DEF AloneInv, Active, TypeOK
<1>8. PlanInv'
  BY <1>3, <1>4 DEF PlanInv, StartInv, Active, TypeOK
<1> QED
  BY <1>2, <1>5, <1>6, <1>7, <1>8

\* A step of a run that is under way, whatever it does to the pools: if it is
\* alone, nobody else has a plan that it could upset.
LEMMA OneRunSteps ==
    ASSUME IInv, NEW r \in Active, NEW v \in Run,
           run' = [run EXCEPT ![r] = v], crowded' = crowded,
           v.pc = "idle" => v = Idle,
           v.pc \in Executing => v.transfer = "none",
           r \notin crowded /\ v.pc = "listed" => src' \subseteq v.list,
           r \notin crowded /\ (v.pc = "planned" \/ v.transfer = "running") =>
               \A d \in src' \cap dst' : d <= v.prev
    PROVE  StartInv' /\ AloneInv' /\ PlanInv'
<1> HIDE DEF Run, NewRun, Idle, Executing
<1> USE DEF IInv
<1>1. \A q \in Runs : q # r => run'[q] = run[q]
  BY DEF TypeOK, Active
<1>2. run'[r] = v /\ r \in Runs /\ run[r].pc # "idle"
  BY DEF TypeOK, Active
<1>3. StartInv'
  BY <1>1, <1>2 DEF StartInv
<1>4. AloneInv'
  BY <1>1, <1>2 DEF AloneInv, Active
<1>5. ASSUME NEW q \in Runs \ crowded, q # r PROVE run'[q] = Idle
  BY <1>1, <1>2, <1>5 DEF AloneInv, StartInv, Active
<1>6. PlanInv'
  BY <1>2, <1>5 DEF PlanInv, Idle, NewRun
<1> QED
  BY <1>3, <1>4, <1>6

\* The only step that holds a snapshot.
LEMMA HoldKeeps == ASSUME IInv, NEW r \in Runs, Hold(r) PROVE IInv'
<1> USE DEF IInv, Hold
<1>1. r \in Active
  BY DEF Active
<1>2. PICK v \in Run :
        /\ v = [run[r] EXCEPT !.pc = "held"]
        /\ run' = [run EXCEPT ![r] = v]
  <2>1. run' = [run EXCEPT ![r] =
                  [run[r] EXCEPT !.pc = "held"]]
    OBVIOUS
  <2> HIDE DEF Hold, IInv
  <2>2. run[r] \in Run
    BY RunTyped
  <2>3. [run[r] EXCEPT !.pc = "held"] \in Run
    BY <2>2
  <2> HIDE DEF Run, NewRun, Idle
  <2> QED
    BY <2>1, <2>3
<1>3. run'[r] = v /\ \A q \in Runs : q # r => run'[q] = run[q]
  BY <1>2 DEF TypeOK
<1>4. TypeOK'
  BY <1>2 DEF TypeOK
<1>5. HeldHasOwner'
  BY <1>2, <1>3 DEF HeldHasOwner, Owned
<1>6. StartInv' /\ AloneInv' /\ PlanInv'
  <2>1. v.pc = "idle" => v = Idle
    BY <1>1, <1>2 DEF Active
  <2>2. v.pc \in Executing => v.transfer = "none"
    BY <1>2 DEF StartInv, TypeOK
  <2>3. r \notin crowded /\ v.pc = "listed" => src' \subseteq v.list
    BY <1>2 DEF PlanInv, TypeOK
  <2>4. r \notin crowded /\ (v.pc = "planned" \/ v.transfer = "running") =>
           \A d \in src' \cap dst' : d <= v.prev
    BY <1>2 DEF PlanInv, TypeOK
  <2>5. crowded' = crowded
    OBVIOUS
  <2> HIDE DEF Hold, IInv, Run, NewRun, Idle, Executing
  <2> QED
    BY <1>1, <1>2, <2>5, <2>1, <2>2, <2>3, <2>4, OneRunSteps
<1> QED
  BY <1>4, <1>5, <1>6

\* The snapshot may be gone; nobody holds it.
LEMMA HoldFailsKeeps == ASSUME IInv, NEW r \in Runs, HoldFails(r) PROVE IInv'
<1> USE DEF IInv, HoldFails
<1>1. r \in Active
  BY DEF Active
<1>2. PICK v \in Run :
        /\ v = (IF run[r].transfer = "running" THEN [run[r] EXCEPT !.pc = "orphan"] ELSE Idle)
        /\ run' = [run EXCEPT ![r] = v]
  <2>1. run' = [run EXCEPT ![r] =
                  (IF run[r].transfer = "running" THEN [run[r] EXCEPT !.pc = "orphan"] ELSE Idle)]
    OBVIOUS
  <2> HIDE DEF HoldFails, IInv
  <2>2. run[r] \in Run
    BY RunTyped
  <2>3. (IF run[r].transfer = "running" THEN [run[r] EXCEPT !.pc = "orphan"] ELSE Idle) \in Run
    BY <2>2
  <2> HIDE DEF Run, NewRun, Idle
  <2> QED
    BY <2>1, <2>3
<1>3. run'[r] = v /\ \A q \in Runs : q # r => run'[q] = run[q]
  BY <1>2 DEF TypeOK
<1>4. TypeOK'
  BY <1>2 DEF TypeOK
<1>5. HeldHasOwner'
  BY <1>2, <1>3 DEF HeldHasOwner, Owned
<1>6. StartInv' /\ AloneInv' /\ PlanInv'
  <2>1. v.pc = "idle" => v = Idle
    BY <1>1, <1>2 DEF Active
  <2>2. v.pc \in Executing => v.transfer = "none"
    BY <1>2 DEF StartInv, TypeOK
  <2>3. r \notin crowded /\ v.pc = "listed" => src' \subseteq v.list
    BY <1>2 DEF PlanInv, TypeOK
  <2>4. r \notin crowded /\ (v.pc = "planned" \/ v.transfer = "running") =>
           \A d \in src' \cap dst' : d <= v.prev
    BY <1>2 DEF PlanInv, TypeOK
  <2>5. crowded' = crowded
    OBVIOUS
  <2> HIDE DEF HoldFails, IInv, Run, NewRun, Idle, Executing
  <2> QED
    BY <1>1, <1>2, <2>5, <2>1, <2>2, <2>3, <2>4, OneRunSteps
<1> QED
  BY <1>4, <1>5, <1>6

\* What is listed is what there is.
LEMMA ListSourceKeeps == ASSUME IInv, NEW r \in Runs, ListSource(r) PROVE IInv'
<1> USE DEF IInv, ListSource
<1>1. r \in Active
  BY DEF Active
<1>2. PICK v \in Run :
        /\ v = [run[r] EXCEPT !.pc = "listed", !.list = src]
        /\ run' = [run EXCEPT ![r] = v]
  <2>1. run' = [run EXCEPT ![r] =
                  [run[r] EXCEPT !.pc = "listed", !.list = src]]
    OBVIOUS
  <2>s. src \in SUBSET Nat
    BY DEF TypeOK
  <2> HIDE DEF ListSource, IInv
  <2>2. run[r] \in Run
    BY RunTyped
  <2>3. [run[r] EXCEPT !.pc = "listed", !.list = src] \in Run
    BY <2>s, <2>2
  <2> HIDE DEF Run, NewRun, Idle
  <2> QED
    BY <2>1, <2>3
<1>3. run'[r] = v /\ \A q \in Runs : q # r => run'[q] = run[q]
  BY <1>2 DEF TypeOK
<1>4. TypeOK'
  BY <1>2 DEF TypeOK
<1>5. HeldHasOwner'
  BY <1>2, <1>3 DEF HeldHasOwner, Owned
<1>6. StartInv' /\ AloneInv' /\ PlanInv'
  <2>1. v.pc = "idle" => v = Idle
    BY <1>1, <1>2 DEF Active
  <2>2. v.pc \in Executing => v.transfer = "none"
    BY <1>2 DEF StartInv, TypeOK
  <2>3. r \notin crowded /\ v.pc = "listed" => src' \subseteq v.list
    BY <1>2 DEF PlanInv, TypeOK
  <2>4. r \notin crowded /\ (v.pc = "planned" \/ v.transfer = "running") =>
           \A d \in src' \cap dst' : d <= v.prev
    BY <1>2 DEF PlanInv, TypeOK
  <2>5. crowded' = crowded
    OBVIOUS
  <2> HIDE DEF ListSource, IInv, Run, NewRun, Idle, Executing
  <2> QED
    BY <1>1, <1>2, <2>5, <2>1, <2>2, <2>3, <2>4, OneRunSteps
<1> QED
  BY <1>4, <1>5, <1>6

\* A listing fails or the job is not started: the hold goes, or is leaked.
LEMMA FailsKeeps == ASSUME IInv, NEW r \in Runs, Fails(r) PROVE IInv'
<1> USE DEF IInv, Fails, ReleaseHold
<1>1. r \in Active
  BY DEF Active
<1>2. PICK v \in Run :
        /\ v = (IF run[r].transfer = "running" THEN [run[r] EXCEPT !.pc = "orphan"] ELSE Idle)
        /\ run' = [run EXCEPT ![r] = v]
  <2>1. run' = [run EXCEPT ![r] =
                  (IF run[r].transfer = "running" THEN [run[r] EXCEPT !.pc = "orphan"] ELSE Idle)]
    OBVIOUS
  <2> HIDE DEF Fails, IInv
  <2>2. run[r] \in Run
    BY RunTyped
  <2>3. (IF run[r].transfer = "running" THEN [run[r] EXCEPT !.pc = "orphan"] ELSE Idle) \in Run
    BY <2>2
  <2> HIDE DEF Run, NewRun, Idle
  <2> QED
    BY <2>1, <2>3
<1>3. run'[r] = v /\ \A q \in Runs : q # r => run'[q] = run[q]
  BY <1>2 DEF TypeOK
<1>4. TypeOK'
  BY <1>2 DEF TypeOK
<1>5. HeldHasOwner'
  BY <1>2, <1>3 DEF HeldHasOwner, Owned
<1>6. StartInv' /\ AloneInv' /\ PlanInv'
  <2>1. v.pc = "idle" => v = Idle
    BY <1>1, <1>2 DEF Active
  <2>2. v.pc \in Executing => v.transfer = "none"
    BY <1>2 DEF StartInv, TypeOK
  <2>3. r \notin crowded /\ v.pc = "listed" => src' \subseteq v.list
    BY <1>2 DEF PlanInv, TypeOK
  <2>4. r \notin crowded /\ (v.pc = "planned" \/ v.transfer = "running") =>
           \A d \in src' \cap dst' : d <= v.prev
    BY <1>2 DEF PlanInv, TypeOK
  <2>5. crowded' = crowded
    OBVIOUS
  <2> HIDE DEF Fails, IInv, Run, NewRun, Idle, Executing
  <2> QED
    BY <1>1, <1>2, <2>5, <2>1, <2>2, <2>3, <2>4, OneRunSteps
<1> QED
  BY <1>4, <1>5, <1>6

\* The plan becomes a transfer, and stays as good as it was.
LEMMA DispatchKeeps == ASSUME IInv, NEW r \in Runs, Dispatch(r) PROVE IInv'
<1> USE DEF IInv, Dispatch
<1>1. r \in Active
  BY DEF Active
<1>2. PICK v \in Run :
        /\ v = [run[r] EXCEPT !.pc = "waiting", !.job = "running", !.transfer = "running"]
        /\ run' = [run EXCEPT ![r] = v]
  <2>1. run' = [run EXCEPT ![r] =
                  [run[r] EXCEPT !.pc = "waiting", !.job = "running", !.transfer = "running"]]
    OBVIOUS
  <2> HIDE DEF Dispatch, IInv
  <2>2. run[r] \in Run
    BY RunTyped
  <2>3. [run[r] EXCEPT !.pc = "waiting", !.job = "running", !.transfer = "running"] \in Run
    BY <2>2
  <2> HIDE DEF Run, NewRun, Idle
  <2> QED
    BY <2>1, <2>3
<1>3. run'[r] = v /\ \A q \in Runs : q # r => run'[q] = run[q]
  BY <1>2 DEF TypeOK
<1>4. TypeOK'
  BY <1>2 DEF TypeOK
<1>5. HeldHasOwner'
  BY <1>2, <1>3 DEF HeldHasOwner, Owned
<1>6. StartInv' /\ AloneInv' /\ PlanInv'
  <2>1. v.pc = "idle" => v = Idle
    BY <1>1, <1>2 DEF Active
  <2>2. v.pc \in Executing => v.transfer = "none"
    BY <1>2 DEF StartInv, TypeOK
  <2>3. r \notin crowded /\ v.pc = "listed" => src' \subseteq v.list
    BY <1>2 DEF PlanInv, TypeOK
  <2>4. r \notin crowded /\ (v.pc = "planned" \/ v.transfer = "running") =>
           \A d \in src' \cap dst' : d <= v.prev
    BY <1>2 DEF PlanInv, TypeOK
  <2>5. crowded' = crowded
    OBVIOUS
  <2> HIDE DEF Dispatch, IInv, Run, NewRun, Idle, Executing
  <2> QED
    BY <1>1, <1>2, <2>5, <2>1, <2>2, <2>3, <2>4, OneRunSteps
<1> QED
  BY <1>4, <1>5, <1>6

\* A transfer that breaks leaves the pools alone.
LEMMA TransferBreaksKeeps == ASSUME IInv, NEW r \in Runs, TransferBreaks(r) PROVE IInv'
<1> USE DEF IInv, TransferBreaks
<1>1. r \in Active
  BY DEF Active, StartInv
<1>2. PICK v \in Run :
        /\ v = (IF run[r].pc = "orphan" THEN Idle ELSE [run[r] EXCEPT !.transfer = "broken"])
        /\ run' = [run EXCEPT ![r] = v]
  <2>1. run' = [run EXCEPT ![r] =
                  (IF run[r].pc = "orphan" THEN Idle ELSE [run[r] EXCEPT !.transfer = "broken"])]
    OBVIOUS
  <2> HIDE DEF TransferBreaks, IInv
  <2>2. run[r] \in Run
    BY RunTyped
  <2>3. (IF run[r].pc = "orphan" THEN Idle ELSE [run[r] EXCEPT !.transfer = "broken"]) \in Run
    BY <2>2
  <2> HIDE DEF Run, NewRun, Idle
  <2> QED
    BY <2>1, <2>3
<1>3. run'[r] = v /\ \A q \in Runs : q # r => run'[q] = run[q]
  BY <1>2 DEF TypeOK
<1>4. TypeOK'
  BY <1>2 DEF TypeOK
<1>5. HeldHasOwner'
  BY <1>2, <1>3 DEF HeldHasOwner, Owned
<1>6. StartInv' /\ AloneInv' /\ PlanInv'
  <2>1. v.pc = "idle" => v = Idle
    BY <1>1, <1>2 DEF Active
  <2>2. v.pc \in Executing => v.transfer = "none"
    BY <1>2 DEF StartInv, TypeOK
  <2>3. r \notin crowded /\ v.pc = "listed" => src' \subseteq v.list
    BY <1>2 DEF PlanInv, TypeOK
  <2>4. r \notin crowded /\ (v.pc = "planned" \/ v.transfer = "running") =>
           \A d \in src' \cap dst' : d <= v.prev
    BY <1>2 DEF PlanInv, TypeOK
  <2>5. crowded' = crowded
    OBVIOUS
  <2> HIDE DEF TransferBreaks, IInv, Run, NewRun, Idle, Executing
  <2> QED
    BY <1>1, <1>2, <2>5, <2>1, <2>2, <2>3, <2>4, OneRunSteps
<1> QED
  BY <1>4, <1>5, <1>6

\* Only the status changes; the transfer goes on.
LEMMA JobCancelledKeeps == ASSUME IInv, NEW r \in Runs, JobCancelled(r) PROVE IInv'
<1> USE DEF IInv, JobCancelled
<1>1. r \in Active
  BY DEF Active
<1>2. PICK v \in Run :
        /\ v = [run[r] EXCEPT !.job = "cancelled"]
        /\ run' = [run EXCEPT ![r] = v]
  <2>1. run' = [run EXCEPT ![r] =
                  [run[r] EXCEPT !.job = "cancelled"]]
    OBVIOUS
  <2> HIDE DEF JobCancelled, IInv
  <2>2. run[r] \in Run
    BY RunTyped
  <2>3. [run[r] EXCEPT !.job = "cancelled"] \in Run
    BY <2>2
  <2> HIDE DEF Run, NewRun, Idle
  <2> QED
    BY <2>1, <2>3
<1>3. run'[r] = v /\ \A q \in Runs : q # r => run'[q] = run[q]
  BY <1>2 DEF TypeOK
<1>4. TypeOK'
  BY <1>2 DEF TypeOK
<1>5. HeldHasOwner'
  BY <1>2, <1>3 DEF HeldHasOwner, Owned
<1>6. StartInv' /\ AloneInv' /\ PlanInv'
  <2>1. v.pc = "idle" => v = Idle
    BY <1>1, <1>2 DEF Active
  <2>2. v.pc \in Executing => v.transfer = "none"
    BY <1>2 DEF StartInv, TypeOK
  <2>3. r \notin crowded /\ v.pc = "listed" => src' \subseteq v.list
    BY <1>2 DEF PlanInv, TypeOK
  <2>4. r \notin crowded /\ (v.pc = "planned" \/ v.transfer = "running") =>
           \A d \in src' \cap dst' : d <= v.prev
    BY <1>2 DEF PlanInv, TypeOK
  <2>5. crowded' = crowded
    OBVIOUS
  <2> HIDE DEF JobCancelled, IInv, Run, NewRun, Idle, Executing
  <2> QED
    BY <1>1, <1>2, <2>5, <2>1, <2>2, <2>3, <2>4, OneRunSteps
<1> QED
  BY <1>4, <1>5, <1>6

\* Only the status changes.
LEMMA JobForgottenKeeps == ASSUME IInv, NEW r \in Runs, JobForgotten(r) PROVE IInv'
<1> USE DEF IInv, JobForgotten
<1>1. r \in Active
  BY DEF Active
<1>2. PICK v \in Run :
        /\ v = [run[r] EXCEPT !.job = "gone"]
        /\ run' = [run EXCEPT ![r] = v]
  <2>1. run' = [run EXCEPT ![r] =
                  [run[r] EXCEPT !.job = "gone"]]
    OBVIOUS
  <2> HIDE DEF JobForgotten, IInv
  <2>2. run[r] \in Run
    BY RunTyped
  <2>3. [run[r] EXCEPT !.job = "gone"] \in Run
    BY <2>2
  <2> HIDE DEF Run, NewRun, Idle
  <2> QED
    BY <2>1, <2>3
<1>3. run'[r] = v /\ \A q \in Runs : q # r => run'[q] = run[q]
  BY <1>2 DEF TypeOK
<1>4. TypeOK'
  BY <1>2 DEF TypeOK
<1>5. HeldHasOwner'
  BY <1>2, <1>3 DEF HeldHasOwner, Owned
<1>6. StartInv' /\ AloneInv' /\ PlanInv'
  <2>1. v.pc = "idle" => v = Idle
    BY <1>1, <1>2 DEF Active
  <2>2. v.pc \in Executing => v.transfer = "none"
    BY <1>2 DEF StartInv, TypeOK
  <2>3. r \notin crowded /\ v.pc = "listed" => src' \subseteq v.list
    BY <1>2 DEF PlanInv, TypeOK
  <2>4. r \notin crowded /\ (v.pc = "planned" \/ v.transfer = "running") =>
           \A d \in src' \cap dst' : d <= v.prev
    BY <1>2 DEF PlanInv, TypeOK
  <2>5. crowded' = crowded
    OBVIOUS
  <2> HIDE DEF JobForgotten, IInv, Run, NewRun, Idle, Executing
  <2> QED
    BY <1>1, <1>2, <2>5, <2>1, <2>2, <2>3, <2>4, OneRunSteps
<1> QED
  BY <1>4, <1>5, <1>6

\* The hold is released, or counted as leaked.
LEMMA SeesEndKeeps == ASSUME IInv, NEW r \in Runs, SeesEnd(r) PROVE IInv'
<1> USE DEF IInv, SeesEnd, ReleaseHold
<1>1. r \in Active
  BY DEF Active
<1>2. PICK v \in Run :
        /\ v = [run[r] EXCEPT !.pc = IF run[r].job = "success" THEN "pruning" ELSE "recording"]
        /\ run' = [run EXCEPT ![r] = v]
  <2>1. run' = [run EXCEPT ![r] =
                  [run[r] EXCEPT !.pc = IF run[r].job = "success" THEN "pruning" ELSE "recording"]]
    OBVIOUS
  <2> HIDE DEF SeesEnd, IInv
  <2>2. run[r] \in Run
    BY RunTyped
  <2>3. [run[r] EXCEPT !.pc = IF run[r].job = "success" THEN "pruning" ELSE "recording"] \in Run
    BY <2>2
  <2> HIDE DEF Run, NewRun, Idle
  <2> QED
    BY <2>1, <2>3
<1>3. run'[r] = v /\ \A q \in Runs : q # r => run'[q] = run[q]
  BY <1>2 DEF TypeOK
<1>4. TypeOK'
  BY <1>2 DEF TypeOK
<1>5. HeldHasOwner'
  BY <1>2, <1>3 DEF HeldHasOwner, Owned
<1>6. StartInv' /\ AloneInv' /\ PlanInv'
  <2>1. v.pc = "idle" => v = Idle
    BY <1>1, <1>2 DEF Active
  <2>2. v.pc \in Executing => v.transfer = "none"
    BY <1>2 DEF StartInv, TypeOK
  <2>3. r \notin crowded /\ v.pc = "listed" => src' \subseteq v.list
    BY <1>2 DEF PlanInv, TypeOK
  <2>4. r \notin crowded /\ (v.pc = "planned" \/ v.transfer = "running") =>
           \A d \in src' \cap dst' : d <= v.prev
    BY <1>2 DEF PlanInv, TypeOK
  <2>5. crowded' = crowded
    OBVIOUS
  <2> HIDE DEF SeesEnd, IInv, Run, NewRun, Idle, Executing
  <2> QED
    BY <1>1, <1>2, <2>5, <2>1, <2>2, <2>3, <2>4, OneRunSteps
<1> QED
  BY <1>4, <1>5, <1>6

\* The hold stays, and is counted as leaked.
LEMMA SeesNoJobKeeps == ASSUME IInv, NEW r \in Runs, SeesNoJob(r) PROVE IInv'
<1> USE DEF IInv, SeesNoJob
<1>1. r \in Active
  BY DEF Active
<1>2. PICK v \in Run :
        /\ v = (IF run[r].transfer = "running" THEN [run[r] EXCEPT !.pc = "orphan"] ELSE Idle)
        /\ run' = [run EXCEPT ![r] = v]
  <2>1. run' = [run EXCEPT ![r] =
                  (IF run[r].transfer = "running" THEN [run[r] EXCEPT !.pc = "orphan"] ELSE Idle)]
    OBVIOUS
  <2> HIDE DEF SeesNoJob, IInv
  <2>2. run[r] \in Run
    BY RunTyped
  <2>3. (IF run[r].transfer = "running" THEN [run[r] EXCEPT !.pc = "orphan"] ELSE Idle) \in Run
    BY <2>2
  <2> HIDE DEF Run, NewRun, Idle
  <2> QED
    BY <2>1, <2>3
<1>3. run'[r] = v /\ \A q \in Runs : q # r => run'[q] = run[q]
  BY <1>2 DEF TypeOK
<1>4. TypeOK'
  BY <1>2 DEF TypeOK
<1>5. HeldHasOwner'
  BY <1>2, <1>3 DEF HeldHasOwner, Owned
<1>6. StartInv' /\ AloneInv' /\ PlanInv'
  <2>1. v.pc = "idle" => v = Idle
    BY <1>1, <1>2 DEF Active
  <2>2. v.pc \in Executing => v.transfer = "none"
    BY <1>2 DEF StartInv, TypeOK
  <2>3. r \notin crowded /\ v.pc = "listed" => src' \subseteq v.list
    BY <1>2 DEF PlanInv, TypeOK
  <2>4. r \notin crowded /\ (v.pc = "planned" \/ v.transfer = "running") =>
           \A d \in src' \cap dst' : d <= v.prev
    BY <1>2 DEF PlanInv, TypeOK
  <2>5. crowded' = crowded
    OBVIOUS
  <2> HIDE DEF SeesNoJob, IInv, Run, NewRun, Idle, Executing
  <2> QED
    BY <1>1, <1>2, <2>5, <2>1, <2>2, <2>3, <2>4, OneRunSteps
<1> QED
  BY <1>4, <1>5, <1>6

\* The transfer is over: no plan depends on the target any more.
LEMMA PruneListsKeeps == ASSUME IInv, NEW r \in Runs, PruneLists(r) PROVE IInv'
<1> USE DEF IInv, PruneLists
<1>1. r \in Active
  BY DEF Active
<1>a. Excess(dst) \in SUBSET Nat
  BY DEF Excess, TypeOK
<1>2. PICK v \in Run :
        /\ v = [run[r] EXCEPT !.pc = "destroying", !.list = Excess(dst)]
        /\ run' = [run EXCEPT ![r] = v]
  <2>1. run' = [run EXCEPT ![r] =
                  [run[r] EXCEPT !.pc = "destroying", !.list = Excess(dst)]]
    OBVIOUS
  <2> HIDE DEF PruneLists, IInv
  <2>2. run[r] \in Run
    BY RunTyped
  <2>3. [run[r] EXCEPT !.pc = "destroying", !.list = Excess(dst)] \in Run
    BY <1>a, <2>2
  <2> HIDE DEF Run, NewRun, Idle
  <2> QED
    BY <2>1, <2>3
<1>3. run'[r] = v /\ \A q \in Runs : q # r => run'[q] = run[q]
  BY <1>2 DEF TypeOK
<1>4. TypeOK'
  BY <1>2 DEF TypeOK
<1>5. HeldHasOwner'
  BY <1>2, <1>3 DEF HeldHasOwner, Owned
<1>6. StartInv' /\ AloneInv' /\ PlanInv'
  <2>1. v.pc = "idle" => v = Idle
    BY <1>1, <1>2 DEF Active
  <2>2. v.pc \in Executing => v.transfer = "none"
    BY <1>2 DEF StartInv, TypeOK
  <2>3. r \notin crowded /\ v.pc = "listed" => src' \subseteq v.list
    BY <1>2 DEF PlanInv, TypeOK
  <2>4. r \notin crowded /\ (v.pc = "planned" \/ v.transfer = "running") =>
           \A d \in src' \cap dst' : d <= v.prev
    BY <1>2 DEF PlanInv, TypeOK
  <2>5. crowded' = crowded
    OBVIOUS
  <2> HIDE DEF PruneLists, IInv, Run, NewRun, Idle, Executing
  <2> QED
    BY <1>1, <1>2, <2>5, <2>1, <2>2, <2>3, <2>4, OneRunSteps
<1> QED
  BY <1>4, <1>5, <1>6

\* The less there is on the target, the less both pools have.
LEMMA PruneDestroysKeeps == ASSUME IInv, NEW r \in Runs, PruneDestroys(r) PROVE IInv'
<1> USE DEF IInv
<1>1. r \in Active /\ run[r].pc = "destroying" /\ src' = src /\ crowded' = crowded
  BY DEF Active, PruneDestroys
<1>a. PICK d \in dst :
        dst' = dst \ {d} /\ run' = [run EXCEPT ![r] = [run[r] EXCEPT !.list = run[r].list \ {d}]]
  BY DEF PruneDestroys
<1>2. PICK v \in Run :
        /\ v = [run[r] EXCEPT !.list = run[r].list \ {d}]
        /\ run' = [run EXCEPT ![r] = v]
  <2> HIDE DEF IInv
  <2>2. run[r] \in Run
    BY RunTyped
  <2>3. [run[r] EXCEPT !.list = run[r].list \ {d}] \in Run
    BY <2>2
  <2> HIDE DEF Run, NewRun, Idle
  <2> QED
    BY <1>a, <2>3
<1>3. run'[r] = v /\ \A q \in Runs : q # r => run'[q] = run[q]
  BY <1>2 DEF TypeOK
<1>4. TypeOK'
  BY <1>2, <1>a DEF TypeOK, PruneDestroys
<1>5. HeldHasOwner'
  BY <1>2, <1>3 DEF HeldHasOwner, Owned, PruneDestroys
<1>6. StartInv' /\ AloneInv' /\ PlanInv'
  <2>1. v.pc = "idle" => v = Idle
    BY <1>1, <1>2 DEF Active
  <2>2. v.pc \in Executing => v.transfer = "none"
    BY <1>1, <1>2 DEF StartInv, TypeOK
  <2>3. r \notin crowded /\ v.pc = "listed" => src' \subseteq v.list
    BY <1>1, <1>2 DEF PlanInv, TypeOK
  <2>4. r \notin crowded /\ (v.pc = "planned" \/ v.transfer = "running") =>
           \A e \in src' \cap dst' : e <= v.prev
    BY <1>1, <1>2, <1>a DEF PlanInv, TypeOK
  <2> HIDE DEF IInv, Run, NewRun, Idle, Executing
  <2> QED
    BY <1>1, <1>2, <2>1, <2>2, <2>3, <2>4, OneRunSteps
<1> QED
  BY <1>4, <1>5, <1>6

\* Only the run's list is given up.
LEMMA PruneStopsKeeps == ASSUME IInv, NEW r \in Runs, PruneStops(r) PROVE IInv'
<1> USE DEF IInv, PruneStops
<1>1. r \in Active
  BY DEF Active
<1>2. PICK v \in Run :
        /\ v = [run[r] EXCEPT !.pc = "recording", !.list = {}]
        /\ run' = [run EXCEPT ![r] = v]
  <2>1. run' = [run EXCEPT ![r] =
                  [run[r] EXCEPT !.pc = "recording", !.list = {}]]
    OBVIOUS
  <2> HIDE DEF PruneStops, IInv
  <2>2. run[r] \in Run
    BY RunTyped
  <2>3. [run[r] EXCEPT !.pc = "recording", !.list = {}] \in Run
    BY <2>2
  <2> HIDE DEF Run, NewRun, Idle
  <2> QED
    BY <2>1, <2>3
<1>3. run'[r] = v /\ \A q \in Runs : q # r => run'[q] = run[q]
  BY <1>2 DEF TypeOK
<1>4. TypeOK'
  BY <1>2 DEF TypeOK
<1>5. HeldHasOwner'
  BY <1>2, <1>3 DEF HeldHasOwner, Owned
<1>6. StartInv' /\ AloneInv' /\ PlanInv'
  <2>1. v.pc = "idle" => v = Idle
    BY <1>1, <1>2 DEF Active
  <2>2. v.pc \in Executing => v.transfer = "none"
    BY <1>2 DEF StartInv, TypeOK
  <2>3. r \notin crowded /\ v.pc = "listed" => src' \subseteq v.list
    BY <1>2 DEF PlanInv, TypeOK
  <2>4. r \notin crowded /\ (v.pc = "planned" \/ v.transfer = "running") =>
           \A d \in src' \cap dst' : d <= v.prev
    BY <1>2 DEF PlanInv, TypeOK
  <2>5. crowded' = crowded
    OBVIOUS
  <2> HIDE DEF PruneStops, IInv, Run, NewRun, Idle, Executing
  <2> QED
    BY <1>1, <1>2, <2>5, <2>1, <2>2, <2>3, <2>4, OneRunSteps
<1> QED
  BY <1>4, <1>5, <1>6

\* The run is over, but perhaps not its transfer.
LEMMA RecordsKeeps == ASSUME IInv, NEW r \in Runs, Records(r) PROVE IInv'
<1> USE DEF IInv, Records
<1>1. r \in Active
  BY DEF Active
<1>2. PICK v \in Run :
        /\ v = (IF run[r].transfer = "running" THEN [run[r] EXCEPT !.pc = "orphan"] ELSE Idle)
        /\ run' = [run EXCEPT ![r] = v]
  <2>1. run' = [run EXCEPT ![r] =
                  (IF run[r].transfer = "running" THEN [run[r] EXCEPT !.pc = "orphan"] ELSE Idle)]
    OBVIOUS
  <2> HIDE DEF Records, IInv
  <2>2. run[r] \in Run
    BY RunTyped
  <2>3. (IF run[r].transfer = "running" THEN [run[r] EXCEPT !.pc = "orphan"] ELSE Idle) \in Run
    BY <2>2
  <2> HIDE DEF Run, NewRun, Idle
  <2> QED
    BY <2>1, <2>3
<1>3. run'[r] = v /\ \A q \in Runs : q # r => run'[q] = run[q]
  BY <1>2 DEF TypeOK
<1>4. TypeOK'
  BY <1>2 DEF TypeOK
<1>5. HeldHasOwner'
  BY <1>2, <1>3 DEF HeldHasOwner, Owned
<1>6. StartInv' /\ AloneInv' /\ PlanInv'
  <2>1. v.pc = "idle" => v = Idle
    BY <1>1, <1>2 DEF Active
  <2>2. v.pc \in Executing => v.transfer = "none"
    BY <1>2 DEF StartInv, TypeOK
  <2>3. r \notin crowded /\ v.pc = "listed" => src' \subseteq v.list
    BY <1>2 DEF PlanInv, TypeOK
  <2>4. r \notin crowded /\ (v.pc = "planned" \/ v.transfer = "running") =>
           \A d \in src' \cap dst' : d <= v.prev
    BY <1>2 DEF PlanInv, TypeOK
  <2>5. crowded' = crowded
    OBVIOUS
  <2> HIDE DEF Records, IInv, Run, NewRun, Idle, Executing
  <2> QED
    BY <1>1, <1>2, <2>5, <2>1, <2>2, <2>3, <2>4, OneRunSteps
<1> QED
  BY <1>4, <1>5, <1>6

\* The target changes under a plan; the plan is this run's own and is done.
LEMMA ReceiveKeeps == ASSUME IInv, NEW r \in Runs, Receive(r) PROVE IInv'
<1> USE DEF IInv, Receive
<1>1. r \in Active
  BY DEF Active, StartInv
<1>2. PICK v \in Run :
        /\ v = (IF run[r].pc = "orphan" THEN Idle ELSE [run[r] EXCEPT !.transfer = "received"])
        /\ run' = [run EXCEPT ![r] = v]
  <2>1. run' = [run EXCEPT ![r] =
                  (IF run[r].pc = "orphan" THEN Idle ELSE [run[r] EXCEPT !.transfer = "received"])]
    OBVIOUS
  <2> HIDE DEF Receive, IInv
  <2>2. run[r] \in Run
    BY RunTyped
  <2>3. (IF run[r].pc = "orphan" THEN Idle ELSE [run[r] EXCEPT !.transfer = "received"]) \in Run
    BY <2>2
  <2> HIDE DEF Run, NewRun, Idle
  <2> QED
    BY <2>1, <2>3
<1>3. run'[r] = v /\ \A q \in Runs : q # r => run'[q] = run[q]
  BY <1>2 DEF TypeOK
<1>4. TypeOK'
  <2>1. dst' \in SUBSET Nat
    BY DEF Received, TypeOK
  <2>2. lost' \in Nat
    BY <2>1 DEF TypeOK
  <2> QED
    BY <1>2, <2>1, <2>2 DEF TypeOK
<1>5. HeldHasOwner'
  BY <1>2, <1>3 DEF HeldHasOwner, Owned
<1>6. StartInv' /\ AloneInv' /\ PlanInv'
  <2>1. v.pc = "idle" => v = Idle
    BY <1>1, <1>2 DEF Active
  <2>2. v.pc \in Executing => v.transfer = "none"
    BY <1>2 DEF StartInv, TypeOK
  <2>3. r \notin crowded /\ v.pc = "listed" => src' \subseteq v.list
    BY <1>2 DEF PlanInv, StartInv, TypeOK
  <2>4. r \notin crowded /\ (v.pc = "planned" \/ v.transfer = "running") =>
           \A d \in src' \cap dst' : d <= v.prev
    BY <1>2 DEF PlanInv, StartInv, TypeOK
  <2>5. crowded' = crowded
    OBVIOUS
  <2> HIDE DEF Receive, IInv, Run, NewRun, Idle, Executing
  <2> QED
    BY <1>1, <1>2, <2>5, <2>1, <2>2, <2>3, <2>4, OneRunSteps
<1> QED
  BY <1>4, <1>5, <1>6

\* Nothing that both pools have is newer than the last common snapshot.
LEMMA ListTargetKeeps == ASSUME IInv, NEW r \in Runs, ListTarget(r) PROVE IInv'
<1> USE DEF IInv, ListTarget
<1>1. r \in Active
  BY DEF Active
<1>a. PICK p \in LastCommon(run[r].list \cap dst) :
        run' = [run EXCEPT ![r] = [@ EXCEPT !.pc = "planned", !.list = {}, !.prev = p]]
  OBVIOUS
<1>b. p \in Nat /\ \A d \in run[r].list \cap dst : d <= p
  BY <1>a DEF LastCommon, TypeOK
<1>2. PICK v \in Run :
        /\ v = [run[r] EXCEPT !.pc = "planned", !.list = {}, !.prev = p]
        /\ run' = [run EXCEPT ![r] = v]
  <2>1. run' = [run EXCEPT ![r] = [run[r] EXCEPT !.pc = "planned", !.list = {}, !.prev = p]]
    BY <1>a
  <2>n. p \in Nat
    BY <1>b
  <2> HIDE DEF ListTarget, IInv
  <2>2. run[r] \in Run
    BY RunTyped
  <2>3. [run[r] EXCEPT !.pc = "planned", !.list = {}, !.prev = p] \in Run
    BY <2>n, <2>2
  <2> HIDE DEF Run, NewRun, Idle
  <2> QED
    BY <2>1, <2>3
<1>3. run'[r] = v /\ \A q \in Runs : q # r => run'[q] = run[q]
  BY <1>2 DEF TypeOK
<1>4. TypeOK'
  BY <1>2 DEF TypeOK
<1>5. HeldHasOwner'
  BY <1>2, <1>3 DEF HeldHasOwner, Owned
<1>6. StartInv' /\ AloneInv' /\ PlanInv'
  <2>1. v.pc = "idle" => v = Idle
    BY <1>1, <1>2 DEF Active
  <2>2. v.pc \in Executing => v.transfer = "none"
    BY <1>2 DEF StartInv, TypeOK
  <2>3. r \notin crowded /\ v.pc = "listed" => src' \subseteq v.list
    BY <1>b, <1>2 DEF PlanInv, StartInv, TypeOK
  <2>4. r \notin crowded /\ (v.pc = "planned" \/ v.transfer = "running") =>
           \A d \in src' \cap dst' : d <= v.prev
    BY <1>b, <1>2 DEF PlanInv, StartInv, TypeOK
  <2>5. crowded' = crowded
    OBVIOUS
  <2> HIDE DEF ListTarget, IInv, Run, NewRun, Idle, Executing
  <2> QED
    BY <1>1, <1>2, <2>5, <2>1, <2>2, <2>3, <2>4, OneRunSteps
<1> QED
  BY <1>4, <1>5, <1>6

\* Only the status changes.
LEMMA JobEndsKeeps == ASSUME IInv, NEW r \in Runs, JobEnds(r) PROVE IInv'
<1> USE DEF IInv, JobEnds
<1>1. r \in Active
  BY DEF Active
<1>a. PICK status \in {"success", "failed"} : run' = [run EXCEPT ![r].job = status]
  OBVIOUS
<1>2. PICK v \in Run :
        /\ v = [run[r] EXCEPT !.job = status]
        /\ run' = [run EXCEPT ![r] = v]
  <2>1. run[r] \in Run
    BY DEF TypeOK
  <2>2. [run[r] EXCEPT !.job = status] \in Run
    BY <1>a, <2>1
  <2>3. run' = [run EXCEPT ![r] = [run[r] EXCEPT !.job = status]]
    BY <1>a
  <2> QED
    BY <2>2, <2>3
<1>3. run'[r] = v /\ \A q \in Runs : q # r => run'[q] = run[q]
  BY <1>2 DEF TypeOK
<1>4. TypeOK'
  BY <1>2 DEF TypeOK
<1>5. HeldHasOwner'
  BY <1>2, <1>3 DEF HeldHasOwner, Owned
<1>6. StartInv' /\ AloneInv' /\ PlanInv'
  <2>1. v.pc = "idle" => v = Idle
    BY <1>1, <1>2 DEF Active
  <2>2. v.pc \in Executing => v.transfer = "none"
    BY <1>2 DEF StartInv, TypeOK
  <2>3. r \notin crowded /\ v.pc = "listed" => src' \subseteq v.list
    BY <1>2 DEF PlanInv, TypeOK
  <2>4. r \notin crowded /\ (v.pc = "planned" \/ v.transfer = "running") =>
           \A d \in src' \cap dst' : d <= v.prev
    BY <1>2 DEF PlanInv, TypeOK
  <2>5. crowded' = crowded
    OBVIOUS
  <2> HIDE DEF JobEnds, IInv, Run, NewRun, Idle, Executing
  <2> QED
    BY <1>1, <1>2, <2>5, <2>1, <2>2, <2>3, <2>4, OneRunSteps
<1> QED
  BY <1>4, <1>5, <1>6

\* Nothing reads the clock but a new run.
LEMMA TickKeeps == ASSUME IInv, Tick PROVE IInv'
<1> USE DEF IInv, Tick
<1>1. TypeOK'
  BY DEF TypeOK
<1>2. HeldHasOwner'
  BY DEF HeldHasOwner, Owned
<1>3. StartInv' /\ AloneInv' /\ PlanInv'
  BY DEF StartInv, AloneInv, PlanInv, Active
<1> QED
  BY <1>1, <1>2, <1>3

\* A hold that its run releases again later is no harm.
LEMMA ReleaseHoldsForKeeps == ASSUME IInv, NEW s \in src, ReleaseHoldsFor(s) PROVE IInv'
<1> USE DEF IInv, ReleaseHoldsFor
<1>1. TypeOK'
  BY DEF TypeOK
<1>2. HeldHasOwner'
  BY DEF HeldHasOwner, Owned
<1>3. StartInv' /\ AloneInv' /\ PlanInv'
  BY DEF StartInv, AloneInv, PlanInv, Active
<1> QED
  BY <1>1, <1>2, <1>3

\* The less there is on the source, the less both pools have.
LEMMA DestroySourceKeeps == ASSUME IInv, NEW s \in src, DestroySource(s) PROVE IInv'
<1> USE DEF IInv, DestroySource
<1>1. TypeOK'
  BY DEF TypeOK
<1>2. HeldHasOwner'
  BY DEF HeldHasOwner, Owned
<1>3. StartInv' /\ AloneInv'
  BY DEF StartInv, AloneInv, Active
<1>4. PlanInv'
  BY DEF PlanInv
<1> QED
  BY <1>1, <1>2, <1>3, <1>4

\* What is still held after the start could not be released.
LEMMA StartUpKeeps == ASSUME IInv, StartUp PROVE IInv'
<1> USE DEF IInv, StartUp
<1>1. TypeOK'
  BY DEF TypeOK
<1>2. HeldHasOwner'
  BY DEF HeldHasOwner, Owned
<1>3. StartInv' /\ AloneInv' /\ PlanInv'
  BY DEF StartInv, AloneInv, PlanInv, Active
<1> QED
  BY <1>1, <1>2, <1>3

\* The service dies: what is left of a run is its transfer.
LEMMA CrashKeeps == ASSUME IInv, Crash PROVE IInv'
<1> USE DEF IInv, Crash
<1>1. PICK survivors \in SUBSET {r \in Runs : run[r].transfer = "running"} :
        run' = [r \in Runs |-> IF r \in survivors THEN [run[r] EXCEPT !.pc = "orphan"] ELSE Idle]
  OBVIOUS
<1>2. \A r \in Runs : IF r \in survivors
                      THEN /\ run'[r] = [run[r] EXCEPT !.pc = "orphan"]
                           /\ run[r].pc # "idle"
                      ELSE run'[r] = Idle
  BY <1>1 DEF StartInv
<1>3. TypeOK'
  <2>1. \A r \in Runs : [run[r] EXCEPT !.pc = "orphan"] \in Run
    BY DEF TypeOK
  <2>2. Idle \in Run
    OBVIOUS
  <2>3. run' \in [Runs -> Run]
    BY <1>1, <2>1, <2>2
  <2> QED
    BY <2>3 DEF TypeOK
<1>4. HeldHasOwner'
  BY DEF HeldHasOwner
<1>5. StartInv' /\ AloneInv' /\ PlanInv'
  BY <1>2 DEF StartInv, AloneInv, PlanInv, Active, TypeOK
<1> QED
  BY <1>3, <1>4, <1>5

\* One step per action.
LEMMA NextKeeps == IInv /\ [Next]_vars => IInv'
<1> SUFFICES ASSUME IInv, [Next]_vars PROVE IInv'
  OBVIOUS
<1>1. CASE UNCHANGED vars
  BY <1>1 DEF IInv, TypeOK, HeldHasOwner, Owned, StartInv, AloneInv, PlanInv, Active, vars
<1>2. ASSUME NEW r \in Runs, Start(r) PROVE IInv'
  BY <1>2, StartKeeps
<1>3. ASSUME NEW r \in Runs, Step(r) PROVE IInv'
  BY <1>3, HoldKeeps, HoldFailsKeeps, ListSourceKeeps, ListTargetKeeps, FailsKeeps, DispatchKeeps,
     SeesEndKeeps, SeesNoJobKeeps, PruneListsKeeps, PruneDestroysKeeps, PruneStopsKeeps,
     RecordsKeeps DEF Step
<1>4. ASSUME NEW r \in Runs,
             Receive(r) \/ TransferBreaks(r) \/ JobEnds(r) \/ JobCancelled(r) \/ JobForgotten(r)
      PROVE  IInv'
  BY <1>4, ReceiveKeeps, TransferBreaksKeeps, JobEndsKeeps, JobCancelledKeeps, JobForgottenKeeps
<1>5. ASSUME NEW s \in src, ReleaseHoldsFor(s) \/ DestroySource(s) PROVE IInv'
  BY <1>5, ReleaseHoldsForKeeps, DestroySourceKeeps
<1>6. CASE Tick \/ Crash \/ StartUp
  BY <1>6, TickKeeps, CrashKeeps, StartUpKeeps
<1> QED
  BY <1>1, <1>2, <1>3, <1>4, <1>5, <1>6 DEF Next

\* The inductive invariant holds in every state.
THEOREM RunInvariant == Spec => []IInv
<1>1. Init => IInv
  BY InitIInv
<1>2. IInv /\ [Next]_vars => IInv'
  BY NextKeeps
<1> QED
  BY <1>1, <1>2, PTL DEF Spec

\* Every hold belongs to a run that is going to release it, or is counted as
\* leaked (afterJob, releaseOrphanedHolds).
THEOREM HoldsHaveOwners == Spec => []HeldHasOwner
<1>1. IInv => HeldHasOwner
  BY DEF IInv
<1> QED
  BY <1>1, RunInvariant, PTL

\* recv -F of a run that was alone takes nothing that the source still has
\* (findLastCommon).
THEOREM UndisturbedRollbackSparesShared == Spec => RollbackSparesShared
<1>1. ASSUME IInv, NEW r \in Runs, Receive(r), r \notin crowded
      PROVE  (dst \ dst') \cap src = {}
  <2>1. \A d \in src \cap dst : d <= run[r].prev
    BY <1>1 DEF IInv, PlanInv, Receive
  <2>2. dst' = Received(r)
    BY <1>1 DEF Receive
  <2> QED
    BY <2>1, <2>2 DEF Received
<1>2. IInv /\ [Next]_vars =>
        [\A r \in Runs : Receive(r) /\ r \notin crowded => (dst \ dst') \cap src = {}]_vars
  BY <1>1
<1> QED
  BY <1>2, RunInvariant, PTL DEF Spec, RollbackSparesShared

-----------------------------------------------------------------------------
(* The target keeps up *)

\* What was there, or newer, is still there.
LEMMA CoveredStays ==
    ASSUME TypeOK, TypeOK', \A e \in dst \cup {lost} : \E f \in dst' \cup {lost'} : e <= f
    PROVE  \A s \in Nat : (Reached(s) => Reached(s)') /\ (Passed(s) => Passed(s)')
<1> SUFFICES ASSUME NEW s \in Nat, NEW e \in dst \cup {lost}, s <= e
             PROVE  Reached(s)' /\ (s < e => Passed(s)')
  BY DEF Reached, Passed, TypeOK
<1>1. PICK f \in dst' \cup {lost'} : e <= f
  OBVIOUS
<1>2. e \in Nat /\ f \in Nat
  BY DEF TypeOK
<1> QED
  BY <1>1, <1>2 DEF Reached, Passed

\* What the step of a run may turn it into without upsetting the others.
Fits(r, v) ==
    /\ v.snap \in Nat /\ v.snap <= clock
    /\ v.pc # "idle" => run[r].pc # "idle" /\ v.snap = run[r].snap
    /\ v.job = "success" \/ v.pc \in {"pruning", "destroying"} => v.transfer = "received"
Follows(r, v) ==
    /\ v.transfer = "received" => run[r].transfer = "received" /\ v.snap = run[r].snap
    /\ Retain > 0 /\ v.pc = "destroying" => \A d \in v.list : d \in Nat /\ Passed(d)

LEMMA OneRunTarget ==
    ASSUME IInv, IInv', TargetInv, NEW r \in Runs, NEW v, run' = [run EXCEPT ![r] = v],
           Fits(r, v), UNCHANGED <<clock, newest, crowded>>,
           Retain > 0 => \A e \in dst \cup {lost} : \E f \in dst' \cup {lost'} : e <= f,
           Retain > 0 /\ v.transfer = "received" => Reached(v.snap)',
           Retain > 0 /\ v.pc = "destroying" => \A d \in v.list : Passed(d)'
    PROVE  TargetInv'
<1> HIDE DEF Run, NewRun, Idle
<1>t. /\ TypeOK /\ TypeOK' /\ run'[r] = v /\ \A q \in Runs : q # r => run'[q] = run[q]
      /\ newest \in Nat
  BY DEF IInv, TypeOK
<1>s. Retain > 0 => \A s \in Nat : (Reached(s) => Reached(s)') /\ (Passed(s) => Passed(s)')
  BY <1>t, CoveredStays
<1>1. TimeInv'
  BY <1>t DEF TargetInv, TimeInv, Fits
<1>2. AheadInv'
  BY <1>t DEF TargetInv, AheadInv, Active, Fits
<1>3. JobInv'
  BY <1>t DEF TargetInv, JobInv, Fits
<1>4. ASSUME Retain > 0 PROVE ReachInv' /\ TargetKeepsUp'
  <2>1. ASSUME NEW q \in Runs
        PROVE  (/\ run[q].transfer = "received" => Reached(run[q].snap)
                /\ run[q].pc = "destroying" => \A d \in run[q].list : Passed(d))'
    <3>1. CASE q = r
      BY <1>4, <1>t, <3>1 DEF Reached, Passed
    <3>2. CASE q # r
      <4>1. run'[q] = run[q]
        BY <1>t, <3>2
      <4>2. run[q].snap \in Nat /\ run[q].list \subseteq Nat
        BY RunTyped DEF Run
      <4>3. /\ run[q].transfer = "received" => Reached(run[q].snap)
            /\ run[q].pc = "destroying" => \A d \in run[q].list : Passed(d)
        BY <1>4 DEF TargetInv, ReachInv
      <4> QED
        BY <1>4, <4>1, <4>2, <4>3, <1>s DEF Reached, Passed
    <3> QED
      BY <3>1, <3>2
  <2>2. TargetKeepsUp'
    <3>1. Reached(newest)
      BY <1>4 DEF TargetInv, TargetKeepsUp, Reached
    <3>2. Reached(newest)'
      BY <1>4, <3>1, <1>s, <1>t
    <3> QED
      BY <3>2 DEF Reached, TargetKeepsUp
  <2> QED
    BY <2>1, <2>2 DEF ReachInv
<1> QED
  BY <1>1, <1>2, <1>3, <1>4 DEF TargetInv

\* Most steps of a run leave the target alone.
LEMMA QuietRunTarget ==
    ASSUME IInv, IInv', TargetInv, NEW r \in Runs, NEW v, run' = [run EXCEPT ![r] = v],
           Fits(r, v), Follows(r, v), UNCHANGED <<clock, newest, crowded, dst, lost>>
    PROVE  TargetInv'
<1> HIDE DEF Run, NewRun, Idle
<1>1. TypeOK
  BY DEF IInv
<1>2. \A e \in dst \cup {lost} : \E f \in dst' \cup {lost'} : e <= f
  BY <1>1 DEF TypeOK
<1>3. Retain > 0 /\ v.transfer = "received" => Reached(v.snap)'
  BY DEF Follows, TargetInv, ReachInv, Reached
<1>4. Retain > 0 /\ v.pc = "destroying" => \A d \in v.list : Passed(d)'
  BY DEF Follows, Passed
<1> QED
  BY <1>2, <1>3, <1>4, OneRunTarget

LEMMA RunFacts ==
    ASSUME IInv, TargetInv, NEW r \in Runs
    PROVE  /\ run[r] \in Run /\ run[r].snap <= clock /\ 0 <= clock
           /\ run[r].job = "success" \/ run[r].pc \in {"pruning", "destroying"} =>
                 run[r].transfer = "received"
           /\ run[r].pc \in Executing => run[r].transfer = "none"
           /\ run[r].pc = "idle" => run[r] = Idle
<1> HIDE DEF Run, NewRun, Idle, Executing
<1>1. clock \in Nat
  BY DEF IInv, TypeOK
<1> QED
  BY <1>1, RunTyped DEF TargetInv, TimeInv, JobInv, IInv, StartInv

\* It ends, with its transfer or without.
LEMMA EndTarget ==
    ASSUME IInv, IInv', TargetInv, NEW r \in Runs, Ends(r), run[r].pc # "idle",
           UNCHANGED <<clock, newest, crowded, dst, lost>>
    PROVE  TargetInv'
<1>0. run[r] \in Run /\ run[r].snap <= clock /\ 0 <= clock
      /\ (run[r].job = "success" => run[r].transfer = "received")
  BY RunFacts
<1>1. CASE run[r].transfer = "running"
  <2> DEFINE v == [run[r] EXCEPT !.pc = "orphan"]
  <2>1. run' = [run EXCEPT ![r] = v]
    BY <1>1
  <2>2. Fits(r, v) /\ Follows(r, v)
    BY <1>0, <1>1 DEF Fits, Follows
  <2> HIDE DEF v
  <2> QED
    BY <2>1, <2>2, QuietRunTarget
<1>2. CASE run[r].transfer # "running"
  <2>1. run' = [run EXCEPT ![r] = Idle]
    BY <1>2
  <2>2. Fits(r, Idle) /\ Follows(r, Idle)
    BY <1>0 DEF Fits, Follows
  <2> HIDE DEF Idle, Ends
  <2> QED
    BY <2>1, <2>2, QuietRunTarget
<1> QED
  BY <1>1, <1>2

\* Only what has Retain newer ones on the target is pruned.
LEMMA ExcessIsPassed ==
    ASSUME TypeOK, Retain > 0, NEW d \in Excess(dst)
    PROVE  d \in Nat /\ Passed(d)
<1>1. d \in dst /\ Cardinality({e \in dst : e > d}) >= Retain /\ d \in Nat
  BY DEF Excess, TypeOK
<1>2. {e \in dst : e > d} # {}
  <2>1. Cardinality({}) = 0
    BY FS_EmptySet
  <2> QED
    BY <1>1, <2>1
<1>3. PICK e \in dst : e > d
  BY <1>2
<1> QED
  BY <1>1, <1>3 DEF Passed, TypeOK

\* The steps of a run that leave the target alone, each as it is.
LEMMA HoldTarget == ASSUME IInv, IInv', TargetInv, NEW r \in Runs, Hold(r) PROVE TargetInv'
<1> DEFINE v == [run[r] EXCEPT !.pc = "held"]
<1>1. run' = [run EXCEPT ![r] = v] /\ UNCHANGED <<clock, newest, crowded, dst, lost>>
  BY DEF Hold
<1>2. Fits(r, v) /\ Follows(r, v)
  BY RunFacts DEF Fits, Follows, Hold
<1> HIDE DEF v, Run, Idle, NewRun
<1> QED
  BY <1>1, <1>2, QuietRunTarget

LEMMA ListSourceTarget ==
    ASSUME IInv, IInv', TargetInv, NEW r \in Runs, ListSource(r) PROVE TargetInv'
<1> DEFINE v == [run[r] EXCEPT !.pc = "listed", !.list = src]
<1>1. run' = [run EXCEPT ![r] = v] /\ UNCHANGED <<clock, newest, crowded, dst, lost>>
  BY DEF ListSource
<1>2. Fits(r, v) /\ Follows(r, v)
  BY RunFacts DEF Fits, Follows, ListSource
<1> HIDE DEF v, Run, Idle, NewRun
<1> QED
  BY <1>1, <1>2, QuietRunTarget

LEMMA DispatchTarget == ASSUME IInv, IInv', TargetInv, NEW r \in Runs, Dispatch(r) PROVE TargetInv'
<1> DEFINE v == [run[r] EXCEPT !.pc = "waiting", !.job = "running", !.transfer = "running"]
<1>1. run' = [run EXCEPT ![r] = v] /\ UNCHANGED <<clock, newest, crowded, dst, lost>>
  BY DEF Dispatch
<1>2. Fits(r, v) /\ Follows(r, v)
  BY RunFacts DEF Fits, Follows, Dispatch
<1> HIDE DEF v, Run, Idle, NewRun
<1> QED
  BY <1>1, <1>2, QuietRunTarget

LEMMA TransferBreaksTarget ==
    ASSUME IInv, IInv', TargetInv, NEW r \in Runs, TransferBreaks(r) PROVE TargetInv'
<1> DEFINE v == IF run[r].pc = "orphan" THEN Idle ELSE [run[r] EXCEPT !.transfer = "broken"]
<1>1. run' = [run EXCEPT ![r] = v] /\ UNCHANGED <<clock, newest, crowded, dst, lost>>
  BY DEF TransferBreaks
<1>2. Fits(r, v) /\ Follows(r, v)
  BY RunFacts DEF Fits, Follows, TransferBreaks
<1> HIDE DEF v, Run, Idle, NewRun
<1> QED
  BY <1>1, <1>2, QuietRunTarget

LEMMA JobCancelledTarget ==
    ASSUME IInv, IInv', TargetInv, NEW r \in Runs, JobCancelled(r) PROVE TargetInv'
<1> DEFINE v == [run[r] EXCEPT !.job = "cancelled"]
<1>1. run' = [run EXCEPT ![r] = v] /\ UNCHANGED <<clock, newest, crowded, dst, lost>>
  BY DEF JobCancelled
<1>2. Fits(r, v) /\ Follows(r, v)
  BY RunFacts DEF Fits, Follows, JobCancelled
<1> HIDE DEF v, Run, Idle, NewRun
<1> QED
  BY <1>1, <1>2, QuietRunTarget

LEMMA JobForgottenTarget ==
    ASSUME IInv, IInv', TargetInv, NEW r \in Runs, JobForgotten(r) PROVE TargetInv'
<1> DEFINE v == [run[r] EXCEPT !.job = "gone"]
<1>1. run' = [run EXCEPT ![r] = v] /\ UNCHANGED <<clock, newest, crowded, dst, lost>>
  BY DEF JobForgotten
<1>2. Fits(r, v) /\ Follows(r, v)
  BY RunFacts DEF Fits, Follows, JobForgotten
<1> HIDE DEF v, Run, Idle, NewRun
<1> QED
  BY <1>1, <1>2, QuietRunTarget

LEMMA SeesEndTarget == ASSUME IInv, IInv', TargetInv, NEW r \in Runs, SeesEnd(r) PROVE TargetInv'
<1> DEFINE v == [run[r] EXCEPT !.pc = IF run[r].job = "success" THEN "pruning" ELSE "recording"]
<1>1. run' = [run EXCEPT ![r] = v] /\ UNCHANGED <<clock, newest, crowded, dst, lost>>
  BY DEF SeesEnd, ReleaseHold
<1>2. Fits(r, v) /\ Follows(r, v)
  BY RunFacts DEF Fits, Follows, SeesEnd, ReleaseHold
<1> HIDE DEF v, Run, Idle, NewRun
<1> QED
  BY <1>1, <1>2, QuietRunTarget

LEMMA PruneStopsTarget ==
    ASSUME IInv, IInv', TargetInv, NEW r \in Runs, PruneStops(r) PROVE TargetInv'
<1> DEFINE v == [run[r] EXCEPT !.pc = "recording", !.list = {}]
<1>1. run' = [run EXCEPT ![r] = v] /\ UNCHANGED <<clock, newest, crowded, dst, lost>>
  BY DEF PruneStops
<1>2. Fits(r, v) /\ Follows(r, v)
  BY RunFacts DEF Fits, Follows, PruneStops
<1> HIDE DEF v, Run, Idle, NewRun
<1> QED
  BY <1>1, <1>2, QuietRunTarget

LEMMA PruneListsTarget ==
    ASSUME IInv, IInv', TargetInv, NEW r \in Runs, PruneLists(r) PROVE TargetInv'
<1> DEFINE v == [run[r] EXCEPT !.pc = "destroying", !.list = Excess(dst)]
<1>1. run' = [run EXCEPT ![r] = v] /\ UNCHANGED <<clock, newest, crowded, dst, lost>>
  BY DEF PruneLists
<1>2. v.list = Excess(dst) /\ v.transfer = run[r].transfer /\ v.snap = run[r].snap
      /\ v.job = run[r].job /\ v.pc = "destroying" /\ run[r].pc = "pruning"
  BY RunFacts DEF PruneLists
<1> HIDE DEF v
<1>3. Fits(r, v)
  BY <1>2, RunFacts DEF Fits
<1>4. Follows(r, v)
  BY <1>2, ExcessIsPassed DEF Follows, IInv
<1> HIDE DEF Run, Idle, NewRun
<1> QED
  BY <1>1, <1>3, <1>4, QuietRunTarget

LEMMA ListTargetTarget ==
    ASSUME IInv, IInv', TargetInv, NEW r \in Runs, ListTarget(r) PROVE TargetInv'
<1>1. PICK p \in LastCommon(run[r].list \cap dst) :
        run' = [run EXCEPT ![r] = [run[r] EXCEPT !.pc = "planned", !.list = {}, !.prev = p]]
  BY DEF ListTarget
<1> DEFINE v == [run[r] EXCEPT !.pc = "planned", !.list = {}, !.prev = p]
<1>2. run' = [run EXCEPT ![r] = v] /\ UNCHANGED <<clock, newest, crowded, dst, lost>>
  BY <1>1 DEF ListTarget
<1>3. Fits(r, v) /\ Follows(r, v)
  BY RunFacts DEF Fits, Follows, ListTarget
<1> HIDE DEF v, Run, Idle, NewRun
<1> QED
  BY <1>2, <1>3, QuietRunTarget

LEMMA JobEndsTarget ==
    ASSUME IInv, IInv', TargetInv, NEW r \in Runs, JobEnds(r) PROVE TargetInv'
<1>1. PICK status \in {"success", "failed"} :
        /\ run[r].transfer = "received" \/ status = "failed"
        /\ run' = [run EXCEPT ![r] = [run[r] EXCEPT !.job = status]]
  BY DEF JobEnds
<1> DEFINE v == [run[r] EXCEPT !.job = status]
<1>2. run' = [run EXCEPT ![r] = v] /\ UNCHANGED <<clock, newest, crowded, dst, lost>>
  BY <1>1 DEF JobEnds
<1>3. Fits(r, v) /\ Follows(r, v)
  BY <1>1, RunFacts DEF Fits, Follows, JobEnds
<1> HIDE DEF v, Run, Idle, NewRun
<1> QED
  BY <1>2, <1>3, QuietRunTarget

LEMMA EndingTarget ==
    ASSUME IInv, IInv', TargetInv, NEW r \in Runs, HoldFails(r) \/ Fails(r) \/ SeesNoJob(r)
    PROVE  TargetInv'
<1>1. Ends(r) /\ run[r].pc # "idle" /\ UNCHANGED <<clock, newest, crowded, dst, lost>>
  BY DEF HoldFails, Fails, SeesNoJob
<1> HIDE DEF Ends
<1> QED
  BY <1>1, EndTarget

\* What is pruned is older than something that stays.
LEMMA PruneDestroysTarget ==
    ASSUME IInv, IInv', TargetInv, NEW r \in Runs, PruneDestroys(r) PROVE TargetInv'
<1>1. PICK d \in run[r].list \cap dst :
        dst' = dst \ {d} /\ run' = [run EXCEPT ![r] = [run[r] EXCEPT !.list = run[r].list \ {d}]]
  BY DEF PruneDestroys
<1>2. run[r].pc = "destroying" /\ UNCHANGED <<clock, newest, crowded, lost>>
  BY DEF PruneDestroys
<1>t. dst \subseteq Nat /\ lost \in Nat
  BY DEF IInv, TypeOK
<1> DEFINE v == [run[r] EXCEPT !.list = run[r].list \ {d}]
<1>3. /\ v.pc = "destroying" /\ v.list \subseteq run[r].list /\ v.snap = run[r].snap
      /\ v.transfer = run[r].transfer /\ v.job = run[r].job
      /\ run[r].snap \in Nat /\ run[r].list \subseteq Nat
  BY <1>2, RunFacts
<1>4. run' = [run EXCEPT ![r] = v]
  BY <1>1
<1> HIDE DEF v
<1>5. Fits(r, v)
  BY <1>2, <1>3, RunFacts DEF Fits
<1> HIDE DEF Run, NewRun, Idle
<1>6. ASSUME Retain > 0
      PROVE  /\ \A e \in dst \cup {lost} : \E f \in dst' \cup {lost'} : e <= f
             /\ \A s \in Nat : (Reached(s) => Reached(s)') /\ (Passed(s) => Passed(s)')
             /\ v.transfer = "received" => Reached(v.snap)
             /\ \A e \in v.list : Passed(e)
  <2>1. PICK f \in dst \cup {lost} : d < f
    BY <1>2, <1>6 DEF TargetInv, ReachInv, Passed
  <2>2. f \in dst' \cup {lost'} /\ d \in Nat /\ f \in Nat
    BY <1>1, <1>2, <1>t, <2>1
  <2>3. \A e \in dst \cup {lost} : \E g \in dst' \cup {lost'} : e <= g
    BY <1>1, <1>2, <1>t, <2>1, <2>2
  <2>4. \A s \in Nat : (Reached(s) => Reached(s)') /\ (Passed(s) => Passed(s)')
    BY <2>3, CoveredStays DEF IInv
  <2>5. (v.transfer = "received" => Reached(v.snap)) /\ \A e \in v.list : Passed(e)
    BY <1>2, <1>3, <1>6 DEF TargetInv, ReachInv
  <2> QED
    BY <2>3, <2>4, <2>5
<1>v. v.snap \in Nat /\ v.list \subseteq Nat
  BY <1>3
<1>7. Retain > 0 /\ v.transfer = "received" => (\E e \in dst' \cup {lost'} : v.snap <= e)
  BY <1>v, <1>6 DEF Reached
<1>8. Retain > 0 /\ v.pc = "destroying" =>
        \A e \in v.list : \E f \in dst' \cup {lost'} : e < f
  BY <1>v, <1>6 DEF Passed
<1> QED
  BY <1>2, <1>4, <1>5, <1>6, <1>7, <1>8, OneRunTarget DEF Reached, Passed

\* A run that is alone sends what is newer than all that was recorded; what a run
\* that is not alone rolls back is remembered.
LEMMA ReceiveTarget == ASSUME IInv, IInv', TargetInv, NEW r \in Runs, Receive(r) PROVE TargetInv'
<1> DEFINE v == IF run[r].pc = "orphan" THEN Idle ELSE [run[r] EXCEPT !.transfer = "received"]
<1>1. run[r].transfer = "running" /\ UNCHANGED <<clock, newest, crowded>>
  BY DEF Receive
<1>2. run' = [run EXCEPT ![r] = v] /\ run[r].snap \in dst'
  BY DEF Receive, Received
<1>3. /\ run[r].pc # "idle" /\ run[r].pc # "destroying" /\ run[r].pc # "pruning"
      /\ run[r].job # "success" /\ run[r].snap \in Nat /\ run[r].snap <= clock
  BY <1>1, RunFacts
<1>4. /\ v.pc # "idle" => v.snap = run[r].snap /\ v.transfer = "received"
      /\ v.snap \in Nat /\ v.snap <= clock /\ v.pc \notin {"pruning", "destroying"}
      /\ v.job # "success" /\ (v.transfer = "received" => v.snap = run[r].snap)
  BY <1>3, RunFacts
<1>t. /\ dst \subseteq Nat /\ lost \in Nat /\ newest \in Nat /\ clock \in Nat
      /\ dst' \subseteq Nat /\ lost' \in Nat
      /\ TypeOK /\ TypeOK'
  BY DEF IInv, TypeOK
<1> HIDE DEF v, Run, NewRun, Idle
<1>5. run'[r] = v /\ \A q \in Runs : q # r => run'[q] = run[q]
  BY <1>2, <1>t DEF TypeOK
<1>6. CASE r \in crowded
  <2>1. lost' \in Newest({lost} \cup (dst \ dst'))
    BY <1>6 DEF Receive
  <2>2. \A e \in dst \cup {lost} : \E f \in dst' \cup {lost'} : e <= f
    BY <1>t, <2>1 DEF Newest
  <2>3. Fits(r, v)
    BY <1>3, <1>4 DEF Fits
  <2>4. Retain > 0 /\ v.transfer = "received" => (\E d \in dst' \cup {lost'} : v.snap <= d)
    BY <1>2, <1>3, <1>4
  <2> QED
    BY <1>1, <1>2, <1>4, <2>2, <2>3, <2>4, OneRunTarget DEF Reached
<1>7. CASE r \notin crowded
  <2>1. \A q \in Runs : q # r => run[q] = Idle
    BY <1>3, <1>7 DEF IInv, AloneInv, StartInv, Active
  <2>2. newest <= run[r].snap
    BY <1>3, <1>7 DEF TargetInv, AheadInv, Active
  <2>3. TimeInv'
    BY <1>1, <1>4, <1>5 DEF TargetInv, TimeInv
  <2>4. AheadInv'
    BY <1>1, <1>4, <1>5, <2>1, <2>2 DEF AheadInv, Active, Idle, NewRun
  <2>5. JobInv'
    BY <1>4, <1>5 DEF TargetInv, JobInv
  <2>6. ReachInv'
    <3>1. ASSUME NEW q \in Runs
          PROVE  /\ run'[q].transfer = "received" =>
                       \E d \in dst' \cup {lost'} : run'[q].snap <= d
                 /\ run'[q].pc # "destroying"
      <4>1. CASE q = r
        BY <1>2, <1>3, <1>4, <1>5, <4>1
      <4>2. CASE q # r
        BY <1>5, <2>1, <4>2 DEF Idle, NewRun
      <4> QED
        BY <4>1, <4>2
    <3> QED
      BY <3>1 DEF ReachInv, Reached
  <2>7. TargetKeepsUp'
    BY <1>1, <1>2, <2>2 DEF TargetKeepsUp
  <2> QED
    BY <2>3, <2>4, <2>5, <2>6, <2>7 DEF TargetInv
<1> QED
  BY <1>6, <1>7

\* What is recorded as sent was received, and nobody who is alone sends what is
\* older: the run that records is still under way.
LEMMA RecordsTarget == ASSUME IInv, IInv', TargetInv, NEW r \in Runs, Records(r) PROVE TargetInv'
<1>1. /\ Ends(r) /\ run[r].pc # "idle" /\ UNCHANGED <<clock, crowded, dst, lost>>
      /\ \/ run[r].job = "success" /\ newest' \in Newest({newest, run[r].snap})
         \/ newest' = newest
  BY DEF Records
<1>2. CASE newest' = newest
  <2> HIDE DEF Ends
  <2> QED
    BY <1>1, <1>2, EndTarget
<1>3. CASE run[r].job = "success" /\ newest' \in Newest({newest, run[r].snap})
  <2>0. /\ run[r].snap \in Nat /\ run[r].snap <= clock /\ run[r].transfer = "received"
        /\ 0 <= clock
    BY <1>3, RunFacts
  <2>1. run' = [run EXCEPT ![r] = Idle]
    BY <1>1, <2>0
  <2>t. /\ TypeOK /\ dst \subseteq Nat /\ lost \in Nat /\ newest \in Nat /\ clock \in Nat
    BY DEF IInv, TypeOK
  <2>n. newest' = newest \/ newest' = run[r].snap
    BY <1>3 DEF Newest
  <2> HIDE DEF Run, NewRun, Ends
  <2>2. run'[r] = Idle /\ \A q \in Runs : q # r => run'[q] = run[q]
    BY <2>1, <2>t DEF TypeOK
  <2>i. /\ Idle.pc = "idle" /\ Idle.job = "none" /\ Idle.transfer = "none" /\ Idle.snap = 0
    BY DEF Idle, NewRun
  <2> HIDE DEF Idle
  <2>3. TimeInv'
    BY <1>1, <2>0, <2>n, <2>2, <2>i DEF TargetInv, TimeInv
  <2>4. AheadInv'
    <3>1. ASSUME NEW q \in Runs \ crowded, q # r PROVE q \notin Active
      BY <1>1, <3>1 DEF IInv, AloneInv, Active
    <3> QED
      BY <1>1, <2>2, <2>i, <3>1 DEF AheadInv, Active
  <2>5. JobInv'
    BY <2>2, <2>i DEF TargetInv, JobInv
  <2>6. ASSUME Retain > 0 PROVE ReachInv' /\ TargetKeepsUp'
    <3>1. ReachInv /\ TargetKeepsUp
      BY <2>6 DEF TargetInv
    <3>2. ASSUME NEW q \in Runs
          PROVE  /\ run'[q].transfer = "received" =>
                       \E d \in dst' \cup {lost'} : run'[q].snap <= d
                 /\ run'[q].pc = "destroying" =>
                       \A e \in run'[q].list : \E d \in dst' \cup {lost'} : e < d
      <4>1. CASE q = r
        BY <2>2, <2>i, <4>1
      <4>2. CASE q # r
        BY <1>1, <2>2, <3>1, <4>2 DEF ReachInv, Reached, Passed
      <4> QED
        BY <4>1, <4>2
    <3>3. \E d \in dst' \cup {lost'} : newest' <= d
      BY <1>1, <2>0, <2>6, <2>n, <3>1 DEF ReachInv, Reached, TargetKeepsUp
    <3> QED
      BY <3>2, <3>3 DEF ReachInv, Reached, Passed, TargetKeepsUp
  <2> QED
    BY <2>3, <2>4, <2>5, <2>6 DEF TargetInv
<1> QED
  BY <1>1, <1>2, <1>3

\* A run is given a snapshot of now.
LEMMA StartTarget == ASSUME IInv, IInv', TargetInv, NEW r \in Runs, Start(r) PROVE TargetInv'
<1> DEFINE v == NewRun("snapped", clock)
<1>1. /\ run[r].pc = "idle" /\ run' = [run EXCEPT ![r] = v]
      /\ crowded' = IF Active = {} THEN {} ELSE Active \cup {r}
      /\ UNCHANGED <<clock, newest, dst, lost>>
  BY DEF Start
<1>t. TypeOK /\ clock \in Nat /\ newest \in Nat
  BY DEF IInv, TypeOK
<1>2. v.snap = clock /\ v.pc = "snapped" /\ v.job = "none" /\ v.transfer = "none"
  BY DEF NewRun
<1> HIDE DEF v, Run, NewRun, Idle
<1>3. run'[r] = v /\ \A q \in Runs : q # r => run'[q] = run[q]
  BY <1>1, <1>t DEF TypeOK
<1>4. TimeInv'
  BY <1>1, <1>2, <1>3, <1>t DEF TargetInv, TimeInv
<1>5. AheadInv'
  <2>1. newest <= clock
    BY DEF TargetInv, TimeInv
  <2>2. ASSUME NEW q \in Runs, q # r PROVE run'[q].pc = "idle" \/ q \in crowded'
    BY <1>1, <1>3, <2>2 DEF Active
  <2> QED
    BY <1>1, <1>2, <1>3, <2>1, <2>2 DEF AheadInv, Active
<1>6. JobInv'
  BY <1>2, <1>3 DEF TargetInv, JobInv
<1>7. ASSUME Retain > 0 PROVE ReachInv' /\ TargetKeepsUp'
  BY <1>1, <1>2, <1>3, <1>7 DEF TargetInv, ReachInv, Reached, Passed, TargetKeepsUp
<1> QED
  BY <1>4, <1>5, <1>6, <1>7 DEF TargetInv

\* Only transfers outlive the service.
LEMMA CrashTarget == ASSUME IInv, IInv', TargetInv, Crash PROVE TargetInv'
<1>1. PICK survivors \in SUBSET {r \in Runs : run[r].transfer = "running"} :
        run' = [r \in Runs |-> IF r \in survivors THEN [run[r] EXCEPT !.pc = "orphan"] ELSE Idle]
  BY DEF Crash
<1>2. UNCHANGED <<clock, newest, crowded, dst, lost>>
  BY DEF Crash
<1>t. clock \in Nat /\ newest \in Nat
  BY DEF IInv, TypeOK
<1>3. ASSUME NEW q \in Runs
      PROVE  /\ run'[q].snap <= clock /\ run'[q].transfer # "received"
             /\ run'[q].pc \in {"idle", "orphan"} /\ run'[q].job # "success"
             /\ run'[q].pc # "idle" => run[q].pc # "idle" /\ run'[q].snap = run[q].snap
  <2>1. CASE q \in survivors
    <3>1. run'[q] = [run[q] EXCEPT !.pc = "orphan"] /\ run[q].transfer = "running"
      BY <1>1, <2>1
    <3> QED
      BY <3>1, RunFacts
  <2>2. CASE q \notin survivors
    <3>1. run'[q] = Idle
      BY <1>1, <2>2
    <3> QED
      BY <3>1, <1>t
  <2> QED
    BY <2>1, <2>2
<1> HIDE DEF Run, NewRun, Idle
<1>4. TimeInv'
  BY <1>2, <1>3 DEF TargetInv, TimeInv
<1>5. AheadInv'
  BY <1>2, <1>3 DEF TargetInv, AheadInv, Active
<1>6. JobInv'
  BY <1>3 DEF JobInv
<1>7. ASSUME Retain > 0 PROVE ReachInv' /\ TargetKeepsUp'
  BY <1>2, <1>3, <1>7 DEF TargetInv, ReachInv, TargetKeepsUp
<1> QED
  BY <1>4, <1>5, <1>6, <1>7 DEF TargetInv

\* The clock goes on; what is left leaves runs, target and history alone.
LEMMA OthersTarget ==
    ASSUME IInv, TargetInv, UNCHANGED <<run, newest, crowded, dst, lost>>,
           clock' = clock \/ clock' = clock + 1
    PROVE  TargetInv'
<1>1. clock \in Nat /\ newest \in Nat /\ \A r \in Runs : run[r].snap \in Nat
  <2> HIDE DEF Run
  <2>1. \A r \in Runs : run[r] \in Run
    BY RunTyped
  <2>2. \A r \in Runs : run[r].snap \in Nat
    BY <2>1 DEF Run
  <2> QED
    BY <2>2 DEF IInv, TypeOK
<1>2. TimeInv'
  BY <1>1 DEF TargetInv, TimeInv
<1>3. AheadInv' /\ JobInv' /\ (Retain > 0 => ReachInv' /\ TargetKeepsUp')
  BY DEF TargetInv, AheadInv, Active, JobInv, ReachInv, Reached, Passed, TargetKeepsUp
<1> QED
  BY <1>2, <1>3 DEF TargetInv

\* The last of the undisturbed runs is on the target.
LEMMA InitTarget == Init => TargetInv
<1> SUFFICES ASSUME Init PROVE TargetInv
  OBVIOUS
<1>1. /\ clock = Before + 1 /\ newest = Before /\ lost = 0 /\ crowded = {} /\ Before \in Nat
      /\ run = [r \in Runs |-> Idle] /\ dst = (1 .. Before) \ Excess(1 .. Before)
  BY BeforeAssumption DEF Init
<1>2. Idle.pc = "idle" /\ Idle.job = "none" /\ Idle.transfer = "none" /\ Idle.snap = 0
  BY DEF Idle, NewRun
<1> HIDE DEF Idle, NewRun, Run
<1>3. TimeInv /\ AheadInv /\ JobInv /\ ReachInv
  BY <1>1, <1>2 DEF TimeInv, AheadInv, Active, JobInv, ReachInv
<1>4. ASSUME Retain > 0 PROVE TargetKeepsUp
  <2>1. CASE Before = 0
    BY <1>1, <2>1 DEF TargetKeepsUp
  <2>2. CASE Before > 0
    <3>1. {e \in 1 .. Before : e > Before} = {}
      BY <1>1
    <3>2. Cardinality({e \in 1 .. Before : e > Before}) = 0
      BY <3>1, FS_EmptySet
    <3>3. Before \notin Excess(1 .. Before)
      BY <1>4, <3>2, RetainAssumption DEF Excess
    <3>4. Before \in dst
      BY <1>1, <2>2, <3>3
    <3> QED
      BY <1>1, <3>4 DEF TargetKeepsUp
  <2> QED
    BY <1>1, <2>1, <2>2
<1> QED
  BY <1>3, <1>4 DEF TargetInv

LEMMA NextTarget == IInv /\ IInv' /\ TargetInv /\ [Next]_vars => TargetInv'
<1> SUFFICES ASSUME IInv, IInv', TargetInv, [Next]_vars PROVE TargetInv'
  OBVIOUS
<1>1. ASSUME NEW r \in Runs, Start(r) PROVE TargetInv'
  BY <1>1, StartTarget
<1>2. ASSUME NEW r \in Runs, Step(r) PROVE TargetInv'
  BY <1>2, HoldTarget, EndingTarget, ListSourceTarget, ListTargetTarget, DispatchTarget,
     SeesEndTarget, PruneListsTarget, PruneDestroysTarget, PruneStopsTarget, RecordsTarget
     DEF Step
<1>3. ASSUME NEW r \in Runs, Receive(r) \/ TransferBreaks(r) PROVE TargetInv'
  BY <1>3, ReceiveTarget, TransferBreaksTarget
<1>4. ASSUME NEW r \in Runs, JobEnds(r) \/ JobCancelled(r) \/ JobForgotten(r) PROVE TargetInv'
  BY <1>4, JobEndsTarget, JobCancelledTarget, JobForgottenTarget
<1>5. ASSUME NEW s \in src, ReleaseHoldsFor(s) \/ DestroySource(s) PROVE TargetInv'
  <2>1. UNCHANGED <<clock, run, newest, crowded, dst, lost>>
    BY <1>5 DEF ReleaseHoldsFor, DestroySource, rest
  <2> QED
    BY <2>1, OthersTarget
<1>6. ASSUME Tick \/ StartUp PROVE TargetInv'
  <2>1. /\ UNCHANGED <<run, newest, crowded, dst, lost>>
        /\ clock' = clock \/ clock' = clock + 1
    BY <1>6 DEF Tick, StartUp, pools
  <2> QED
    BY <2>1, OthersTarget
<1>7. CASE Crash
  BY <1>7, CrashTarget
<1>8. CASE UNCHANGED vars
  <2>1. UNCHANGED <<clock, run, newest, crowded, dst, lost>>
    BY <1>8 DEF vars
  <2> QED
    BY <2>1, OthersTarget
<1> QED
  BY <1>1, <1>2, <1>3, <1>4, <1>5, <1>6, <1>7, <1>8 DEF Next

\* Pruning and rolling back never leave the target older than what the history
\* says was sent, however many runs overlap, provided that something is to be kept
\* and but for what a run that was not alone rolled back: the history follows the
\* target and not the other way round.
THEOREM TargetFollowsHistory == Spec => []TargetKeepsUp
<1>1. Init => TargetInv
  BY InitTarget
<1>2. IInv /\ IInv' /\ TargetInv /\ [Next]_vars => TargetInv'
  BY NextTarget
<1>3. TargetInv => TargetKeepsUp
  BY DEF TargetInv, TargetKeepsUp
<1>4. Spec => []IInv
  BY RunInvariant
<1> QED
  BY <1>1, <1>2, <1>3, <1>4, PTL DEF Spec

=============================================================================
