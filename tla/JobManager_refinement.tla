------------------------ MODULE JobManager_refinement ------------------------
(***************************************************************************)
(* JobManager implements JobLifecycle: every step of the manager is one    *)
(* step of the lifecycle of one job, a pruning, a death or a return of the *)
(* service, or no step of the lifecycle at all.                            *)
(***************************************************************************)
EXTENDS JobManager_proofs

USE DEF Ended, ChildState, TerminalStatus, Terminal, Status, KillerState,
        StartPc, FinishPc, SupState, Record, NoRecord

\* A step that leaves the API's list, the records and the used identifiers
\* alone is a stuttering step of the lifecycle.
LEMMA LifecycleStutter ==
    ASSUME UNCHANGED <<Serving, Fresh, View, Saved>>
    PROVE  UNCHANGED Lifecycle!lifecycleVars
  BY DEF Lifecycle!lifecycleVars

LEMMA InternalSteps ==
    ASSUME IInv, NEW i \in Jobs,
           \/ StartRun(i) \/ StartLeft(i) \/ StartRight(i) \/ Snapshot(i)
           \/ AnnounceStart(i) \/ WaitLeft(i) \/ WaitRight(i) \/ FinishAnnounce(i)
           \/ CancelSignal(i) \/ Escalate(i) \/ ChildExits(i) \/ LoadRecordFails(i)
    PROVE  UNCHANGED Lifecycle!lifecycleVars
<1>1. UNCHANGED entries /\ (\A k \in Jobs : k \in entries => status'[k] = status[k])
  BY DEF IInv, TypeOK, FileInv, memory, StartRun, StartLeft, StartRight, Snapshot,
     AnnounceStart, WaitLeft, WaitRight, FinishAnnounce, CancelSignal, Escalate,
     ChildExits, LoadRecordFails
<1>2. UNCHANGED disk /\ UNCHANGED Serving
  BY DEF storage, service, Serving, StartRun, StartLeft, StartRight, Snapshot,
     AnnounceStart, WaitLeft, WaitRight, FinishAnnounce, CancelSignal, Escalate,
     ChildExits, LoadRecordFails
<1>3. UNCHANGED Fresh
  BY DEF Fresh, IInv, TypeOK, StartRun, StartLeft, StartRight, Snapshot,
     AnnounceStart, WaitLeft, AfterLeft, WaitRight, FinishAnnounce, CancelSignal, Escalate,
     ChildExits, LoadRecordFails
<1>4. UNCHANGED View
  BY <1>1 DEF View
<1>5. UNCHANGED Saved
  BY <1>2 DEF Saved
<1> QED
  BY <1>2, <1>3, <1>4, <1>5, LifecycleStutter

LEMMA RegisterBegins ==
    ASSUME IInv, NEW i \in Jobs, Register(i)
    PROVE  Lifecycle!Begin(i)
<1>1. status[i] = "running" /\ i \in Fresh
  BY DEF IInv, ThreadInv, Register, Fresh
<1>2. Fresh' = Fresh \ {i}
  BY DEF Fresh, IInv, TypeOK, Register
<1>3. View' = [View EXCEPT ![i] = "running"]
  BY <1>1 DEF View, Register
<1>4. Serving /\ Serving' = Serving /\ Saved' = Saved
  BY DEF Register, Serving, Saved, storage, service
<1> QED
  BY <1>1, <1>2, <1>3, <1>4 DEF Lifecycle!Begin

LEMMA FailedStartDiscards ==
    ASSUME IInv, NEW i \in Jobs, StartRightFails(i)
    PROVE  Lifecycle!Discard(i)
<1>1. i \in Fresh /\ Fresh' = Fresh \ {i}
  BY DEF Fresh, IInv, TypeOK, StartRightFails
<1>2. Serving /\ Serving' = Serving /\ View' = View /\ Saved' = Saved
  BY DEF StartRightFails, Serving, View, Saved, memory, storage, service
<1> QED
  BY <1>1, <1>2 DEF Lifecycle!Discard

LEMMA CancelSettles ==
    ASSUME IInv, NEW i \in Jobs, CancelMark(i)
    PROVE  Lifecycle!Settle(i)
<1>1. i \in entries /\ status[i] = "running"
  BY DEF IInv, TypeOK, FileInv, CancelMark
<1>2. View[i] = "running" /\ View' = [View EXCEPT ![i] = "cancelled"]
  BY <1>1 DEF View, CancelMark, IInv, TypeOK
<1>3. Serving /\ Serving' = Serving /\ Fresh' = Fresh /\ Saved' = Saved
  BY DEF CancelMark, Serving, Fresh, Saved, storage, service
<1> QED
  BY <1>2, <1>3 DEF Lifecycle!Settle, Lifecycle!Outcome

\* finish settles a job that is still running; a cancelled or removed one is
\* not shown differently.
LEMMA FinishSettles ==
    ASSUME IInv, NEW i \in Jobs, FinishStatus(i)
    PROVE  Lifecycle!Settle(i) \/ UNCHANGED Lifecycle!lifecycleVars
<1>1. Serving /\ Serving' = Serving /\ Saved' = Saved
  BY DEF FinishStatus, Serving, Saved, storage, service
<1>2. Fresh' = Fresh
  BY DEF FinishStatus, Fresh, IInv, TypeOK
<1>3. status[i] \in {"running", "cancelled"}
      /\ FinalStatus(i) \in {"success", "failed", "cancelled"}
      /\ (status[i] = "cancelled" => FinalStatus(i) = "cancelled")
  BY DEF FinishStatus, FinalStatus, IInv, ThreadInv
<1>4. status' = [status EXCEPT ![i] = FinalStatus(i)] /\ entries' = entries
  BY DEF FinishStatus
<1>5. CASE i \in entries /\ status[i] = "running"
  <2>1. View[i] = "running" /\ View' = [View EXCEPT ![i] = FinalStatus(i)]
    BY <1>4, <1>5 DEF View, IInv, TypeOK
  <2> QED
    BY <1>1, <1>2, <1>3, <2>1 DEF Lifecycle!Settle, Lifecycle!Outcome
<1>6. CASE ~(i \in entries /\ status[i] = "running")
  <2>1. View' = View
    BY <1>3, <1>4, <1>6 DEF View, IInv, TypeOK
  <2> QED
    BY <1>1, <1>2, <2>1, LifecycleStutter
<1> QED
  BY <1>5, <1>6

LEMMA PersistSaves ==
    ASSUME IInv, NEW i \in Jobs, PersistStart(i) \/ FinishPersist(i)
    PROVE  Lifecycle!Save(i) \/ UNCHANGED Lifecycle!lifecycleVars
<1>1. Serving /\ Serving' = Serving /\ View' = View
  BY DEF PersistStart, FinishPersist, Serving, View, memory, service
<1>2. Fresh' = Fresh /\ i \notin Fresh
  BY DEF PersistStart, FinishPersist, Fresh, IInv, TypeOK
<1>3. CASE UNCHANGED disk
  <2>1. Saved' = Saved
    BY <1>3 DEF Saved
  <2> QED
    BY <1>1, <1>2, <2>1, LifecycleStutter
<1>4. CASE disk' = [disk EXCEPT ![i] = snap[i]]
  <2>1. Saved' = [Saved EXCEPT ![i] = snap[i].status]
    BY <1>4 DEF Saved, IInv, TypeOK
  <2>2. snap[i].status \in {"running", "success", "failed", "cancelled"}
    <3>1. ThreadInv(i)
      BY DEF IInv
    <3>2. CASE PersistStart(i)
      BY <3>1, <3>2 DEF PersistStart, ThreadInv
    <3>3. CASE FinishPersist(i)
      BY <3>1, <3>3 DEF FinishPersist, ThreadInv
    <3> QED
      BY <3>2, <3>3
  <2>3. Saved[i] \in {"none", "running"} \/ snap[i].status = Saved[i]
    <3>1. ThreadInv(i) /\ FileInv(i)
      BY DEF IInv
    <3>2. CASE PersistStart(i)
      BY <3>1, <3>2 DEF PersistStart, FileInv, Saved
    <3>3. CASE FinishPersist(i)
      <4>1. snap[i].status = status[i]
        BY <3>1, <3>3 DEF FinishPersist, ThreadInv
      <4>2. disk[i].status \in {"none", "running"}
            \/ (disk[i].status = "cancelled" /\ status[i] = "cancelled")
        BY <3>1, <3>3 DEF FinishPersist, FileInv
      <4> QED
        BY <4>1, <4>2 DEF Saved
    <3> QED
      BY <3>2, <3>3
  <2>4. snap[i].status \in {"running", status[i]}
    <3>1. ThreadInv(i) /\ FileInv(i)
      BY DEF IInv
    <3>2. CASE PersistStart(i)
      BY <3>1, <3>2 DEF PersistStart, ThreadInv, FileInv
    <3>3. CASE FinishPersist(i)
      BY <3>1, <3>3 DEF FinishPersist, ThreadInv
    <3> QED
      BY <3>2, <3>3
  <2>5. View[i] # "unlisted" => snap[i].status \in {"running", View[i]}
    BY <2>4 DEF View
  <2> QED
    BY <1>1, <1>2, <2>1, <2>2, <2>3, <2>5
       DEF Lifecycle!Save, Lifecycle!Outcome, Lifecycle!Open
<1> QED
  BY <1>3, <1>4 DEF PersistStart, FinishPersist, WriteRecord

LEMMA RemoveForgets ==
    ASSUME IInv, NEW i \in Jobs, RemoveEntry(i)
    PROVE  Lifecycle!Forget
<1>1. Serving /\ Serving' = Serving /\ Fresh' = Fresh /\ Saved' = Saved
  BY DEF RemoveEntry, Serving, Fresh, Saved, storage, service
<1>2. View[i] \in TerminalStatus
  BY DEF RemoveEntry, View
<1>3. View' = [j \in Jobs |-> IF j \in {i} THEN "unlisted" ELSE View[j]]
  BY DEF RemoveEntry, View
<1>4. Saved' = [j \in Jobs |-> IF j \in {} THEN "none" ELSE Saved[j]]
  BY <1>1 DEF Saved
<1>5. Lifecycle!Dropped({i})
  BY <1>2, <1>3, <1>4, {} \in SUBSET {i} DEF Lifecycle!Dropped, Lifecycle!Outcome
<1> QED
  BY <1>1, <1>5 DEF Lifecycle!Forget

\* Unlinking the files of a set of jobs erases the records of some of them.
LEMMA UnlinkErases ==
    ASSUME TypeOK, NEW D \in SUBSET Jobs, Unlink(D)
    PROVE  \E E \in SUBSET D :
              Saved' = [j \in Jobs |-> IF j \in E THEN "none" ELSE Saved[j]]
<1>1. CASE disk' = [j \in Jobs |-> IF j \in D THEN NoRecord ELSE disk[j]]
  BY <1>1 DEF Saved
<1>2. ASSUME NEW k \in D,
             disk' = [j \in Jobs |-> IF j \in D \ {k} THEN NoRecord ELSE disk[j]]
      PROVE  \E E \in SUBSET D :
                Saved' = [j \in Jobs |-> IF j \in E THEN "none" ELSE Saved[j]]
  <2>1. Saved' = [j \in Jobs |-> IF j \in D \ {k} THEN "none" ELSE Saved[j]]
    BY <1>2 DEF Saved
  <2> QED
    BY <2>1
<1> QED
  BY <1>1, <1>2 DEF Unlink

LEMMA PruneDrops ==
    ASSUME IInv, PruneLocked, UNCHANGED status
    PROVE  \E S \in SUBSET Jobs : Lifecycle!Dropped(S)
<1>1. PICK D \in SUBSET Jobs :
          /\ \A d \in D : d \in entries /\ Terminal(status[d])
          /\ entries' = entries \ D
          /\ Unlink(D)
  BY PruneFacts DEF IInv
<1>2. \A d \in D : View[d] \in TerminalStatus
  BY <1>1 DEF View
<1>3. View' = [j \in Jobs |-> IF j \in D THEN "unlisted" ELSE View[j]]
  BY <1>1 DEF View
<1>4. \E E \in SUBSET D :
          Saved' = [j \in Jobs |-> IF j \in E THEN "none" ELSE Saved[j]]
  BY <1>1, UnlinkErases DEF IInv
<1>5. Lifecycle!Dropped(D)
  BY <1>2, <1>3, <1>4 DEF Lifecycle!Dropped, Lifecycle!Outcome
<1> QED
  BY <1>5

LEMMA RemoveFileErases ==
    ASSUME IInv, NEW i \in Jobs, RemoveFile(i)
    PROVE  Lifecycle!Erase(i) \/ UNCHANGED Lifecycle!lifecycleVars
<1>1. Serving /\ Serving' = Serving /\ Fresh' = Fresh /\ View' = View
  BY DEF RemoveFile, Serving, Fresh, View, service
<1>2. View[i] = "unlisted"
  BY DEF RemoveFile, View, IInv, FileInv
<1>3. PICK E \in SUBSET {i} :
          Saved' = [j \in Jobs |-> IF j \in E THEN "none" ELSE Saved[j]]
  BY UnlinkErases, {i} \in SUBSET Jobs DEF IInv, RemoveFile
<1>4. Saved' = Saved \/ Saved' = [Saved EXCEPT ![i] = "none"]
  BY <1>3 DEF Saved
<1> QED
  BY <1>1, <1>2, <1>4, LifecycleStutter DEF Lifecycle!Erase

LEMMA CrashDies ==
    ASSUME IInv, Crash
    PROVE  Lifecycle!Die
<1>1. Serving' = FALSE /\ Saved' = Saved
  BY DEF Crash, Serving, Saved, storage
<1>2. Fresh' \in SUBSET Fresh
  BY DEF Crash, Fresh
<1>3. View' = [j \in Jobs |-> "unlisted"]
  BY DEF Crash, View
<1> QED
  BY <1>1, <1>2, <1>3 DEF Lifecycle!Die

LEMMA LoadReturns ==
    ASSUME IInv, NEW i \in Jobs, LoadRecord(i)
    PROVE  Lifecycle!Return(i)
<1> DEFINE r == Loaded(disk[i], clock + 1)
<1>1. ~Serving /\ Serving' = Serving /\ Fresh' = Fresh
  BY DEF LoadRecord, Serving, Fresh
<1>2. i \notin entries /\ disk[i].status # "none"
  BY DEF LoadRecord, IInv, FileInv
<1>3. View[i] = "unlisted" /\ Saved[i] # "none"
  BY <1>2 DEF View, Saved
<1>4. r.status = IF Saved[i] = "running" THEN "interrupted" ELSE Saved[i]
  BY DEF Loaded, Saved
<1>5. entries' = entries \cup {i} /\ status' = [status EXCEPT ![i] = r.status]
      /\ (disk' = disk \/ disk' = [disk EXCEPT ![i] = r])
  BY DEF LoadRecord, WriteRecord, storage
<1> HIDE DEF r
<1>6. View' = [View EXCEPT ![i] = r.status]
  BY <1>5 DEF View, IInv, TypeOK
<1>7. Saved' = Saved \/ Saved' = [Saved EXCEPT ![i] = r.status]
  BY <1>5 DEF Saved, IInv, TypeOK
<1>8. View'[i] = r.status
  BY <1>6 DEF View
<1> QED
  BY <1>1, <1>3, <1>4, <1>6, <1>7, <1>8 DEF Lifecycle!Return

LEMMA InitImplements == Init => Lifecycle!Init
  BY DEF Init, Lifecycle!Init, Serving, Fresh, View, Saved

LEMMA StepImplements ==
    ASSUME IInv, [Next]_vars
    PROVE  [Lifecycle!Next]_(Lifecycle!lifecycleVars)
<1>1. ASSUME NEW i \in Jobs, FinishPrune(i)
      PROVE  Lifecycle!Forget
  <2>1. Serving /\ Serving' = Serving /\ Fresh' = Fresh
    BY <1>1 DEF FinishPrune, Serving, Fresh, service, IInv, TypeOK
  <2>2. \E S \in SUBSET Jobs : Lifecycle!Dropped(S)
    BY <1>1, PruneDrops DEF FinishPrune
  <2> QED
    BY <2>1, <2>2 DEF Lifecycle!Forget
<1>2. CASE LoadDone
  <2>1. ~Serving /\ Serving' = TRUE /\ Fresh' = Fresh
    BY <1>2 DEF LoadDone, Serving, Fresh
  <2>2. \E S \in SUBSET Jobs : Lifecycle!Dropped(S)
    BY <1>2, PruneDrops DEF LoadDone
  <2> QED
    BY <2>1, <2>2 DEF Lifecycle!Serve, Lifecycle!Next
<1>3. CASE Restart
  <2>1. UNCHANGED <<Serving, Fresh, View, Saved>>
    BY <1>3 DEF Restart, Serving, Fresh, View, Saved, memory, storage
  <2> QED
    BY <2>1, LifecycleStutter
<1>4. CASE UNCHANGED vars
  <2>1. UNCHANGED <<Serving, Fresh, View, Saved>>
    BY <1>4 DEF vars, Serving, Fresh, View, Saved, memory, storage, service
  <2> QED
    BY <2>1, LifecycleStutter
<1>5. ASSUME NEW i \in Jobs, Supervise(i)
      PROVE  [Lifecycle!Next]_(Lifecycle!lifecycleVars)
  <2>1. CASE StartRight(i) \/ Snapshot(i) \/ AnnounceStart(i) \/ WaitLeft(i)
               \/ WaitRight(i) \/ FinishAnnounce(i)
    BY <2>1, InternalSteps
  <2>2. CASE StartRightFails(i) \/ Register(i)
    BY <2>2, FailedStartDiscards, RegisterBegins DEF Lifecycle!Next
  <2>3. CASE FinishStatus(i) \/ PersistStart(i) \/ FinishPersist(i)
    BY <2>3, FinishSettles, PersistSaves DEF Lifecycle!Next
  <2>4. CASE FinishPrune(i)
    BY <2>4, <1>1 DEF Lifecycle!Next
  <2> QED
    BY <1>5, <2>1, <2>2, <2>3, <2>4 DEF Supervise
<1>6. ASSUME NEW i \in Jobs, \/ StartRun(i) \/ StartLeft(i) \/ CancelSignal(i)
                             \/ Escalate(i) \/ ChildExits(i) \/ LoadRecordFails(i)
      PROVE  [Lifecycle!Next]_(Lifecycle!lifecycleVars)
  BY <1>6, InternalSteps
<1>7. ASSUME NEW i \in Jobs,
             CancelMark(i) \/ RemoveEntry(i) \/ RemoveFile(i) \/ LoadRecord(i)
      PROVE  [Lifecycle!Next]_(Lifecycle!lifecycleVars)
  BY <1>7, CancelSettles, RemoveForgets, RemoveFileErases, LoadReturns DEF Lifecycle!Next
<1>8. CASE Crash
  BY <1>8, CrashDies DEF Lifecycle!Next
<1> QED
  BY <1>2, <1>3, <1>4, <1>5, <1>6, <1>7, <1>8 DEF Next, Load

\* What clients see through the API and across restarts is the lifecycle.
THEOREM ManagerImplementsLifecycle == Spec => ImplementsLifecycle
<1>1. Spec => Lifecycle!Spec
  BY InitImplements, StepImplements, InductiveInvariant, PTL DEF Spec, Lifecycle!Spec
<1> QED
  BY <1>1 DEF ImplementsLifecycle
=============================================================================
