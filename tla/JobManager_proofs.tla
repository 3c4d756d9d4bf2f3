-------------------------- MODULE JobManager_proofs --------------------------
(***************************************************************************)
(* Theorems of JobManager, for every set of jobs, every retention limit    *)
(* and every number of crashes and storage faults.  One lemma per action   *)
(* shows that the step keeps IInv; it has one step per part of IInv.       *)
(***************************************************************************)
EXTENDS JobManager, FiniteSetTheorems, TLAPS

\* The sets of values are small and used in every step.
USE DEF Ended, ChildState, TerminalStatus, Terminal, Status, KillerState,
        StartPc, FinishPc, SupState, Record, NoRecord

-----------------------------------------------------------------------------
(* Operators *)

\* A write changes one file, to what it writes or not at all.
LEMMA WriteRecordFacts ==
    ASSUME TypeOK, NEW i \in Jobs, NEW r \in Record, WriteRecord(i, r)
    PROVE  /\ disk' \in [Jobs -> Record]
           /\ faults' \in 0 .. MaxFaults
           /\ faults' = 0 => faults = 0 /\ disk'[i] = r
           /\ disk'[i] \in {r, disk[i]}
           /\ \A k \in Jobs : k # i => disk'[k] = disk[k]
<1>1. CASE disk' = [disk EXCEPT ![i] = r] /\ UNCHANGED faults
  BY <1>1 DEF TypeOK
<1>2. CASE faults < MaxFaults /\ faults' = faults + 1 /\ UNCHANGED disk
  BY <1>2, BoundsAssumption DEF TypeOK
<1> QED
  BY <1>1, <1>2 DEF WriteRecord

\* Unlinking touches no file but those named.
LEMMA UnlinkFacts ==
    ASSUME TypeOK, NEW D \in SUBSET Jobs, Unlink(D)
    PROVE  /\ disk' \in [Jobs -> Record]
           /\ faults' \in 0 .. MaxFaults
           /\ faults' = 0 => faults = 0
           /\ \A k \in Jobs : disk'[k] \in {disk[k], NoRecord}
           /\ \A k \in Jobs : k \notin D => disk'[k] = disk[k]
  BY BoundsAssumption DEF TypeOK, Unlink

\* Pruning drops terminal jobs only, from the list and from disk.
LEMMA PruneFacts ==
    ASSUME TypeOK, PruneLocked
    PROVE  \E D \in SUBSET Jobs :
              /\ \A d \in D : d \in entries /\ Terminal(status[d])
              /\ entries' = entries \ D
              /\ Unlink(D)
<1>1. PICK D \in Victims(entries, status, finishedAt) :
          entries' = entries \ D /\ Unlink(D)
  BY DEF PruneLocked
<1>2. D \subseteq Prunable(entries, status)
  BY DEF Victims
<1>3. D \in SUBSET Jobs /\ \A d \in D : d \in entries /\ Terminal(status[d])
  BY <1>2 DEF Prunable, TypeOK
<1> QED
  BY <1>1, <1>3

-----------------------------------------------------------------------------
(* Steps *)

LEMMA InitInv == Init => IInv
  BY BoundsAssumption DEF Init, IInv, TypeOK, ThreadInv, FileInv, ChildInv, EventInv, Live

LEMMA StutterInv == IInv /\ UNCHANGED vars => IInv'
  BY DEF IInv, TypeOK, ThreadInv, FileInv, ChildInv, EventInv, RunErr,
         vars, memory, children, storage, service

LEMMA StartRunInv ==
    ASSUME IInv, NEW i \in Jobs, StartRun(i)
    PROVE  IInv'
<1> USE DEF IInv, StartRun, memory, children, storage, service
<1>1. TypeOK'
  BY DEF TypeOK, ThreadInv
<1>2. ASSUME NEW j \in Jobs
      PROVE  ThreadInv(j)'
  BY <1>2 DEF TypeOK, ThreadInv
<1>3. ASSUME NEW j \in Jobs
      PROVE  FileInv(j)'
  BY <1>3 DEF TypeOK, ThreadInv, FileInv
<1>4. ASSUME NEW j \in Jobs
      PROVE  ChildInv(j)'
  BY <1>4 DEF TypeOK, ThreadInv, ChildInv, RunErr
<1>5. ASSUME NEW j \in Jobs
      PROVE  EventInv(j)'
  BY <1>5 DEF TypeOK, ThreadInv, EventInv
<1> QED
  BY <1>1, <1>2, <1>3, <1>4, <1>5

LEMMA StartLeftInv ==
    ASSUME IInv, NEW i \in Jobs, StartLeft(i)
    PROVE  IInv'
<1> USE DEF IInv, StartLeft, memory, children, storage, service
<1>1. TypeOK'
  BY DEF TypeOK, ThreadInv
<1>2. ASSUME NEW j \in Jobs
      PROVE  ThreadInv(j)'
  BY <1>2 DEF TypeOK, ThreadInv
<1>3. ASSUME NEW j \in Jobs
      PROVE  FileInv(j)'
  BY <1>3 DEF TypeOK, ThreadInv, FileInv
<1>4. ASSUME NEW j \in Jobs
      PROVE  ChildInv(j)'
  BY <1>4 DEF TypeOK, ThreadInv, ChildInv, RunErr
<1>5. ASSUME NEW j \in Jobs
      PROVE  EventInv(j)'
  BY <1>5 DEF TypeOK, ThreadInv, EventInv
<1> QED
  BY <1>1, <1>2, <1>3, <1>4, <1>5

LEMMA StartRightInv ==
    ASSUME IInv, NEW i \in Jobs, StartRight(i)
    PROVE  IInv'
<1> USE DEF IInv, StartRight, memory, children, storage, service
<1>1. TypeOK'
  BY DEF TypeOK, ThreadInv
<1>2. ASSUME NEW j \in Jobs
      PROVE  ThreadInv(j)'
  BY <1>2 DEF TypeOK, ThreadInv
<1>3. ASSUME NEW j \in Jobs
      PROVE  FileInv(j)'
  BY <1>3 DEF TypeOK, ThreadInv, FileInv
<1>4. ASSUME NEW j \in Jobs
      PROVE  ChildInv(j)'
  BY <1>4 DEF TypeOK, ThreadInv, ChildInv, RunErr
<1>5. ASSUME NEW j \in Jobs
      PROVE  EventInv(j)'
  BY <1>5 DEF TypeOK, ThreadInv, EventInv
<1> QED
  BY <1>1, <1>2, <1>3, <1>4, <1>5

LEMMA StartRightFailsInv ==
    ASSUME IInv, NEW i \in Jobs, StartRightFails(i)
    PROVE  IInv'
<1> USE DEF IInv, StartRightFails, LeftAfterFailedStart, memory, children, storage, service
<1>1. TypeOK'
  BY DEF TypeOK, ThreadInv
<1>2. ASSUME NEW j \in Jobs
      PROVE  ThreadInv(j)'
  BY <1>2 DEF TypeOK, ThreadInv
<1>3. ASSUME NEW j \in Jobs
      PROVE  FileInv(j)'
  BY <1>3 DEF TypeOK, ThreadInv, FileInv
<1>4. ASSUME NEW j \in Jobs
      PROVE  ChildInv(j)'
  BY <1>4 DEF TypeOK, ThreadInv, ChildInv, RunErr
<1>5. ASSUME NEW j \in Jobs
      PROVE  EventInv(j)'
  BY <1>5 DEF TypeOK, ThreadInv, EventInv
<1> QED
  BY <1>1, <1>2, <1>3, <1>4, <1>5

LEMMA RegisterInv ==
    ASSUME IInv, NEW i \in Jobs, Register(i)
    PROVE  IInv'
<1> USE DEF IInv, Register, memory, children, storage, service
<1>1. TypeOK'
  BY DEF TypeOK, ThreadInv
<1>2. ASSUME NEW j \in Jobs
      PROVE  ThreadInv(j)'
  BY <1>2 DEF TypeOK, ThreadInv
<1>3. ASSUME NEW j \in Jobs
      PROVE  FileInv(j)'
  BY <1>3 DEF TypeOK, ThreadInv, FileInv
<1>4. ASSUME NEW j \in Jobs
      PROVE  ChildInv(j)'
  BY <1>4 DEF TypeOK, ThreadInv, ChildInv, RunErr
<1>5. ASSUME NEW j \in Jobs
      PROVE  EventInv(j)'
  BY <1>5 DEF TypeOK, ThreadInv, EventInv
<1> QED
  BY <1>1, <1>2, <1>3, <1>4, <1>5

LEMMA SnapshotInv ==
    ASSUME IInv, NEW i \in Jobs, Snapshot(i)
    PROVE  IInv'
<1> USE DEF IInv, Snapshot, memory, children, storage, service
<1>1. TypeOK'
  BY DEF TypeOK, ThreadInv
<1>2. ASSUME NEW j \in Jobs
      PROVE  ThreadInv(j)'
  BY <1>2 DEF TypeOK, ThreadInv
<1>3. ASSUME NEW j \in Jobs
      PROVE  FileInv(j)'
  BY <1>3 DEF TypeOK, ThreadInv, FileInv
<1>4. ASSUME NEW j \in Jobs
      PROVE  ChildInv(j)'
  BY <1>4 DEF TypeOK, ThreadInv, ChildInv, RunErr
<1>5. ASSUME NEW j \in Jobs
      PROVE  EventInv(j)'
  BY <1>5 DEF TypeOK, ThreadInv, EventInv
<1> QED
  BY <1>1, <1>2, <1>3, <1>4, <1>5

LEMMA PersistStartInv ==
    ASSUME IInv, NEW i \in Jobs, PersistStart(i)
    PROVE  IInv'
<1> USE DEF IInv, PersistStart, memory, children, storage, service
<1>0. /\ snap[i] \in Record /\ WriteRecord(i, snap[i])
  BY DEF TypeOK
<1>w. /\ disk' \in [Jobs -> Record] /\ faults' \in 0 .. MaxFaults
      /\ faults' = 0 => faults = 0 /\ disk'[i] = snap[i]
      /\ disk'[i] \in {snap[i], disk[i]}
      /\ \A k \in Jobs : k # i => disk'[k] = disk[k]
  BY <1>0, WriteRecordFacts
<1>1. TypeOK'
  BY <1>w DEF TypeOK, ThreadInv
<1>2. ASSUME NEW j \in Jobs
      PROVE  ThreadInv(j)'
  BY <1>2, <1>w DEF TypeOK, ThreadInv
<1>3. ASSUME NEW j \in Jobs
      PROVE  FileInv(j)'
  BY <1>3, <1>w DEF TypeOK, ThreadInv, FileInv
<1>4. ASSUME NEW j \in Jobs
      PROVE  ChildInv(j)'
  BY <1>4, <1>w DEF TypeOK, ThreadInv, ChildInv, RunErr
<1>5. ASSUME NEW j \in Jobs
      PROVE  EventInv(j)'
  BY <1>5, <1>w DEF TypeOK, ThreadInv, EventInv
<1> QED
  BY <1>1, <1>2, <1>3, <1>4, <1>5

LEMMA AnnounceStartInv ==
    ASSUME IInv, NEW i \in Jobs, AnnounceStart(i)
    PROVE  IInv'
<1> USE DEF IInv, AnnounceStart, Fire, memory, children, storage, service
<1>1. TypeOK'
  BY DEF TypeOK, ThreadInv
<1>2. ASSUME NEW j \in Jobs
      PROVE  ThreadInv(j)'
  BY <1>2 DEF TypeOK, ThreadInv
<1>3. ASSUME NEW j \in Jobs
      PROVE  FileInv(j)'
  BY <1>3 DEF TypeOK, ThreadInv, FileInv
<1>4. ASSUME NEW j \in Jobs
      PROVE  ChildInv(j)'
  BY <1>4 DEF TypeOK, ThreadInv, ChildInv, RunErr
<1>5. ASSUME NEW j \in Jobs
      PROVE  EventInv(j)'
  <2>0. /\ snap[i].status \in Status /\ status' = status
        /\ snap[i].status = "running" \/ (snap[i].status = "cancelled" /\ status[i] = "cancelled")
        /\ Len(fired[i]) = 0 /\ fired[i] \in Seq(Status)
    <3>1. ThreadInv(i) /\ FileInv(i) /\ EventInv(i) /\ sup[i] = "written"
      OBVIOUS
    <3>2. snap[i].status \in {"running", "cancelled"}
      BY <3>1 DEF ThreadInv
    <3>3. snap[i].status = "cancelled" => status[i] = "cancelled"
      BY <3>1 DEF FileInv
    <3>4. Len(fired[i]) = 0 /\ fired[i] \in Seq(Status) /\ status' = status
      BY <3>1 DEF EventInv, TypeOK
    <3> QED
      BY <3>2, <3>3, <3>4
  <2>1. CASE j = i
    <3>1. fired'[i] = Append(fired[i], snap[i].status)
      BY DEF TypeOK
    <3>2. Len(fired'[i]) = 1 /\ fired'[i][1] = snap[i].status
      BY <2>0, <3>1
    <3>3. sup'[i] = "waitLeft"
      BY DEF TypeOK
    <3> QED
      BY ONLY <2>0, <2>1, <3>2, <3>3 DEF EventInv
  <2>2. CASE j # i
    BY <1>5, <2>2 DEF TypeOK, EventInv
  <2> QED
    BY <2>1, <2>2
<1> QED
  BY <1>1, <1>2, <1>3, <1>4, <1>5

LEMMA WaitLeftInv ==
    ASSUME IInv, NEW i \in Jobs, WaitLeft(i)
    PROVE  IInv'
<1> USE DEF IInv, WaitLeft, AfterLeft, memory, children, storage, service
<1>1. TypeOK'
  BY DEF TypeOK, ThreadInv
<1>2. ASSUME NEW j \in Jobs
      PROVE  ThreadInv(j)'
  BY <1>2 DEF TypeOK, ThreadInv
<1>3. ASSUME NEW j \in Jobs
      PROVE  FileInv(j)'
  BY <1>3 DEF TypeOK, ThreadInv, FileInv
<1>4. ASSUME NEW j \in Jobs
      PROVE  ChildInv(j)'
  BY <1>4 DEF TypeOK, ThreadInv, ChildInv, RunErr
<1>5. ASSUME NEW j \in Jobs
      PROVE  EventInv(j)'
  BY <1>5 DEF TypeOK, ThreadInv, EventInv
<1> QED
  BY <1>1, <1>2, <1>3, <1>4, <1>5

LEMMA WaitRightInv ==
    ASSUME IInv, NEW i \in Jobs, WaitRight(i)
    PROVE  IInv'
<1> USE DEF IInv, WaitRight, memory, children, storage, service
<1>1. TypeOK'
  BY DEF TypeOK, ThreadInv
<1>2. ASSUME NEW j \in Jobs
      PROVE  ThreadInv(j)'
  BY <1>2 DEF TypeOK, ThreadInv
<1>3. ASSUME NEW j \in Jobs
      PROVE  FileInv(j)'
  BY <1>3 DEF TypeOK, ThreadInv, FileInv
<1>4. ASSUME NEW j \in Jobs
      PROVE  ChildInv(j)'
  BY <1>4 DEF TypeOK, ThreadInv, ChildInv, RunErr
<1>5. ASSUME NEW j \in Jobs
      PROVE  EventInv(j)'
  BY <1>5 DEF TypeOK, ThreadInv, EventInv
<1> QED
  BY <1>1, <1>2, <1>3, <1>4, <1>5

LEMMA FinishStatusInv ==
    ASSUME IInv, NEW i \in Jobs, FinishStatus(i)
    PROVE  IInv'
<1> USE DEF IInv, FinishStatus, FinalStatus, RunErr, memory, children, storage, service
<1>1. TypeOK'
  BY DEF TypeOK, ThreadInv
<1>2. ASSUME NEW j \in Jobs
      PROVE  ThreadInv(j)'
  BY <1>2 DEF TypeOK, ThreadInv
<1>3. ASSUME NEW j \in Jobs
      PROVE  FileInv(j)'
  BY <1>3 DEF TypeOK, ThreadInv, FileInv
<1>4. ASSUME NEW j \in Jobs
      PROVE  ChildInv(j)'
  BY <1>4 DEF TypeOK, ThreadInv, ChildInv, RunErr
<1>5. ASSUME NEW j \in Jobs
      PROVE  EventInv(j)'
  BY <1>5 DEF TypeOK, ThreadInv, EventInv
<1> QED
  BY <1>1, <1>2, <1>3, <1>4, <1>5

LEMMA FinishPersistInv ==
    ASSUME IInv, NEW i \in Jobs, FinishPersist(i)
    PROVE  IInv'
<1> USE DEF IInv, FinishPersist, memory, children, storage, service
<1>0. /\ snap[i] \in Record /\ WriteRecord(i, snap[i])
  BY DEF TypeOK
<1>w. /\ disk' \in [Jobs -> Record] /\ faults' \in 0 .. MaxFaults
      /\ faults' = 0 => faults = 0 /\ disk'[i] = snap[i]
      /\ disk'[i] \in {snap[i], disk[i]}
      /\ \A k \in Jobs : k # i => disk'[k] = disk[k]
  BY <1>0, WriteRecordFacts
<1>1. TypeOK'
  BY <1>w DEF TypeOK, ThreadInv
<1>2. ASSUME NEW j \in Jobs
      PROVE  ThreadInv(j)'
  BY <1>2, <1>w DEF TypeOK, ThreadInv
<1>3. ASSUME NEW j \in Jobs
      PROVE  FileInv(j)'
  BY <1>3, <1>w DEF TypeOK, ThreadInv, FileInv
<1>4. ASSUME NEW j \in Jobs
      PROVE  ChildInv(j)'
  BY <1>4, <1>w DEF TypeOK, ThreadInv, ChildInv, RunErr
<1>5. ASSUME NEW j \in Jobs
      PROVE  EventInv(j)'
  BY <1>5, <1>w DEF TypeOK, ThreadInv, EventInv
<1> QED
  BY <1>1, <1>2, <1>3, <1>4, <1>5

LEMMA FinishAnnounceInv ==
    ASSUME IInv, NEW i \in Jobs, FinishAnnounce(i)
    PROVE  IInv'
<1> USE DEF IInv, FinishAnnounce, Fire, memory, children, storage, service
<1>1. TypeOK'
  BY DEF TypeOK, ThreadInv
<1>2. ASSUME NEW j \in Jobs
      PROVE  ThreadInv(j)'
  BY <1>2 DEF TypeOK, ThreadInv
<1>3. ASSUME NEW j \in Jobs
      PROVE  FileInv(j)'
  BY <1>3 DEF TypeOK, ThreadInv, FileInv
<1>4. ASSUME NEW j \in Jobs
      PROVE  ChildInv(j)'
  BY <1>4 DEF TypeOK, ThreadInv, ChildInv, RunErr
<1>5. ASSUME NEW j \in Jobs
      PROVE  EventInv(j)'
  <2>0. snap[i].status = status[i] /\ status[i] \in Status
    BY DEF TypeOK, ThreadInv
  <2>1. fired' = [fired EXCEPT ![i] = Append(@, status[i])] /\ status[i] \in Status
    BY <2>0
  <2>2. /\ Len(fired'[i]) = Len(fired[i]) + 1
        /\ fired'[i][Len(fired[i]) + 1] = status[i]
        /\ Len(fired[i]) = 1 => fired'[i][1] = fired[i][1]
    BY <2>1 DEF TypeOK
  <2>3. CASE j = i
    <3>1. /\ EventInv(i) /\ sup[i] = "recorded" /\ sup'[i] = "announced" /\ status' = status
      BY DEF TypeOK
    <3>2. Len(fired[i]) = 1
      BY <3>1 DEF EventInv
    <3>3. Len(fired'[i]) = 2 /\ fired'[i][2] = status[i] /\ fired'[i][1] = fired[i][1]
      BY <2>2, <3>2
    <3> QED
      BY ONLY <2>3, <3>1, <3>2, <3>3 DEF EventInv
  <2>4. CASE j # i
    BY <1>5, <2>4 DEF TypeOK, EventInv
  <2> QED
    BY <2>3, <2>4
<1> QED
  BY <1>1, <1>2, <1>3, <1>4, <1>5

LEMMA FinishPruneInv ==
    ASSUME IInv, NEW i \in Jobs, FinishPrune(i)
    PROVE  IInv'
<1> USE DEF IInv, FinishPrune, memory, children, storage, service
<1>0. PICK D \in SUBSET Jobs :
          /\ \A d \in D : d \in entries /\ Terminal(status[d])
          /\ entries' = entries \ D
          /\ Unlink(D)
  BY PruneFacts
<1>w. /\ disk' \in [Jobs -> Record] /\ faults' \in 0 .. MaxFaults
      /\ faults' = 0 => faults = 0
      /\ entries' \subseteq entries
      /\ \A k \in Jobs : disk'[k] \in {disk[k], NoRecord}
      /\ \A k \in entries' : disk'[k] = disk[k]
  BY <1>0, UnlinkFacts DEF TypeOK
<1>1. TypeOK'
  BY <1>w DEF TypeOK, ThreadInv
<1>2. ASSUME NEW j \in Jobs
      PROVE  ThreadInv(j)'
  BY <1>2, <1>w DEF TypeOK, ThreadInv
<1>3. ASSUME NEW j \in Jobs
      PROVE  FileInv(j)'
  <2>1. disk'[j] \in {disk[j], NoRecord} /\ (j \in entries' => j \in entries /\ disk'[j] = disk[j])
    BY <1>3, <1>w
  <2>2. sup'[j] = sup[j] \/ (sup[j] = "announced" /\ sup'[j] = "done")
    BY <1>3 DEF TypeOK
  <2> QED
    BY <1>3, <1>w, <2>1, <2>2 DEF TypeOK, ThreadInv, FileInv
<1>4. ASSUME NEW j \in Jobs
      PROVE  ChildInv(j)'
  BY <1>4, <1>w DEF TypeOK, ThreadInv, ChildInv, RunErr
<1>5. ASSUME NEW j \in Jobs
      PROVE  EventInv(j)'
  BY <1>5, <1>w DEF TypeOK, ThreadInv, EventInv
<1> QED
  BY <1>1, <1>2, <1>3, <1>4, <1>5

LEMMA CancelMarkInv ==
    ASSUME IInv, NEW i \in Jobs, CancelMark(i)
    PROVE  IInv'
<1> USE DEF IInv, CancelMark, memory, children, storage, service
<1>1. TypeOK'
  BY DEF TypeOK, ThreadInv
<1>2. ASSUME NEW j \in Jobs
      PROVE  ThreadInv(j)'
  BY <1>2 DEF TypeOK, ThreadInv, FileInv
<1>3. ASSUME NEW j \in Jobs
      PROVE  FileInv(j)'
  BY <1>3 DEF TypeOK, ThreadInv, FileInv
<1>4. ASSUME NEW j \in Jobs
      PROVE  ChildInv(j)'
  BY <1>4 DEF TypeOK, ThreadInv, ChildInv, RunErr
<1>5. ASSUME NEW j \in Jobs
      PROVE  EventInv(j)'
  BY <1>5 DEF TypeOK, ThreadInv, EventInv
<1> QED
  BY <1>1, <1>2, <1>3, <1>4, <1>5

LEMMA CancelSignalInv ==
    ASSUME IInv, NEW i \in Jobs, CancelSignal(i)
    PROVE  IInv'
<1> USE DEF IInv, CancelSignal, LeaderReaped, memory, children, storage, service
<1>1. TypeOK'
  BY DEF TypeOK, ThreadInv
<1>2. ASSUME NEW j \in Jobs
      PROVE  ThreadInv(j)'
  BY <1>2 DEF TypeOK, ThreadInv
<1>3. ASSUME NEW j \in Jobs
      PROVE  FileInv(j)'
  BY <1>3 DEF TypeOK, ThreadInv, FileInv
<1>4. ASSUME NEW j \in Jobs
      PROVE  ChildInv(j)'
  BY <1>4 DEF TypeOK, ThreadInv, ChildInv, RunErr
<1>5. ASSUME NEW j \in Jobs
      PROVE  EventInv(j)'
  BY <1>5 DEF TypeOK, ThreadInv, EventInv
<1> QED
  BY <1>1, <1>2, <1>3, <1>4, <1>5

LEMMA EscalateInv ==
    ASSUME IInv, NEW i \in Jobs, Escalate(i)
    PROVE  IInv'
<1> USE DEF IInv, Escalate, Killed, memory, children, storage, service
<1>1. TypeOK'
  BY DEF TypeOK, ThreadInv
<1>2. ASSUME NEW j \in Jobs
      PROVE  ThreadInv(j)'
  BY <1>2 DEF TypeOK, ThreadInv
<1>3. ASSUME NEW j \in Jobs
      PROVE  FileInv(j)'
  BY <1>3 DEF TypeOK, ThreadInv, FileInv
<1>4. ASSUME NEW j \in Jobs
      PROVE  ChildInv(j)'
  BY <1>4 DEF TypeOK, ThreadInv, ChildInv, RunErr
<1>5. ASSUME NEW j \in Jobs
      PROVE  EventInv(j)'
  BY <1>5 DEF TypeOK, ThreadInv, EventInv
<1> QED
  BY <1>1, <1>2, <1>3, <1>4, <1>5

LEMMA RemoveEntryInv ==
    ASSUME IInv, NEW i \in Jobs, RemoveEntry(i)
    PROVE  IInv'
<1> USE DEF IInv, RemoveEntry, memory, children, storage, service
<1>1. TypeOK'
  BY DEF TypeOK, ThreadInv
<1>2. ASSUME NEW j \in Jobs
      PROVE  ThreadInv(j)'
  BY <1>2 DEF TypeOK, ThreadInv
<1>3. ASSUME NEW j \in Jobs
      PROVE  FileInv(j)'
  BY <1>3 DEF TypeOK, ThreadInv, FileInv
<1>4. ASSUME NEW j \in Jobs
      PROVE  ChildInv(j)'
  BY <1>4 DEF TypeOK, ThreadInv, ChildInv, RunErr
<1>5. ASSUME NEW j \in Jobs
      PROVE  EventInv(j)'
  BY <1>5 DEF TypeOK, ThreadInv, EventInv
<1> QED
  BY <1>1, <1>2, <1>3, <1>4, <1>5

LEMMA RemoveFileInv ==
    ASSUME IInv, NEW i \in Jobs, RemoveFile(i)
    PROVE  IInv'
<1> USE DEF IInv, RemoveFile, memory, children, storage, service
<1>w. /\ disk' \in [Jobs -> Record] /\ faults' \in 0 .. MaxFaults
      /\ faults' = 0 => faults = 0
      /\ \A k \in Jobs : disk'[k] \in {disk[k], NoRecord}
      /\ \A k \in Jobs : k # i => disk'[k] = disk[k]
  BY UnlinkFacts, {i} \in SUBSET Jobs
<1>1. TypeOK'
  BY <1>w DEF TypeOK, ThreadInv
<1>2. ASSUME NEW j \in Jobs
      PROVE  ThreadInv(j)'
  BY <1>2, <1>w DEF TypeOK, ThreadInv
<1>3. ASSUME NEW j \in Jobs
      PROVE  FileInv(j)'
  BY <1>3, <1>w DEF TypeOK, ThreadInv, FileInv
<1>4. ASSUME NEW j \in Jobs
      PROVE  ChildInv(j)'
  BY <1>4, <1>w DEF TypeOK, ThreadInv, ChildInv, RunErr
<1>5. ASSUME NEW j \in Jobs
      PROVE  EventInv(j)'
  BY <1>5, <1>w DEF TypeOK, ThreadInv, EventInv
<1> QED
  BY <1>1, <1>2, <1>3, <1>4, <1>5

LEMMA ChildExitsInv ==
    ASSUME IInv, NEW i \in Jobs, ChildExits(i)
    PROVE  IInv'
<1> USE DEF IInv, ChildExits, memory, children, storage, service
<1>0. left' \in [Jobs -> ChildState] /\ right' \in [Jobs -> ChildState]
  <2>1. left \in [Jobs -> ChildState] /\ right \in [Jobs -> ChildState]
    BY DEF TypeOK
  <2>2. \/ right' = right /\ \E x \in Ended : left' = [left EXCEPT ![i] = x]
        \/ left' = left /\ \E x \in Ended : right' = [right EXCEPT ![i] = x]
    OBVIOUS
  <2> HIDE DEF IInv, ChildExits
  <2> QED
    BY <2>1, <2>2 DEF ChildState, Ended
<1>1. TypeOK'
  BY <1>0 DEF TypeOK
<1>2. ASSUME NEW j \in Jobs
      PROVE  ThreadInv(j)'
  BY <1>2 DEF TypeOK, ThreadInv
<1>3. ASSUME NEW j \in Jobs
      PROVE  FileInv(j)'
  BY <1>3 DEF TypeOK, ThreadInv, FileInv
<1>4. ASSUME NEW j \in Jobs
      PROVE  ChildInv(j)'
  BY <1>4 DEF TypeOK, ThreadInv, ChildInv, RunErr
<1>5. ASSUME NEW j \in Jobs
      PROVE  EventInv(j)'
  BY <1>5 DEF TypeOK, ThreadInv, EventInv
<1> QED
  BY <1>1, <1>2, <1>3, <1>4, <1>5

LEMMA CrashInv ==
    ASSUME IInv, Crash
    PROVE  IInv'
<1> USE DEF IInv, Crash, Survivor, memory, children, storage, service
<1>1. TypeOK'
  BY BoundsAssumption DEF TypeOK, ThreadInv
<1>2. ASSUME NEW j \in Jobs
      PROVE  ThreadInv(j)'
  BY <1>2 DEF TypeOK, ThreadInv
<1>3. ASSUME NEW j \in Jobs
      PROVE  FileInv(j)'
  BY <1>3 DEF TypeOK, ThreadInv, FileInv
<1>4. ASSUME NEW j \in Jobs
      PROVE  ChildInv(j)'
  BY <1>4 DEF TypeOK, ThreadInv, ChildInv, RunErr
<1>5. ASSUME NEW j \in Jobs
      PROVE  EventInv(j)'
  BY <1>5 DEF TypeOK, ThreadInv, EventInv
<1> QED
  BY <1>1, <1>2, <1>3, <1>4, <1>5

LEMMA RestartInv ==
    ASSUME IInv, Restart
    PROVE  IInv'
<1> USE DEF IInv, Restart, memory, children, storage, service
<1>1. TypeOK'
  BY DEF TypeOK, ThreadInv
<1>2. ASSUME NEW j \in Jobs
      PROVE  ThreadInv(j)'
  BY <1>2 DEF TypeOK, ThreadInv
<1>3. ASSUME NEW j \in Jobs
      PROVE  FileInv(j)'
  BY <1>3 DEF TypeOK, ThreadInv, FileInv
<1>4. ASSUME NEW j \in Jobs
      PROVE  ChildInv(j)'
  BY <1>4 DEF TypeOK, ThreadInv, ChildInv, RunErr
<1>5. ASSUME NEW j \in Jobs
      PROVE  EventInv(j)'
  BY <1>5 DEF TypeOK, ThreadInv, EventInv
<1> QED
  BY <1>1, <1>2, <1>3, <1>4, <1>5

LEMMA LoadRecordInv ==
    ASSUME IInv, NEW i \in Jobs, LoadRecord(i)
    PROVE  IInv'
<1> USE DEF IInv, LoadRecord, memory, children, storage, service
<1>l. /\ disk[i].status # "none" /\ sup[i] = "gone"
      /\ Loaded(disk[i], clock + 1) \in Record
      /\ Loaded(disk[i], clock + 1).status \in TerminalStatus
      /\ Loaded(disk[i], clock + 1).at \in Nat
  BY DEF TypeOK, FileInv, Loaded
<1>w. /\ disk' \in [Jobs -> Record] /\ faults' \in 0 .. MaxFaults
      /\ disk'[i] \in {Loaded(disk[i], clock + 1), disk[i]}
      /\ \A k \in Jobs : k # i => disk'[k] = disk[k]
  BY <1>l, WriteRecordFacts DEF TypeOK
<1>1. TypeOK'
  <2>1. status' \in [Jobs -> {"none"} \cup Status] /\ finishedAt' \in [Jobs -> Nat]
    BY <1>l DEF TypeOK
  <2>2. clock' \in Nat /\ entries' \subseteq Jobs /\ loading' \subseteq Jobs
    BY DEF TypeOK
  <2> QED
    BY <1>w, <2>1, <2>2 DEF TypeOK
<1>u. /\ UNCHANGED <<sup, snap, left, right, fired>>
      /\ \A k \in Jobs : k # i => status'[k] = status[k] /\ finishedAt'[k] = finishedAt[k]
      /\ status'[i] \in TerminalStatus /\ sup'[i] = "gone"
  BY <1>l DEF TypeOK
<1>2. ASSUME NEW j \in Jobs
      PROVE  ThreadInv(j)'
  <2>1. ThreadInv(j)
    OBVIOUS
  <2>2. CASE j # i
    BY <2>1, <2>2, <1>u DEF ThreadInv
  <2>3. CASE j = i
    BY <2>3, <1>u DEF ThreadInv
  <2> QED
    BY <2>2, <2>3
<1>3. ASSUME NEW j \in Jobs
      PROVE  FileInv(j)'
  <2>1. FileInv(j) /\ UNCHANGED <<sup, snap, mode, removing>>
    BY DEF FileInv
  <2>2. CASE j # i
    <3>1. /\ status'[j] = status[j] /\ finishedAt'[j] = finishedAt[j]
          /\ disk'[j] = disk[j]
          /\ (j \in entries' <=> j \in entries) /\ (j \in loading' <=> j \in loading)
      BY <2>2, <1>w DEF TypeOK
    <3>2. mode = "loading" /\ sup[j] \in {"idle", "gone"}
      BY <2>1 DEF FileInv
    <3> QED
      BY <2>1, <3>1, <3>2 DEF FileInv
  <2>3. CASE j = i
    <3>1. /\ mode = "loading" /\ sup[i] = "gone" /\ i \notin removing
          /\ i \notin loading'
          /\ status'[i] \in TerminalStatus
          /\ disk'[i].status # "none"
      <4>1. status'[i] = Loaded(disk[i], clock + 1).status
        BY DEF TypeOK
      <4>2. i \notin removing
        BY <2>1, <2>3 DEF FileInv
      <4> QED
        BY <4>1, <4>2, <1>w, <1>l
    <3> QED
      BY <2>1, <2>3, <3>1 DEF FileInv, Terminal
  <2> QED
    BY <2>2, <2>3
<1>4. ASSUME NEW j \in Jobs
      PROVE  ChildInv(j)'
  <2>1. ChildInv(j)
    OBVIOUS
  <2>2. CASE j # i
    BY <2>1, <2>2, <1>u DEF ChildInv, RunErr
  <2>3. CASE j = i
    BY <2>1, <2>3, <1>u DEF ChildInv
  <2> QED
    BY <2>2, <2>3
<1>5. ASSUME NEW j \in Jobs
      PROVE  EventInv(j)'
  <2>1. EventInv(j)
    OBVIOUS
  <2>2. CASE j # i
    BY <2>1, <2>2, <1>u DEF EventInv
  <2>3. CASE j = i
    BY <2>1, <2>3, <1>u DEF EventInv
  <2> QED
    BY <2>2, <2>3
<1> QED
  BY <1>1, <1>2, <1>3, <1>4, <1>5

LEMMA LoadRecordFailsInv ==
    ASSUME IInv, NEW i \in Jobs, LoadRecordFails(i)
    PROVE  IInv'
<1> USE DEF IInv, LoadRecordFails, memory, children, storage, service
<1>1. TypeOK'
  BY BoundsAssumption DEF TypeOK, ThreadInv
<1>2. ASSUME NEW j \in Jobs
      PROVE  ThreadInv(j)'
  BY <1>2 DEF TypeOK, ThreadInv
<1>3. ASSUME NEW j \in Jobs
      PROVE  FileInv(j)'
  BY <1>3 DEF TypeOK, ThreadInv, FileInv
<1>4. ASSUME NEW j \in Jobs
      PROVE  ChildInv(j)'
  BY <1>4 DEF TypeOK, ThreadInv, ChildInv, RunErr
<1>5. ASSUME NEW j \in Jobs
      PROVE  EventInv(j)'
  BY <1>5 DEF TypeOK, ThreadInv, EventInv
<1> QED
  BY <1>1, <1>2, <1>3, <1>4, <1>5

LEMMA LoadDoneInv ==
    ASSUME IInv, LoadDone
    PROVE  IInv'
<1> USE DEF IInv, LoadDone, memory, children, storage, service
<1>0. PICK D \in SUBSET Jobs :
          /\ \A d \in D : d \in entries /\ Terminal(status[d])
          /\ entries' = entries \ D
          /\ Unlink(D)
  BY PruneFacts
<1>w. /\ disk' \in [Jobs -> Record] /\ faults' \in 0 .. MaxFaults
      /\ faults' = 0 => faults = 0
      /\ entries' \subseteq entries
      /\ \A k \in Jobs : disk'[k] \in {disk[k], NoRecord}
      /\ \A k \in entries' : disk'[k] = disk[k]
  BY <1>0, UnlinkFacts DEF TypeOK
<1>1. TypeOK'
  BY <1>w DEF TypeOK, ThreadInv
<1>2. ASSUME NEW j \in Jobs
      PROVE  ThreadInv(j)'
  BY <1>2, <1>w DEF TypeOK, ThreadInv
<1>3. ASSUME NEW j \in Jobs
      PROVE  FileInv(j)'
  BY <1>3, <1>w DEF TypeOK, ThreadInv, FileInv
<1>4. ASSUME NEW j \in Jobs
      PROVE  ChildInv(j)'
  BY <1>4, <1>w DEF TypeOK, ThreadInv, ChildInv, RunErr
<1>5. ASSUME NEW j \in Jobs
      PROVE  EventInv(j)'
  BY <1>5, <1>w DEF TypeOK, ThreadInv, EventInv
<1> QED
  BY <1>1, <1>2, <1>3, <1>4, <1>5

-----------------------------------------------------------------------------
LEMMA NextInv == IInv /\ [Next]_vars => IInv'
<1> SUFFICES ASSUME IInv, [Next]_vars
             PROVE  IInv'
  OBVIOUS
<1>1. ASSUME NEW j \in Jobs, StartRun(j) \/ StartLeft(j)
      PROVE  IInv'
  BY <1>1, StartRunInv, StartLeftInv
<1>2. ASSUME NEW j \in Jobs, Supervise(j)
      PROVE  IInv'
  BY <1>2, StartRightInv, StartRightFailsInv, RegisterInv, SnapshotInv,
     PersistStartInv, AnnounceStartInv, WaitLeftInv, WaitRightInv, FinishStatusInv,
     FinishPersistInv, FinishAnnounceInv, FinishPruneInv DEF Supervise
<1>3. ASSUME NEW j \in Jobs, CancelMark(j) \/ CancelSignal(j) \/ Escalate(j)
      PROVE  IInv'
  BY <1>3, CancelMarkInv, CancelSignalInv, EscalateInv
<1>4. ASSUME NEW j \in Jobs, RemoveEntry(j) \/ RemoveFile(j) \/ ChildExits(j)
      PROVE  IInv'
  BY <1>4, RemoveEntryInv, RemoveFileInv, ChildExitsInv
<1>5. CASE Crash \/ Restart \/ Load
  BY <1>5, CrashInv, RestartInv, LoadRecordInv, LoadRecordFailsInv, LoadDoneInv DEF Load
<1>6. CASE UNCHANGED vars
  BY <1>6, StutterInv
<1> QED
  BY <1>1, <1>2, <1>3, <1>4, <1>5, <1>6 DEF Next

\* The inductive invariant holds in every reachable state.
THEOREM InductiveInvariant == Spec => []IInv
  BY InitInv, NextInv, PTL DEF Spec

-----------------------------------------------------------------------------
(* Invariants *)

\* Every variable stays within its set of values.
THEOREM TypeCorrect == Spec => []TypeOK
<1>1. IInv => TypeOK
  BY DEF IInv
<1> QED
  BY <1>1, InductiveInvariant, PTL

\* finish is reached, and a pipeline given up, only when no child runs.
THEOREM FinishedJobsHaveNoChild == Spec => []FinishedHasNoChild
<1>1. IInv => FinishedHasNoChild
  BY DEF IInv, ChildInv, FinishedHasNoChild, Live
<1> QED
  BY <1>1, InductiveInvariant, PTL

\* No restart and no error path leaves a job listed as running with nobody
\* watching it.
THEOREM RunningJobsAreSupervised == Spec => []RunningIsSupervised
<1>1. IInv => RunningIsSupervised
  BY DEF IInv, TypeOK, ThreadInv, RunningIsSupervised, Active
<1> QED
  BY <1>1, InductiveInvariant, PTL

\* Success means that every child succeeded, failure that one did not.
THEOREM OutcomesArePipefail == Spec => []OutcomeIsPipefail
<1>1. IInv => OutcomeIsPipefail
  BY DEF IInv, TypeOK, ChildInv, OutcomeIsPipefail, RunErr
<1> QED
  BY <1>1, InductiveInvariant, PTL

\* An announced end is on record as long as the job is listed.
THEOREM AnnouncedEndsAreRecorded == Spec => []AnnouncedIsRecorded
<1>1. IInv => AnnouncedIsRecorded
  BY DEF IInv, FileInv, AnnouncedIsRecorded
<1> QED
  BY <1>1, InductiveInvariant, PTL

\* A job is announced when it begins and when it has ended, and an end that was
\* announced stands (Run, finish, Cancel).
THEOREM AnnouncedEndsStand == Spec => []ToldEndStands
<1>1. IInv => ToldEndStands
  <2> SUFFICES ASSUME IInv, NEW j \in Jobs
               PROVE  /\ Len(fired[j]) <= 2
                      /\ sup[j] \in StartPc => Len(fired[j]) = 0
                      /\ Len(fired[j]) >= 1 =>
                            fired[j][1] = "running" \/ fired[j][1] = status[j]
                      /\ Len(fired[j]) = 2
                           => Terminal(fired[j][2]) /\ fired[j][2] = status[j]
                      /\ sup[j] \in {"announced", "done"} => Len(fired[j]) = 2
    BY DEF ToldEndStands
  <2>1. ThreadInv(j) /\ EventInv(j) /\ sup[j] \in SupState /\ Len(fired[j]) \in Nat
    BY DEF IInv, TypeOK
  <2>2. CASE sup[j] \in StartPc \cup {"aborted", "gone"}
    BY <2>1, <2>2 DEF EventInv
  <2>3. CASE sup[j] \in {"waitLeft", "waitRight", "ended", "final", "recorded"}
    <3>1. Len(fired[j]) = 1 /\ (fired[j][1] = "running" \/ fired[j][1] = status[j])
      BY <2>1, <2>3 DEF EventInv
    <3>2. sup[j] \notin StartPc /\ sup[j] \notin {"announced", "done"}
      BY <2>3
    <3> QED
      BY <3>1, <3>2
  <2>4. CASE sup[j] \in {"announced", "done"}
    <3>1. Terminal(status[j])
      BY <2>1, <2>4 DEF ThreadInv
    <3>2. Len(fired[j]) = 2 /\ fired[j][2] = status[j]
          /\ (fired[j][1] = "running" \/ fired[j][1] = status[j])
      BY <2>1, <2>4 DEF EventInv
    <3>3. sup[j] \notin StartPc
      BY <2>4
    <3> HIDE DEF Terminal, StartPc
    <3> QED
      BY <3>1, <3>2, <3>3
  <2> QED
    BY <2>1, <2>2, <2>3, <2>4
<1> QED
  BY <1>1, InductiveInvariant, PTL

-----------------------------------------------------------------------------
(* Steps *)

\* No step replaces one terminal status by another: a cancellation that came
\* first is kept by finish, one that comes later is refused.
THEOREM TerminalStatusIsFinal == Spec => TerminalIsFinal
<1> DEFINE Keeps == \A j \in Jobs :
        Terminal(status[j]) /\ mode' # "down" => status'[j] = status[j]
<1>1. IInv /\ [Next]_vars => [Keeps]_vars
  <2> SUFFICES ASSUME IInv, Next, NEW j \in Jobs, Terminal(status[j]), mode' # "down"
               PROVE  status'[j] = status[j]
    OBVIOUS
  <2>1. ASSUME NEW i \in Jobs, StartRun(i) \/ StartRight(i)
        PROVE  status'[j] = status[j]
    BY <2>1 DEF IInv, TypeOK, ThreadInv, StartRun, StartRight
  <2>2. ASSUME NEW i \in Jobs, FinishStatus(i)
        PROVE  status'[j] = status[j]
    BY <2>2 DEF IInv, TypeOK, ThreadInv, FinishStatus, FinalStatus
  <2>3. ASSUME NEW i \in Jobs, CancelMark(i)
        PROVE  status'[j] = status[j]
    BY <2>3 DEF IInv, TypeOK, CancelMark
  <2>4. ASSUME NEW i \in Jobs, LoadRecord(i)
        PROVE  status'[j] = status[j]
    BY <2>4 DEF IInv, TypeOK, FileInv, LoadRecord
  <2>5. CASE Crash
    BY <2>5 DEF Crash
  <2>6. ASSUME UNCHANGED status
        PROVE  status'[j] = status[j]
    BY <2>6
  <2> QED
    BY <2>1, <2>2, <2>3, <2>4, <2>5, <2>6
       DEF Next, Supervise, Load, memory, StartLeft, StartRightFails, Register, Snapshot,
           PersistStart, AnnounceStart, WaitLeft, WaitRight, FinishPersist, FinishAnnounce,
           FinishPrune, CancelSignal, Escalate, RemoveEntry, RemoveFile, ChildExits,
           Restart, LoadRecordFails, LoadDone
<1>2. Spec => [][Keeps]_vars
  BY <1>1, InductiveInvariant, PTL DEF Spec
<1> QED
  BY <1>2 DEF TerminalIsFinal

\* A record that tells an outcome is only ever deleted.
THEOREM RecordedOutcomesAreStable == Spec => RecordedOutcomeStable
<1> DEFINE Keeps == \A j \in Jobs : Terminal(disk[j].status)
                       => disk'[j] = NoRecord \/ disk'[j].status = disk[j].status
<1>1. IInv /\ [Next]_vars => [Keeps]_vars
  <2> SUFFICES ASSUME IInv, Next, NEW j \in Jobs, Terminal(disk[j].status)
               PROVE  disk'[j] = NoRecord \/ disk'[j].status = disk[j].status
    OBVIOUS
  <2>1. ASSUME NEW i \in Jobs, PersistStart(i)
        PROVE  disk'[j] = disk[j]
    <3>0. disk[i] = NoRecord
      BY <2>1 DEF IInv, FileInv, PersistStart
    <3>1. i # j
      BY <3>0
    <3> QED
      BY <2>1, <3>1 DEF IInv, TypeOK, PersistStart, WriteRecord
  <2>2. ASSUME NEW i \in Jobs, FinishPersist(i)
        PROVE  disk'[j].status = disk[j].status
    <3>1. snap[i] \in Record /\ WriteRecord(i, snap[i])
      BY <2>2 DEF IInv, TypeOK, FinishPersist
    <3>2. i # j => disk'[j] = disk[j]
      BY <3>1, WriteRecordFacts DEF IInv
    <3>3. i = j => disk[j].status = "cancelled" /\ snap[j].status = "cancelled"
      <4>1. ThreadInv(i) /\ FileInv(i) /\ sup[i] = "final"
        BY <2>2 DEF IInv, FinishPersist
      <4>2. snap[i].status = status[i]
        BY <4>1 DEF ThreadInv
      <4>3. \/ disk[i].status \in {"none", "running"}
            \/ disk[i].status = "cancelled" /\ status[i] = "cancelled"
        BY <4>1 DEF FileInv
      <4> QED
        BY <4>2, <4>3
    <3>4. disk'[i] \in {snap[i], disk[i]}
      BY <3>1, WriteRecordFacts DEF IInv
    <3> QED
      BY <3>2, <3>3, <3>4
  <2>3. ASSUME NEW i \in Jobs, LoadRecord(i)
        PROVE  disk'[j] = disk[j]
    <3>1. i = j => Loaded(disk[i], clock + 1) = disk[i]
      BY DEF Loaded
    <3>2. disk' = disk \/ disk' = [disk EXCEPT ![i] = Loaded(disk[i], clock + 1)]
      BY <2>3 DEF LoadRecord, WriteRecord, storage
    <3> QED
      BY <3>1, <3>2 DEF IInv, TypeOK
  <2>4. ASSUME NEW D \in SUBSET Jobs, Unlink(D)
        PROVE  disk'[j] \in {disk[j], NoRecord}
    BY <2>4, UnlinkFacts DEF IInv
  <2>5. ASSUME PruneLocked
        PROVE  disk'[j] \in {disk[j], NoRecord}
    BY <2>4, <2>5, PruneFacts DEF IInv
  <2>6. ASSUME NEW i \in Jobs, RemoveFile(i)
        PROVE  disk'[j] \in {disk[j], NoRecord}
    BY <2>4, <2>6, {i} \in SUBSET Jobs DEF RemoveFile
  <2>7. ASSUME UNCHANGED disk
        PROVE  disk'[j] = disk[j]
    BY <2>7
  <2> QED
    BY <2>1, <2>2, <2>3, <2>5, <2>6, <2>7
       DEF Next, Supervise, Load, storage, StartRun, StartLeft, StartRight,
           StartRightFails, Register, Snapshot, AnnounceStart, WaitLeft, WaitRight,
           FinishStatus, FinishAnnounce, FinishPrune, CancelMark, CancelSignal, Escalate,
           RemoveEntry, ChildExits, Crash, Restart, LoadRecordFails, LoadDone
<1>2. Spec => [][Keeps]_vars
  BY <1>1, InductiveInvariant, PTL DEF Spec
<1> QED
  BY <1>2 DEF RecordedOutcomeStable

\* What is listed as running stays listed while the service is up.
THEOREM RunningJobsAreKept == Spec => RunningIsKept
<1> DEFINE Keeps == \A j \in entries :
        status[j] = "running" /\ mode' # "down" => j \in entries'
<1>1. IInv /\ [Next]_vars => [Keeps]_vars
  <2> SUFFICES ASSUME IInv, Next, NEW j \in entries, status[j] = "running", mode' # "down"
               PROVE  j \in entries'
    OBVIOUS
  <2>1. ASSUME PruneLocked
        PROVE  j \in entries'
    BY <2>1, PruneFacts DEF IInv
  <2>2. ASSUME NEW i \in Jobs, RemoveEntry(i)
        PROVE  j \in entries'
    BY <2>2 DEF RemoveEntry
  <2>3. ASSUME NEW i \in Jobs, Register(i) \/ LoadRecord(i)
        PROVE  j \in entries'
    BY <2>3 DEF Register, LoadRecord
  <2>4. CASE Crash
    BY <2>4 DEF Crash
  <2>5. ASSUME UNCHANGED entries
        PROVE  j \in entries'
    BY <2>5
  <2> QED
    BY <2>1, <2>2, <2>3, <2>4, <2>5
       DEF Next, Supervise, Load, memory, StartRun, StartLeft, StartRight,
           StartRightFails, Snapshot, PersistStart, AnnounceStart, WaitLeft, WaitRight,
           FinishStatus, FinishPersist, FinishAnnounce, FinishPrune, CancelMark,
           CancelSignal, Escalate, RemoveFile, ChildExits, Restart, LoadRecordFails,
           LoadDone
<1>2. Spec => [][Keeps]_vars
  BY <1>1, InductiveInvariant, PTL DEF Spec
<1> QED
  BY <1>2 DEF RunningIsKept

-----------------------------------------------------------------------------
(* The retention limit *)

\* After pruning, either no more than Retain jobs are listed or no terminal
\* job is left.
LEMMA PruneBound ==
    ASSUME TypeOK, PruneLocked
    PROVE  \/ Cardinality(entries') <= Retain
           \/ \A k \in entries' : ~Terminal(status[k])
<1>1. PICK D \in Victims(entries, status, finishedAt) : entries' = entries \ D
  BY DEF PruneLocked
<1>2. IsFiniteSet(entries) /\ Cardinality(entries) \in Nat
  BY JobsAssumption, FS_Subset, FS_CardinalityType DEF TypeOK
<1>3. CASE Cardinality(entries) <= Retain
  <2>1. entries' \in SUBSET entries
    BY <1>1
  <2>2. IsFiniteSet(entries') /\ Cardinality(entries') <= Cardinality(entries)
    BY <2>1, <1>2, FS_Subset
  <2>3. Cardinality(entries') \in Nat
    BY <2>2, FS_CardinalityType
  <2> QED
    BY <1>2, <1>3, <2>2, <2>3, RetainAssumption
<1>4. CASE Cardinality(entries) > Retain
  <2> DEFINE old == Prunable(entries, status)
             n == IF Excess(entries) > Cardinality(old) THEN Cardinality(old)
                  ELSE Excess(entries)
  <2>1. ~(Cardinality(entries) <= Retain)
    BY <1>2, <1>4, RetainAssumption
  <2>2. D \in SUBSET old /\ Cardinality(D) = n
    BY <1>1, <2>1 DEF Victims
  <2>3. old \in SUBSET entries
    BY DEF Prunable
  <2>4. IsFiniteSet(old) /\ Cardinality(old) \in Nat
    BY <1>2, <2>3, FS_Subset, FS_CardinalityType
  <2>5. CASE Excess(entries) > Cardinality(old)
    <3>1. D = old
      BY <2>2, <2>4, <2>5, FS_Subset
    <3> QED
      BY <3>1, <1>1 DEF Prunable
  <2>6. CASE ~(Excess(entries) > Cardinality(old))
    <3>1. Cardinality(D) = Cardinality(entries) - Retain
      BY <2>2, <2>6 DEF Excess
    <3>2. entries \cap D = D
      BY <2>2, <2>3
    <3>3. Cardinality(entries') = Cardinality(entries) - Cardinality(D)
      BY <1>1, <1>2, <3>2, FS_Difference
    <3> QED
      BY <3>1, <3>3, <1>2, RetainAssumption
  <2> QED
    BY <2>5, <2>6
<1> QED
  BY <1>2, <1>3, <1>4, RetainAssumption

\* A smaller quiet set stays within the limit.
LEMMA QuietShrinks ==
    ASSUME TypeOK, Cardinality(Quiet) <= Retain, Quiet' \subseteq Quiet
    PROVE  Cardinality(Quiet') <= Retain
<1>1. Quiet \in SUBSET Jobs
  BY DEF TypeOK, Quiet
<1>2. IsFiniteSet(Quiet) /\ Cardinality(Quiet) \in Nat
  BY <1>1, JobsAssumption, FS_Subset, FS_CardinalityType
<1>3. IsFiniteSet(Quiet') /\ Cardinality(Quiet') <= Cardinality(Quiet)
  BY <1>2, FS_Subset
<1>4. Cardinality(Quiet') \in Nat
  BY <1>3, FS_CardinalityType
<1> QED
  BY <1>2, <1>3, <1>4, RetainAssumption

\* Right after pruning the quiet set is within the limit.
LEMMA QuietAfterPrune ==
    ASSUME IInv, IInv', PruneLocked, UNCHANGED status, mode' = "up"
    PROVE  Cardinality(Quiet') <= Retain
<1>1. Quiet' \in SUBSET entries' /\ entries' \in SUBSET Jobs
  BY DEF Quiet, IInv, TypeOK
<1>2. IsFiniteSet(entries') /\ IsFiniteSet(Quiet')
      /\ Cardinality(Quiet') <= Cardinality(entries')
  BY <1>1, JobsAssumption, FS_Subset
<1>3. Cardinality(entries') \in Nat /\ Cardinality(Quiet') \in Nat
  BY <1>2, FS_CardinalityType
<1>4. CASE Cardinality(entries') <= Retain
  BY <1>2, <1>3, <1>4, RetainAssumption
<1>5. CASE \A k \in entries' : ~Terminal(status[k])
  <2>1. ASSUME NEW k \in Quiet'
        PROVE  FALSE
    <3>1. k \in Jobs /\ k \in entries' /\ ~Active(k)'
      BY <1>1, <2>1 DEF Quiet
    <3>2. ThreadInv(k)' /\ FileInv(k)' /\ sup'[k] \in SupState
      BY <3>1 DEF IInv, TypeOK
    <3>3. Terminal(status'[k])
      BY <3>1, <3>2 DEF Active, ThreadInv, FileInv, IInv, TypeOK
    <3> QED
      BY <3>1, <3>3, <1>5
  <2>2. Quiet' = {}
    BY <2>1
  <2> QED
    BY <2>2, FS_EmptySet, RetainAssumption
<1> QED
  BY <1>4, <1>5, PruneBound DEF IInv

\* The list is bounded although starting a job never prunes.
THEOREM ListIsBounded == Spec => []Bounded
<1>1. Init => Bounded
  <2> SUFFICES ASSUME Init
               PROVE  Cardinality(Quiet) <= Retain
    BY DEF Bounded
  <2>1. Quiet = {}
    BY DEF Init, Quiet
  <2> QED
    BY <2>1, FS_EmptySet, RetainAssumption
<1>2. Bounded /\ IInv /\ IInv' /\ [Next]_vars => Bounded'
  <2> SUFFICES ASSUME Bounded, IInv, IInv', [Next]_vars, mode' = "up"
               PROVE  Cardinality(Quiet') <= Retain
    BY DEF Bounded
  <2>1. ASSUME mode = "up", Quiet' \subseteq Quiet
        PROVE  Cardinality(Quiet') <= Retain
    BY <2>1, QuietShrinks DEF Bounded, IInv
  <2>2. ASSUME NEW i \in Jobs, FinishPrune(i)
        PROVE  Cardinality(Quiet') <= Retain
    BY <2>2, QuietAfterPrune DEF FinishPrune
  <2>3. CASE LoadDone
    BY <2>3, QuietAfterPrune DEF LoadDone
  <2>4. CASE Crash \/ Restart \/ \E i \in Jobs : LoadRecord(i) \/ LoadRecordFails(i)
    BY <2>4 DEF Crash, Restart, LoadRecord, LoadRecordFails
  <2>5. ASSUME NEW i \in Jobs, NEW s, s \notin {"idle", "done", "aborted", "gone"},
               sup' = [sup EXCEPT ![i] = s], entries' \subseteq entries \cup {i}
        PROVE  Quiet' \subseteq Quiet
    BY <2>5 DEF Quiet, Active, IInv, TypeOK
  <2>6. ASSUME NEW i \in Jobs, Supervise(i), ~FinishPrune(i)
        PROVE  mode = "up" /\ Quiet' \subseteq Quiet
    <3>1. CASE StartRightFails(i)
      BY <3>1 DEF StartRightFails, Quiet, Active, IInv, TypeOK, FileInv, memory
    <3>2. CASE StartRight(i) \/ Register(i) \/ Snapshot(i)
      BY <3>2, <2>5 DEF StartRight, Register, Snapshot
    <3>3. CASE PersistStart(i) \/ AnnounceStart(i) \/ WaitRight(i)
      BY <3>3, <2>5 DEF PersistStart, AnnounceStart, WaitRight, memory
    <3>4. CASE WaitLeft(i)
      BY <3>4, <2>5 DEF WaitLeft, AfterLeft, memory
    <3>5. CASE FinishStatus(i) \/ FinishPersist(i) \/ FinishAnnounce(i)
      BY <3>5, <2>5 DEF FinishStatus, FinishPersist, FinishAnnounce, memory
    <3> QED
      BY <2>6, <3>1, <3>2, <3>3, <3>4, <3>5 DEF Supervise
  <2>7. ASSUME NEW i \in Jobs, StartRun(i) \/ StartLeft(i) \/ CancelMark(i)
                                \/ CancelSignal(i) \/ Escalate(i)
        PROVE  mode = "up" /\ Quiet' \subseteq Quiet
    <3>1. CASE StartRun(i) \/ StartLeft(i)
      BY <3>1, <2>5 DEF StartRun, StartLeft, memory, Quiet, Active, IInv, TypeOK
    <3>2. CASE CancelMark(i)
      BY <3>2 DEF CancelMark, Quiet, Active
    <3>3. CASE CancelSignal(i) \/ Escalate(i)
      BY <3>3 DEF CancelSignal, Escalate, memory, Quiet, Active
    <3> QED
      BY <2>7, <3>1, <3>2, <3>3
  <2>8. ASSUME NEW i \in Jobs, RemoveEntry(i) \/ RemoveFile(i)
        PROVE  mode = "up" /\ Quiet' \subseteq Quiet
    BY <2>8 DEF Quiet, Active, IInv, TypeOK, RemoveEntry, RemoveFile
  <2>9. ASSUME NEW i \in Jobs, ChildExits(i)
        PROVE  UNCHANGED <<mode, entries, sup>>
    BY <2>9 DEF ChildExits, memory, service
  <2>10. ASSUME UNCHANGED <<mode, entries, sup>>
         PROVE  mode = "up" /\ Quiet' = Quiet
    BY <2>10 DEF Quiet, Active
  <2> QED
    BY <2>1, <2>2, <2>3, <2>4, <2>5, <2>6, <2>7, <2>8, <2>9, <2>10
       DEF Next, Load, vars, memory, service
<1> QED
  BY <1>1, <1>2, InductiveInvariant, PTL DEF Spec
=============================================================================
