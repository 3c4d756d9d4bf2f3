----------------------------- MODULE JobManager -----------------------------
(***************************************************************************)
(* internal/jobs: the manager of background child processes.               *)
(*                                                                         *)
(* One job is one HTTP request that starts `zfs rewrite` (Run) or the      *)
(* pipeline `zfs send | zfs recv` (RunPipeline).  Four kinds of threads    *)
(* meet in this module: the request that starts the job and then hands it  *)
(* to a supervising goroutine (sup[j] is the program counter of both),     *)
(* the requests that cancel or remove it, the goroutine that escalates a   *)
(* cancellation to SIGKILL, and the operating system, which ends children  *)
(* when it likes.  The service itself may die at any point and is started  *)
(* again; what it finds then is what writeRecord had left in stateDir.     *)
(*                                                                         *)
(* Output tails, arguments, exit codes and trace spans are left out: no    *)
(* decision of the code reads them.                                        *)
(***************************************************************************)
EXTENDS Naturals, Sequences, FiniteSets

CONSTANTS
    Jobs,         \* identifiers newID may hand out (12 bytes), each at most once
    Kinds,        \* the job kinds in use, a subset of {"run", "pipeline"}
    Retain,       \* Manager.retain (defaultRetention)
    MaxCrashes,   \* bound: deaths of the service
    MaxFaults,    \* bound: failing writes, unlinks and reads in stateDir
    ChildrenDieWithService  \* TRUE: systemd kills the whole control group;
                            \* FALSE: daemon(8), children outlive the service

ASSUME JobsAssumption == IsFiniteSet(Jobs)
ASSUME KindsAssumption == Kinds \subseteq {"run", "pipeline"}
ASSUME RetainAssumption == Retain \in Nat
ASSUME BoundsAssumption == MaxCrashes \in Nat /\ MaxFaults \in Nat
ASSUME PlatformAssumption == ChildrenDieWithService \in BOOLEAN

VARIABLES
    mode,        \* "up", "down" or "loading" (NewManager reading stateDir)
    crashes,     \* deaths so far
    faults,      \* storage faults so far
    clock,       \* the last instant time.Now returned
    entries,     \* keys of Manager.entries
    status,      \* entry.job.Status; "none" before the entry exists
    finishedAt,  \* entry.job.FinishedAt; 0 is the zero time
    snap,        \* the snapshot the starting or finishing thread carries
    sup,         \* program counter of Run/RunPipeline and its supervisor
    left, right, \* the children: "none", "alive", or how they exited
    killer,      \* what became of Cancel's call of the cancel closure
    removing,    \* jobs deleted from entries whose file is still to be unlinked
    disk,        \* stateDir/<id>.json
    loading,     \* files loadFromDisk has still to read
    fired        \* statuses handed to notify, in order, since the service is up

memory == <<entries, status, finishedAt, snap, removing>>
children == <<left, right>>
storage == <<disk, faults>>
service == <<mode, crashes, loading>>
vars == <<memory, children, storage, service, sup, killer, clock, fired>>

-----------------------------------------------------------------------------
(* Values *)

Ended == {"ok", "err"}                \* exit status zero, or anything else
ChildState == {"none", "alive"} \cup Ended
TerminalStatus == {"success", "failed", "cancelled", "interrupted"}
Status == {"running"} \cup TerminalStatus
KillerState == {"none", "pending", "armed", "fired", "error"}
StartPc == {"idle", "leftStarted", "started", "registered", "snapped", "written"}
FinishPc == {"final", "recorded", "announced"}
SupState == StartPc \cup {"waitLeft", "waitRight", "ended"} \cup FinishPc
              \cup {"done", "aborted", "gone"}
Record == [status: {"none"} \cup Status, at: Nat]
NoRecord == [status |-> "none", at |-> 0]   \* no file, or nothing snapped yet

\* Status.terminal
Terminal(s) == s \in TerminalStatus

\* Either child has not been seen to exit.
Live(j) == left[j] = "alive" \/ right[j] = "alive"

\* The entry's goroutine or request thread exists in this life of the service.
Active(j) == sup[j] \notin {"idle", "done", "aborted", "gone"}

TypeOK ==
    /\ mode \in {"up", "down", "loading"}
    /\ crashes \in 0 .. MaxCrashes
    /\ faults \in 0 .. MaxFaults
    /\ clock \in Nat
    /\ entries \subseteq Jobs
    /\ status \in [Jobs -> {"none"} \cup Status]
    /\ finishedAt \in [Jobs -> Nat]
    /\ snap \in [Jobs -> Record]
    /\ sup \in [Jobs -> SupState]
    /\ left \in [Jobs -> ChildState]
    /\ right \in [Jobs -> ChildState]
    /\ killer \in [Jobs -> KillerState]
    /\ removing \subseteq Jobs
    /\ disk \in [Jobs -> Record]
    /\ loading \subseteq Jobs
    /\ fired \in [Jobs -> Seq(Status)]

Init ==
    /\ mode = "up" /\ crashes = 0 /\ faults = 0 /\ clock = 0
    /\ entries = {} /\ removing = {} /\ loading = {}
    /\ status = [j \in Jobs |-> "none"]
    /\ finishedAt = [j \in Jobs |-> 0]
    /\ snap = [j \in Jobs |-> NoRecord]
    /\ sup = [j \in Jobs |-> "idle"]
    /\ left = [j \in Jobs |-> "none"]
    /\ right = [j \in Jobs |-> "none"]
    /\ killer = [j \in Jobs |-> "none"]
    /\ disk = [j \in Jobs |-> NoRecord]
    /\ fired = [j \in Jobs |-> <<>>]

-----------------------------------------------------------------------------
(* Files.  The temporary file plus rename makes a write all or nothing, and *)
(* every caller only logs an error.                                         *)

\* writeRecord
WriteRecord(j, r) ==
    \/ disk' = [disk EXCEPT ![j] = r] /\ UNCHANGED faults
    \/ faults < MaxFaults /\ faults' = faults + 1 /\ UNCHANGED disk

\* os.Remove of the files of the jobs in D, of which one may fail
Unlink(D) ==
    \/ /\ disk' = [j \in Jobs |-> IF j \in D THEN NoRecord ELSE disk[j]]
       /\ UNCHANGED faults
    \/ /\ faults < MaxFaults
       /\ faults' = faults + 1
       /\ \E kept \in D :
             disk' = [j \in Jobs |-> IF j \in D \ {kept} THEN NoRecord ELSE disk[j]]

\* fire
Fire(j, s) == fired' = [fired EXCEPT ![j] = Append(@, s)]

\* How many entries exceed the limit.
ExcessOffByOne(E) == Cardinality(E) - Retain - 1
Excess(E) == Cardinality(E) - Retain

\* The entries pruneLocked considers.
PrunableAny(E, st) == E
Prunable(E, st) == {j \in E : Terminal(st[j])}

\* The sets of jobs pruneLocked may drop: the oldest terminal ones by
\* FinishedAt, as many as there is excess; sort.Slice breaks ties as it likes.
Victims(E, st, at) ==
    LET old == Prunable(E, st)
        n == IF Excess(E) > Cardinality(old) THEN Cardinality(old) ELSE Excess(E)
    IN IF Cardinality(E) <= Retain
       THEN {{}}
       ELSE {D \in SUBSET old :
               /\ Cardinality(D) = n
               /\ \A d \in D, k \in old \ D : at[d] <= at[k]}

\* pruneLocked
PruneLocked ==
    \E D \in Victims(entries, status, finishedAt) :
        entries' = entries \ D /\ Unlink(D)

-----------------------------------------------------------------------------
(* Run and RunPipeline.  A first child that cannot be started leaves no     *)
(* trace at all, so that error path is no step.                             *)

StartRun(j) ==
    /\ mode = "up" /\ sup[j] = "idle" /\ "run" \in Kinds
    /\ left' = [left EXCEPT ![j] = "alive"]
    /\ sup' = [sup EXCEPT ![j] = "started"]
    /\ status' = [status EXCEPT ![j] = "running"]
    /\ UNCHANGED <<right, entries, finishedAt, snap, removing, storage, service,
                   killer, clock, fired>>

StartLeft(j) ==
    /\ mode = "up" /\ sup[j] = "idle" /\ "pipeline" \in Kinds
    /\ left' = [left EXCEPT ![j] = "alive"]
    /\ sup' = [sup EXCEPT ![j] = "leftStarted"]
    /\ UNCHANGED <<right, memory, storage, service, killer, clock, fired>>

StartRight(j) ==
    /\ mode = "up" /\ sup[j] = "leftStarted"
    /\ right' = [right EXCEPT ![j] = "alive"]
    /\ sup' = [sup EXCEPT ![j] = "started"]
    /\ status' = [status EXCEPT ![j] = "running"]
    /\ UNCHANGED <<left, entries, finishedAt, snap, removing, storage, service,
                   killer, clock, fired>>

\* The left child is killed and waited for when the right one cannot start.
LeftAfterFailedStart(j) == IF left[j] = "alive" THEN "err" ELSE left[j]

StartRightFails(j) ==
    /\ mode = "up" /\ sup[j] = "leftStarted"
    /\ left' = [left EXCEPT ![j] = LeftAfterFailedStart(j)]
    /\ sup' = [sup EXCEPT ![j] = "aborted"]
    /\ UNCHANGED <<right, memory, storage, service, killer, clock, fired>>

Register(j) ==
    /\ mode = "up" /\ sup[j] = "started"
    /\ entries' = entries \cup {j}
    /\ sup' = [sup EXCEPT ![j] = "registered"]
    /\ UNCHANGED <<status, finishedAt, snap, removing, children, storage, service,
                   killer, clock, fired>>

\* From Register on the job is listed, so a cancellation may come first.
SnapshotSkipped(j) ==
    /\ mode = "up" /\ sup[j] = "registered"
    /\ sup' = [sup EXCEPT ![j] = "snapped"]
    /\ UNCHANGED <<memory, children, storage, service, killer, clock, fired>>
Snapshot(j) ==
    /\ mode = "up" /\ sup[j] = "registered"
    /\ snap' = [snap EXCEPT ![j] = [status |-> status[j], at |-> finishedAt[j]]]
    /\ sup' = [sup EXCEPT ![j] = "snapped"]
    /\ UNCHANGED <<entries, status, finishedAt, removing, children, storage,
                   service, killer, clock, fired>>

PersistStartUnannounced(j) ==
    /\ mode = "up" /\ sup[j] = "snapped"
    /\ WriteRecord(j, snap[j])
    /\ sup' = [sup EXCEPT ![j] = "waitLeft"]
    /\ UNCHANGED <<memory, children, service, killer, clock, fired>>
PersistStart(j) ==
    /\ mode = "up" /\ sup[j] = "snapped"
    /\ WriteRecord(j, snap[j])
    /\ sup' = [sup EXCEPT ![j] = "written"]
    /\ UNCHANGED <<memory, children, service, killer, clock, fired>>

\* Only after the announcement is the supervisor's goroutine started.
AnnounceStart(j) ==
    /\ mode = "up" /\ sup[j] = "written"
    /\ Fire(j, snap[j].status)
    /\ snap' = [snap EXCEPT ![j] = NoRecord]
    /\ sup' = [sup EXCEPT ![j] = "waitLeft"]
    /\ UNCHANGED <<entries, status, finishedAt, removing, children, storage,
                   service, killer, clock>>

\* Wait returns once the child has exited; a pipeline waits for both.
AfterLeftSkipsRight(j) == "ended"
AfterLeft(j) == IF right[j] = "none" THEN "ended" ELSE "waitRight"

WaitLeft(j) ==
    /\ mode = "up" /\ sup[j] = "waitLeft"
    /\ left[j] \in Ended
    /\ sup' = [sup EXCEPT ![j] = AfterLeft(j)]
    /\ UNCHANGED <<memory, children, storage, service, killer, clock, fired>>

WaitRight(j) ==
    /\ mode = "up" /\ sup[j] = "waitRight"
    /\ right[j] \in Ended
    /\ sup' = [sup EXCEPT ![j] = "ended"]
    /\ UNCHANGED <<memory, children, storage, service, killer, clock, fired>>

-----------------------------------------------------------------------------
(* finish: the status under the entry's lock, then the file, the            *)
(* notification and the pruning, none of them under a common lock.          *)

\* pipefail: either child's failure is the job's failure.
RunErrRightOnly(j) ==
    IF right[j] = "none" THEN left[j] = "err" ELSE right[j] = "err"
RunErr(j) == left[j] = "err" \/ right[j] = "err"

FinalStatusIgnoresCancel(j) == IF RunErr(j) THEN "failed" ELSE "success"
FinalStatus(j) ==
    IF status[j] = "cancelled" THEN "cancelled"
    ELSE IF RunErr(j) THEN "failed" ELSE "success"

FinishStatusIfListed(j) ==
    /\ mode = "up" /\ sup[j] = "ended" /\ j \in entries
    /\ clock' = clock + 1
    /\ finishedAt' = [finishedAt EXCEPT ![j] = clock + 1]
    /\ status' = [status EXCEPT ![j] = FinalStatus(j)]
    /\ snap' = [snap EXCEPT ![j] = [status |-> FinalStatus(j), at |-> clock + 1]]
    /\ sup' = [sup EXCEPT ![j] = "final"]
    /\ UNCHANGED <<entries, removing, children, storage, service, killer, fired>>
FinishStatus(j) ==
    /\ mode = "up" /\ sup[j] = "ended"
    /\ clock' = clock + 1
    /\ finishedAt' = [finishedAt EXCEPT ![j] = clock + 1]
    /\ status' = [status EXCEPT ![j] = FinalStatus(j)]
    /\ snap' = [snap EXCEPT ![j] = [status |-> FinalStatus(j), at |-> clock + 1]]
    /\ sup' = [sup EXCEPT ![j] = "final"]
    /\ UNCHANGED <<entries, removing, children, storage, service, killer, fired>>

FinishPersist(j) ==
    /\ mode = "up" /\ sup[j] = "final"
    /\ WriteRecord(j, snap[j])
    /\ sup' = [sup EXCEPT ![j] = "recorded"]
    /\ UNCHANGED <<memory, children, service, killer, clock, fired>>

\* The notification comes after the file.
FinishAnnounceEarly(j) ==
    /\ mode = "up" /\ sup[j] = "final"
    /\ Fire(j, snap[j].status)
    /\ sup' = [sup EXCEPT ![j] = "announced"]
    /\ UNCHANGED <<memory, children, storage, service, killer, clock>>
FinishAnnounce(j) ==
    /\ mode = "up" /\ sup[j] = "recorded"
    /\ Fire(j, snap[j].status)
    /\ snap' = [snap EXCEPT ![j] = NoRecord]
    /\ sup' = [sup EXCEPT ![j] = "announced"]
    /\ UNCHANGED <<entries, status, finishedAt, removing, children, storage,
                   service, killer, clock>>

FinishPrune(j) ==
    /\ mode = "up" /\ sup[j] = "announced"
    /\ PruneLocked
    /\ sup' = [sup EXCEPT ![j] = "done"]
    /\ UNCHANGED <<status, finishedAt, snap, removing, children, service, killer,
                   clock, fired>>

-----------------------------------------------------------------------------
(* Cancel and Remove *)

\* Under the entry's lock: unknown and terminal jobs are refused.
CancelMark(j) ==
    /\ mode = "up" /\ j \in entries
    /\ ~Terminal(status[j])
    /\ status' = [status EXCEPT ![j] = "cancelled"]
    /\ killer' = [killer EXCEPT ![j] = "pending"]
    /\ UNCHANGED <<entries, finishedAt, snap, removing, sup, children, storage,
                   service, clock, fired>>

\* The supervisor has waited for the group leader, whose pid is then free.
LeaderReaped(j) == sup[j] \in {"waitRight", "ended", "done"} \cup FinishPc

\* The cancel closure, outside the lock: Getpgid fails once the leader is
\* reaped; otherwise SIGTERM goes to the group, which may ignore it, and a
\* goroutine is left to escalate.
CancelSignal(j) ==
    /\ mode = "up" /\ killer[j] = "pending"
    /\ killer' = [killer EXCEPT ![j] = IF LeaderReaped(j) THEN "error" ELSE "armed"]
    /\ UNCHANGED <<memory, children, storage, service, sup, clock, fired>>

\* After cancelGracePeriod: SIGKILL to the group.
KilledNot(c) == c
Killed(c) == IF c = "alive" THEN "err" ELSE c

Escalate(j) ==
    /\ mode = "up" /\ killer[j] = "armed"
    /\ left' = [left EXCEPT ![j] = Killed(@)]
    /\ right' = [right EXCEPT ![j] = Killed(@)]
    /\ killer' = [killer EXCEPT ![j] = "fired"]
    /\ UNCHANGED <<memory, storage, service, sup, clock, fired>>

RemoveEntry(j) ==
    /\ mode = "up" /\ j \in entries
    /\ Terminal(status[j])
    /\ entries' = entries \ {j}
    /\ removing' = removing \cup {j}
    /\ UNCHANGED <<status, finishedAt, snap, sup, children, storage, service,
                   killer, clock, fired>>

RemoveFile(j) ==
    /\ mode = "up" /\ j \in removing
    /\ Unlink({j})
    /\ removing' = removing \ {j}
    /\ UNCHANGED <<entries, status, finishedAt, snap, sup, children, service,
                   killer, clock, fired>>

-----------------------------------------------------------------------------
(* The children and the life of the service *)

\* A child exits on its own, or because of SIGTERM.
ChildExits(j) ==
    \/ /\ left[j] = "alive"
       /\ \E x \in Ended : left' = [left EXCEPT ![j] = x]
       /\ UNCHANGED <<right, memory, storage, service, sup, killer, clock, fired>>
    \/ /\ right[j] = "alive"
       /\ \E x \in Ended : right' = [right EXCEPT ![j] = x]
       /\ UNCHANGED <<left, memory, storage, service, sup, killer, clock, fired>>

\* The children of a service that dies.
Survivor(c) == IF ChildrenDieWithService /\ c = "alive" THEN "err" ELSE c

Crash ==
    /\ mode \in {"up", "loading"}
    /\ crashes < MaxCrashes
    /\ mode' = "down" /\ crashes' = crashes + 1
    /\ entries' = {} /\ removing' = {} /\ loading' = {}
    /\ status' = [j \in Jobs |-> "none"]
    /\ finishedAt' = [j \in Jobs |-> 0]
    /\ snap' = [j \in Jobs |-> NoRecord]
    /\ sup' = [j \in Jobs |-> IF sup[j] = "idle" THEN "idle" ELSE "gone"]
    /\ left' = [j \in Jobs |-> Survivor(left[j])]
    /\ right' = [j \in Jobs |-> Survivor(right[j])]
    /\ killer' = [j \in Jobs |-> "none"]
    /\ fired' = [j \in Jobs |-> <<>>]
    /\ UNCHANGED <<storage, clock>>

\* The service manager starts the service, NewManager lists stateDir.
Restart ==
    /\ mode = "down"
    /\ mode' = "loading"
    /\ loading' = {j \in Jobs : disk[j] # NoRecord}
    /\ UNCHANGED <<crashes, memory, children, storage, sup, killer, clock, fired>>

\* What loadFromDisk makes of a record: a running job was interrupted.
LoadedAsIs(r, now) == r
LoadedAllInterrupted(r, now) == [status |-> "interrupted", at |-> now]
Loaded(r, now) ==
    IF r.status = "running"
    THEN [status |-> "interrupted", at |-> IF r.at = 0 THEN now ELSE r.at]
    ELSE r

LoadRecord(j) ==
    /\ mode = "loading" /\ j \in loading
    /\ LET r == Loaded(disk[j], clock + 1)
       IN /\ status' = [status EXCEPT ![j] = r.status]
          /\ finishedAt' = [finishedAt EXCEPT ![j] = r.at]
          /\ IF r = disk[j] THEN UNCHANGED storage ELSE WriteRecord(j, r)
    /\ entries' = entries \cup {j}
    /\ loading' = loading \ {j}
    /\ clock' = clock + 1
    /\ UNCHANGED <<snap, removing, sup, children, mode, crashes, killer, fired>>

\* A file that cannot be read or parsed is skipped and stays where it is.
LoadRecordFails(j) ==
    /\ mode = "loading" /\ j \in loading
    /\ faults < MaxFaults /\ faults' = faults + 1
    /\ loading' = loading \ {j}
    /\ UNCHANGED <<memory, disk, sup, children, mode, crashes, killer, clock, fired>>

LoadDone ==
    /\ mode = "loading" /\ loading = {}
    /\ PruneLocked
    /\ mode' = "up"
    /\ UNCHANGED <<status, finishedAt, snap, removing, sup, children, crashes,
                   loading, killer, clock, fired>>

-----------------------------------------------------------------------------

\* The steps of the thread that starts and then supervises job j.
Supervise(j) ==
    \/ StartRight(j) \/ StartRightFails(j)
    \/ Register(j) \/ Snapshot(j) \/ PersistStart(j) \/ AnnounceStart(j)
    \/ WaitLeft(j) \/ WaitRight(j)
    \/ FinishStatus(j) \/ FinishPersist(j) \/ FinishAnnounce(j) \/ FinishPrune(j)

Load == (\E j \in Jobs : LoadRecord(j) \/ LoadRecordFails(j)) \/ LoadDone

Next ==
    \/ \E j \in Jobs :
          \/ StartRun(j) \/ StartLeft(j)
          \/ Supervise(j)
          \/ CancelMark(j) \/ CancelSignal(j) \/ Escalate(j)
          \/ RemoveEntry(j) \/ RemoveFile(j)
          \/ ChildExits(j)
    \/ Crash \/ Restart \/ Load

Spec == Init /\ [][Next]_vars

\* Goroutines that can run are run, the grace period ends, and the service
\* manager restarts what died.  Nothing makes a child exit by itself, and no
\* client has to cancel, remove or start anything.
Fairness ==
    /\ \A j \in Jobs : WF_vars(Supervise(j))
    /\ \A j \in Jobs : WF_vars(CancelSignal(j)) /\ WF_vars(Escalate(j))
    /\ \A j \in Jobs : WF_vars(RemoveFile(j))
    /\ WF_vars(Restart) /\ WF_vars(Load)

FairSpec == Spec /\ Fairness

-----------------------------------------------------------------------------
(* The promise to clients *)

Serving == mode = "up"
Fresh == {j \in Jobs : sup[j] \in {"idle", "leftStarted", "started"}}
View == [j \in Jobs |-> IF j \in entries THEN status[j] ELSE "unlisted"]
Saved == [j \in Jobs |-> disk[j].status]

Lifecycle == INSTANCE JobLifecycle WITH
    serving <- Serving, fresh <- Fresh, view <- View, saved <- Saved

\* Seen through the API and the records the manager behaves as JobLifecycle
\* says, whatever its threads, its children and the restarts do.
ImplementsLifecycle == Lifecycle!Spec

-----------------------------------------------------------------------------
(* Safety *)

\* A job that has a final time, or whose pipeline could not be started, has
\* no running child left (Run 224-231, RunPipeline 304-309 and 360-389).
FinishedHasNoChild ==
    \A j \in Jobs :
        sup[j] \in {"ended", "done", "aborted"} \cup FinishPc => ~Live(j)

\* Whatever a list of the jobs shows as running is watched by a goroutine of
\* this life of the service: no restart and no error path leaves a job
\* "running" for ever (loadFromDisk, the order of Run).
RunningIsSupervised ==
    mode = "up" => \A j \in entries : status[j] = "running" => Active(j)

\* A job is a success only when every child exited with status zero, and a
\* failure only when one did not (pipefail, RunPipeline 239-242).
OutcomeIsPipefail ==
    \A j \in Jobs : sup[j] \in {"done"} \cup FinishPc =>
        /\ status[j] = "success" => left[j] = "ok" /\ right[j] \in {"none", "ok"}
        /\ status[j] = "failed" => "err" \in {left[j], right[j]}

\* Who is told that a job ended may rely on it being told again after a
\* restart: the file says so for as long as the job is listed (finish writes
\* before it fires, Remove and pruneLocked drop the entry before the file).
AnnouncedIsRecorded ==
    \A j \in Jobs :
        /\ mode = "up" /\ faults = 0 /\ j \in entries
        /\ sup[j] \in {"announced", "done"}
        => disk[j] = [status |-> status[j], at |-> finishedAt[j]]

\* Of a job its subscribers are told twice in one life of the service, when it
\* begins and when it has ended, and an end that they were told of stands: it is
\* the status, and what they are told later is the same. Cancel may come between
\* the listing and the first snapshot (Run 209-216); then they are told of the
\* same end twice and of no beginning, but never first of the end and then of
\* another one or of a running job.
ToldEndStands ==
    \A j \in Jobs :
        /\ Len(fired[j]) <= 2
        /\ sup[j] \in StartPc => Len(fired[j]) = 0
        /\ Len(fired[j]) >= 1 => fired[j][1] = "running" \/ fired[j][1] = status[j]
        /\ Len(fired[j]) = 2 => Terminal(fired[j][2]) /\ fired[j][2] = status[j]
        /\ sup[j] \in {"announced", "done"} => Len(fired[j]) = 2

\* Beside the jobs still being worked on no more than Retain are listed, so
\* that the list is back at the limit whenever the service is quiet
\* (finish 463-465, loadFromDisk 145; jobs start without any pruning).
Quiet == {j \in entries : ~Active(j)}
Bounded == mode = "up" => Cardinality(Quiet) <= Retain

(* The inductive invariant behind the theorems of JobManager_proofs *)

\* What the program counter of job j says of its status and its snapshot.
ThreadInv(j) ==
    /\ sup[j] \in {"idle", "leftStarted", "aborted"} => status[j] = "none"
    /\ sup[j] = "started" => status[j] = "running"
    /\ sup[j] \in {"registered", "snapped", "written", "waitLeft", "waitRight", "ended"}
          => status[j] \in {"running", "cancelled"}
    /\ sup[j] \in {"done"} \cup FinishPc => status[j] \in {"success", "failed", "cancelled"}
    /\ sup[j] = "gone" => status[j] # "running"
    /\ sup[j] \in {"snapped", "written"} => snap[j].status \in {"running", "cancelled"}
    /\ sup[j] \in {"final", "recorded"}
          => snap[j] = [status |-> status[j], at |-> finishedAt[j]]

\* Who is listed, who is being removed, and what the files hold meanwhile.
FileInv(j) ==
    /\ j \in entries => status[j] # "none"
    /\ j \in entries => sup[j] \notin {"idle", "leftStarted", "started", "aborted"}
    /\ j \in removing => Terminal(status[j]) /\ j \notin entries
    /\ disk[j].status = "none" => disk[j] = NoRecord
    /\ sup[j] \in {"idle", "leftStarted", "started", "aborted", "registered", "snapped"}
          => disk[j] = NoRecord
    /\ j \in loading => mode = "loading" /\ disk[j].status # "none"
    /\ mode = "down" \/ j \in loading => status[j] = "none"
    /\ mode # "up" => sup[j] \in {"idle", "gone"} /\ j \notin removing
    /\ sup[j] \in {"snapped", "written"} /\ snap[j].status = "cancelled" =>
          status[j] = "cancelled"
    /\ sup[j] \in {"written", "waitLeft", "waitRight", "ended", "final"} =>
          \/ disk[j].status \in {"none", "running"}
          \/ disk[j].status = "cancelled" /\ status[j] = "cancelled"
    /\ faults = 0 /\ j \in entries /\ sup[j] \in {"recorded", "announced", "done"}
          => disk[j] = [status |-> status[j], at |-> finishedAt[j]]

\* Which children are known to be gone, and what their exits decided.
ChildInv(j) ==
    /\ sup[j] \in {"idle", "leftStarted", "aborted"} => right[j] = "none"
    /\ sup[j] = "aborted" => left[j] # "alive"
    /\ sup[j] \in {"waitRight", "ended", "done"} \cup FinishPc => left[j] \in Ended
    /\ sup[j] \in {"ended", "done"} \cup FinishPc => right[j] # "alive"
    /\ sup[j] \in {"done"} \cup FinishPc =>
          /\ status[j] = "success" => ~RunErr(j)
          /\ status[j] = "failed" => RunErr(j)

\* How far the announcements have come.
EventInv(j) ==
    /\ sup[j] \in StartPc \cup {"aborted", "gone"} => Len(fired[j]) = 0
    /\ sup[j] \in {"waitLeft", "waitRight", "ended", "final", "recorded"}
          => Len(fired[j]) = 1
    /\ sup[j] \in {"announced", "done"} => Len(fired[j]) = 2 /\ fired[j][2] = status[j]
    /\ Len(fired[j]) # 0 =>
          fired[j][1] = "running" \/ (fired[j][1] = "cancelled" /\ status[j] = "cancelled")

IInv ==
    /\ TypeOK
    /\ \A j \in Jobs : ThreadInv(j) /\ FileInv(j) /\ ChildInv(j) /\ EventInv(j)

(* What no step may do *)

\* A status once terminal is not replaced by another, however a cancellation
\* and the end of the children interleave.
TerminalIsFinal ==
    [][\A j \in Jobs : Terminal(status[j]) /\ mode' # "down" => status'[j] = status[j]]_vars

\* The outcome on disk survives restarts: a terminal record is never given
\* another outcome, only deleted.
RecordedOutcomeStable ==
    [][\A j \in Jobs : Terminal(disk[j].status)
          => disk'[j] = NoRecord \/ disk'[j].status = disk[j].status]_vars

\* Neither the retention limit nor a client makes the manager forget a job it
\* shows as running.
RunningIsKept ==
    [][\A j \in entries : status[j] = "running" /\ mode' # "down" => j \in entries']_vars

(* Liveness, under FairSpec *)

\* A cancellation whose signal could be sent ends the job.
CancelledJobEnds ==
    \A j \in Jobs : killer[j] = "armed" ~> sup[j] \in {"done", "gone"}

\* Once its children are gone a job is reported, whatever else happens to it
\* (removed, pruned, cancelled) unless the service dies first.
ExitIsReported ==
    \A j \in Jobs :
        (sup[j] \in {"waitLeft", "waitRight"} /\ ~Live(j)) ~> sup[j] \in {"done", "gone"}

\* A record left at "running" by a dead service is put right by a later start,
\* once no write fails any more.
StaleRecordIsSettled ==
    \A j \in Jobs :
        (mode = "down" /\ sup[j] = "gone" /\ disk[j].status = "running" /\ faults = MaxFaults)
            ~> disk[j].status # "running"

(* What comments and documents say and the code does not do *)

\* manager.go:237 "placed in the same process group so cancel signals reach
\* both": no child outlives a cancellation that was not going to kill it.
CancelReachesChildren ==
    \A j \in Jobs : killer[j] = "error" => ~Live(j)
=============================================================================
