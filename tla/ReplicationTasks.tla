-------------------------- MODULE ReplicationTasks --------------------------
(***************************************************************************)
(* Replication tasks: the store (internal/replication/store.go), the       *)
(* handlers that change it (internal/api/replication_handlers.go), the     *)
(* registrations in the scheduler and the function they run                *)
(* (internal/replication/runner.go).                                       *)
(*                                                                         *)
(* Each operation of the store is one step, because it holds s.mu and      *)
(* writes the whole file through a rename.  A save that fails is undone    *)
(* and answered with an error, which changes nothing and is no step, but   *)
(* for AppendRun.  A handler changes the store and the scheduler one after *)
(* the other: two steps, with whatever happens in between.                 *)
(*                                                                         *)
(* Of a task, whether it is enabled, its schedule and the number of runs   *)
(* on record are kept.  What a run does is the subject of ReplicationRun.  *)
(***************************************************************************)
EXTENDS Scheduler

CONSTANTS
    Clients,       \* requests served at the same time
    MaxRunHistory, \* runs kept on record (20)
    MaxTransfers   \* bound: transfers of one task under way at the same time

ASSUME MaxRunHistoryAssumption == MaxRunHistory \in Nat
ASSUME MaxTransfersAssumption == MaxTransfers \in Nat

Task == [enabled: BOOLEAN, schedule: Schedules, runs: 0 .. MaxRunHistory]

\* A request between its two steps; a create or update carries the copy of the
\* task that the store returned.
Request ==
    [op: {"create", "update"}, task: Ids, enabled: BOOLEAN, schedule: Schedules]
      \cup [op: {"delete"}, task: Ids]

ASSUME NothingAssumption == None \notin Task /\ None \notin Request

VARIABLES
    stored,    \* Store.tasks: what the service holds of each task, or None
    file,      \* replication.json
    used,      \* ids that Create has given out
    req,       \* the request of each client that is between its two steps, or None
    inside,    \* callbacks of a registration that are executing a run
    transfers, \* runs that were dispatched and are waited for by afterJob
    stray,     \* requests for this task overlapped, or a delete failed half way
    gone       \* the deletion of this task was answered with success

storeVars == <<stored, file, used, req, stray, gone>>
runVars == <<inside, transfers>>
vars == <<schedulerVars, storeVars, runVars>>

TypeOK ==
    /\ SchedulerTypeOK
    /\ stored \in [Ids -> Task \cup {None}]
    /\ file \in [Ids -> Task \cup {None}]
    /\ used \in [Ids -> BOOLEAN]
    /\ req \in [Clients -> Request \cup {None}]
    /\ inside \in [Regs -> Nat]
    /\ transfers \in [Ids -> 0 .. MaxTransfers]
    /\ stray \in [Ids -> BOOLEAN]
    /\ gone \in [Ids -> BOOLEAN]

Up == loop # "off"
InFlight(i) == {c \in Clients : req[c] # None /\ req[c].task = i}

Init ==
    /\ SchedulerInit
    /\ stored = [i \in Ids |-> None]
    /\ file = [i \in Ids |-> None]
    /\ used = [i \in Ids |-> FALSE]
    /\ req = [c \in Clients |-> None]
    /\ inside = [r \in Regs |-> 0]
    /\ transfers = [i \in Ids |-> 0]
    /\ stray = [i \in Ids |-> FALSE]
    /\ gone = [i \in Ids |-> FALSE]

-----------------------------------------------------------------------------
(* Requests *)

\* A request has taken its first step and has the second before it.
Begin(c, q) ==
    /\ Up /\ ~ctxDone /\ req[c] = None
    /\ req' = [req EXCEPT ![c] = q]
    /\ stray' = [stray EXCEPT ![q.task] = InFlight(q.task) # {}]

End(c) == req' = [req EXCEPT ![c] = None]

Carrying(op, i, e, s) == [op |-> op, task |-> i, enabled |-> e, schedule |-> s]

\* saveLocked after a change of one task: everything in memory goes to the file.
Store(i, t) ==
    /\ stored' = [stored EXCEPT ![i] = t]
    /\ file' = stored'

\* createReplication up to Store.Create.
CreateStores(c, i, e, s) ==
    /\ ~used[i]
    /\ Begin(c, Carrying("create", i, e, s))
    /\ Store(i, [enabled |-> e, schedule |-> s, runs |-> 0])
    /\ used' = [used EXCEPT ![i] = TRUE]
    /\ UNCHANGED <<schedulerVars, runVars, gone>>

\* updateReplication up to Store.Update; an unknown id is answered with 404.
UpdateStores(c, i, e, s) ==
    /\ stored[i] # None
    /\ Begin(c, Carrying("update", i, e, s))
    /\ Store(i, [stored[i] EXCEPT !.enabled = e, !.schedule = s])
    /\ UNCHANGED <<schedulerVars, runVars, used, gone>>

\* Runner.RegisterEnabled.  The schedule was parsed when the request was
\* validated, so that register does not fail, and the roll-back in
\* createReplication is never reached.
RegisterOnly(i, e, s) == IF e THEN Register(i, s) ELSE UNCHANGED schedulerVars
RegisterEnabled(i, e, s) == IF e THEN Register(i, s) ELSE Unregister(i)

\* The second step of a create or an update.
HandlerRegisters(c) ==
    /\ Up /\ req[c] # None /\ req[c].op # "delete"
    /\ RegisterEnabled(req[c].task, req[c].enabled, req[c].schedule)
    /\ End(c)
    /\ UNCHANGED <<runVars, stored, file, used, stray, gone>>

\* deleteReplication: first the scheduler, then the store.
DeleteUnregisters(c, i) ==
    /\ used[i]
    /\ Begin(c, [op |-> "delete", task |-> i])
    /\ Unregister(i)
    /\ UNCHANGED <<runVars, stored, file, used, gone>>

\* The save may fail; then the task is as it was, but for its registration.
\* A task that is not there is answered with 404.
DeleteStores(c) ==
    LET i == req[c].task IN
    /\ Up /\ req[c] # None /\ req[c].op = "delete"
    /\ End(c)
    /\ \/ /\ stored[i] # None
          /\ Store(i, None)
          /\ gone' = [gone EXCEPT ![i] = TRUE]
          /\ UNCHANGED stray
       \/ /\ stored[i] # None
          /\ stray' = [stray EXCEPT ![i] = @ \/ stored[i].enabled]
          /\ UNCHANGED <<stored, file, gone>>
       \/ /\ stored[i] = None
          /\ UNCHANGED <<stored, file, gone, stray>>
    /\ UNCHANGED <<schedulerVars, runVars, used>>

-----------------------------------------------------------------------------
(* Runs *)

\* runReplication: a task need not be enabled to be run by hand.
RunNow(i) ==
    /\ Up /\ ~ctxDone /\ stored[i] # None
    /\ transfers[i] < MaxTransfers
    /\ transfers' = [transfers EXCEPT ![i] = @ + 1]
    /\ UNCHANGED <<schedulerVars, storeVars, inside>>

\* The function that register gives to the scheduler loads the task again, and
\* executes nothing when it is gone or disabled.
WantedAtRegistration(i) == TRUE
Wanted(i) == stored[i] # None /\ stored[i].enabled

CallbackSkips(r) ==
    /\ active[r] > inside[r]
    /\ ~Wanted(id[r])
    /\ FunctionReturns(r)
    /\ UNCHANGED <<storeVars, runVars>>

CallbackRuns(r) ==
    /\ active[r] > inside[r]
    /\ Wanted(id[r])
    /\ inside' = [inside EXCEPT ![r] = @ + 1]
    /\ UNCHANGED <<schedulerVars, storeVars, transfers>>

\* execute has dispatched the transfer and started afterJob, or has failed.
CallbackEnds(r) ==
    /\ inside[r] > 0
    /\ inside' = [inside EXCEPT ![r] = @ - 1]
    /\ FunctionReturns(r)
    /\ \/ /\ transfers[id[r]] < MaxTransfers
          /\ transfers' = [transfers EXCEPT ![id[r]] = @ + 1]
       \/ UNCHANGED transfers
    /\ UNCHANGED storeVars

OneMoreRun(t) == [t EXCEPT !.runs = IF @ < MaxRunHistory THEN @ + 1 ELSE @]

\* afterJob ends with AppendRun: unlike the others it leaves memory ahead of the
\* file when the save fails.
AfterJob(i) ==
    /\ transfers[i] > 0
    /\ transfers' = [transfers EXCEPT ![i] = @ - 1]
    /\ \/ /\ stored[i] # None
          /\ stored' = [stored EXCEPT ![i] = OneMoreRun(@)]
          /\ file' = stored' \/ file' = file
       \/ stored[i] = None /\ UNCHANGED <<stored, file>>
    /\ UNCHANGED <<schedulerVars, inside, used, req, stray, gone>>

\* afterJob of a scheduled run returns when the context ends.
AfterJobGivesUp(i) ==
    /\ ctxDone /\ transfers[i] > 0
    /\ transfers' = [transfers EXCEPT ![i] = @ - 1]
    /\ UNCHANGED <<schedulerVars, inside, storeVars>>

-----------------------------------------------------------------------------
(* The service *)

\* The service dies, or main returns: only the file is left.  main does not
\* wait for requests that are being served, so that the two are the same.
Crash ==
    /\ Up
    /\ tasks' = [i \in Ids |-> None]
    /\ running' = [r \in Regs |-> FALSE]
    /\ active' = [r \in Regs |-> 0]
    /\ due' = {} /\ loop' = "off" /\ started' = FALSE /\ stop' = "no" /\ ctxDone' = FALSE
    /\ stored' = [i \in Ids |-> None]
    /\ req' = [c \in Clients |-> None]
    /\ inside' = [r \in Regs |-> 0]
    /\ transfers' = [i \in Ids |-> 0]
    /\ UNCHANGED <<id, minute, ticked, file, used, stray, gone>>

\* NewStore, LoadAndRegisterAll and Start, before any request is served.
StartUp ==
    /\ ~Up
    /\ stored' = file
    /\ \E f \in [Ids -> Regs] :
        /\ IsInjective(f)
        /\ tasks' = [i \in Ids |->
               IF file[i] # None /\ file[i].enabled
               THEN [reg |-> f[i], schedule |-> file[i].schedule] ELSE None]
        /\ id' = [r \in Regs |-> IF \E i \in Ids : f[i] = r
                                 THEN CHOOSE i \in Ids : f[i] = r ELSE id[r]]
    /\ loop' = "waiting" /\ started' = TRUE
    /\ stray' = [i \in Ids |-> FALSE]
    /\ UNCHANGED <<running, active, due, stop, ctxDone, minute, ticked,
                   file, used, req, gone, runVars>>

ClientNext(c) ==
    \/ \E i \in Ids, e \in BOOLEAN, s \in Schedules :
            CreateStores(c, i, e, s) \/ UpdateStores(c, i, e, s)
    \/ \E i \in Ids : DeleteUnregisters(c, i)
    \/ HandlerRegisters(c)
    \/ DeleteStores(c)

Next ==
    \/ SchedulerNext /\ UNCHANGED <<storeVars, runVars>>
    \/ \E c \in Clients : ClientNext(c)
    \/ \E i \in Ids : RunNow(i) \/ AfterJob(i) \/ AfterJobGivesUp(i)
    \/ \E r \in Regs : CallbackSkips(r) \/ CallbackRuns(r) \/ CallbackEnds(r)
    \/ Crash
    \/ StartUp

Spec == Init /\ [][Next]_vars

\* Goroutines take their steps, and the commands that a run waits for end.  The
\* loop reads its closed channel some time (select picks among ready branches
\* at random).  Of each minute of the period, the loop does not for ever miss
\* the beginning or overrun the end: a tick only starts goroutines.
Fairness ==
    /\ WF_vars(StartUp)
    /\ WF_vars(MinutePasses /\ UNCHANGED <<storeVars, runVars>>)
    /\ \A m \in Minutes :
        /\ SF_vars(minute = m /\ Collect /\ UNCHANGED <<storeVars, runVars>>)
        /\ SF_vars(minute = m /\ ArmTimer /\ UNCHANGED <<storeVars, runVars>>)
    /\ SF_vars(LoopExits /\ UNCHANGED <<storeVars, runVars>>)
    /\ WF_vars(StopCloses /\ UNCHANGED <<storeVars, runVars>>)
    /\ WF_vars(StopReturns /\ UNCHANGED <<storeVars, runVars>>)
    /\ \A r \in Regs :
        /\ WF_vars(Fire(r) /\ UNCHANGED <<storeVars, runVars>>)
        /\ WF_vars(CallbackSkips(r) \/ CallbackRuns(r))
        /\ WF_vars(CallbackEnds(r))

FairSpec == Spec /\ Fairness

-----------------------------------------------------------------------------
(* Properties *)

\* Who is registered: no more than what the store says when nothing is under
\* way, and what the handler is about to make of it when one request is.
Agrees(i) ==
    IF stored[i] # None /\ stored[i].enabled
    THEN tasks[i] # None /\ tasks[i].schedule = stored[i].schedule
    ELSE tasks[i] = None

CopyIsStored(c) ==
    LET q == req[c] IN
    IF q.op = "delete"
    THEN tasks[q.task] = None
    ELSE /\ stored[q.task] # None
         /\ stored[q.task].enabled = q.enabled
         /\ stored[q.task].schedule = q.schedule

RequestOK(i) ==
    Up /\ ~stray[i] =>
        \/ InFlight(i) = {} /\ Agrees(i)
        \/ \E c \in Clients : InFlight(i) = {c} /\ CopyIsStored(c)
RequestInv == \A i \in Ids : RequestOK(i)

\* A registration stands under its own id; running says whether a goroutine
\* runs it; a tick that has collected nothing is yet to come in this minute.
RegInv ==
    /\ \A i \in Ids : tasks[i] # None => id[tasks[i].reg] = i
    /\ OneRunPerRegistration
    /\ \A r \in Regs : inside[r] <= active[r]
    /\ loop = "ready" => ~ticked

\* The file has the configuration that the service has, and no run that the
\* service does not know of; what was deleted is in neither.
SameButForRuns(t, u) ==
    /\ (t = None) <=> (u = None)
    /\ t # None => /\ t.enabled = u.enabled /\ t.schedule = u.schedule
                   /\ t.runs <= u.runs
FileOK(i) ==
    /\ Up => SameButForRuns(file[i], stored[i])
    /\ ~Up => stored[i] = None /\ tasks[i] = None /\ InFlight(i) = {}
    /\ gone[i] => used[i] /\ file[i] = None
    /\ ~used[i] => file[i] = None /\ InFlight(i) = {}
FileInv == \A i \in Ids : FileOK(i)

\* At every step: types, registrations, requests and file fit together, across
\* failed saves, overlapping requests and restarts.
IInv == TypeOK /\ RegInv /\ RequestInv /\ FileInv

\* At rest the scheduler has what the store has, with the same schedule, unless
\* requests for the same task overlapped or a deletion failed half way since.
SchedulerMatchesStore ==
    \A i \in Ids : Up /\ InFlight(i) = {} /\ ~stray[i] => Agrees(i)

\* Once a deletion was answered with success, no run of the task begins and no
\* restart brings it back, whatever the scheduler had collected or a request
\* that overlapped registered.
DeletedStaysDeleted ==
    [][\A i \in Ids : gone[i] =>
        /\ stored'[i] = None
        /\ \A r \in Regs : id[r] = i => inside'[r] <= inside[r]]_vars

\* A task that is and stays enabled, and is registered as it is stored, is run
\* again and again.
EnabledTaskKeepsRunning ==
    \A i \in Ids, s \in Schedules :
        <>[](/\ Up /\ stop = "no" /\ ~ctxDone
             /\ Wanted(i) /\ Agrees(i) /\ stored[i].schedule = s /\ FiresAt[s] # {})
        => []<>(\E r \in Regs : id[r] = i /\ inside[r] > 0)
=============================================================================
