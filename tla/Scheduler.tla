------------------------------ MODULE Scheduler ------------------------------
(***************************************************************************)
(* internal/scheduler/scheduler.go: a table of registrations and one loop  *)
(* that wakes at the start of every minute, collects what is due and calls *)
(* each in a goroutine of its own.                                         *)
(*                                                                         *)
(* A registration is an object of its own: replacing a task's entry        *)
(* leaves the old object to the tick that collected it and to the          *)
(* goroutine that runs it.  Regs is a supply of such objects; one that     *)
(* nothing refers to may be allocated again.                               *)
(*                                                                         *)
(* Minutes are counted modulo Period, and FiresAt says in which minutes a  *)
(* schedule matches.  The clock is not set back.                           *)
(***************************************************************************)
EXTENDS Naturals, Functions

CONSTANTS
    Ids,        \* task identifiers
    Regs,       \* registration objects
    None,       \* no registration
    Schedules,
    Period,     \* minutes after which the schedules repeat
    FiresAt     \* the minutes in which a schedule matches

Minutes == 0 .. Period - 1

ASSUME PeriodAssumption == Period \in Nat \ {0}
ASSUME FiresAtAssumption == FiresAt \in [Schedules -> SUBSET Minutes]

\* The fields of *registered that the table is read for.
Registered == [reg: Regs, schedule: Schedules]

ASSUME NoneAssumption == None \notin Registered

VARIABLES
    tasks,      \* Scheduler.tasks: each id's registration and its schedule, or None
    id,         \* registered.id
    running,    \* registered.running
    active,     \* goroutines that run a registration's function
    due,        \* what the present tick collected and did not reach yet
    loop,       \* the tick loop: "off", "waiting" for its timer, "ready" when
                \* the timer fired, "ticking", "exited"
    started,    \* Scheduler.stop is not nil
    stop,       \* Stop: "no", "taken" the channels, "closed" one, "returned"
    ctxDone,    \* the context given to Start is cancelled
    minute,     \* the wall clock
    ticked      \* a tick has collected in this minute

schedulerVars == <<tasks, id, running, active, due, loop, started,
                   stop, ctxDone, minute, ticked>>
loopVars == <<due, loop, started, stop, ctxDone, minute, ticked>>

SchedulerTypeOK ==
    /\ tasks \in [Ids -> Registered \cup {None}]
    /\ id \in [Regs -> Ids]
    /\ running \in [Regs -> BOOLEAN]
    /\ active \in [Regs -> Nat]
    /\ due \in SUBSET Regs
    /\ loop \in {"off", "waiting", "ready", "ticking", "exited"}
    /\ started \in BOOLEAN
    /\ stop \in {"no", "taken", "closed", "returned"}
    /\ ctxDone \in BOOLEAN
    /\ minute \in Minutes
    /\ ticked \in BOOLEAN

\* What a registration that was never made holds is of no account.
SchedulerInit ==
    /\ tasks = [i \in Ids |-> None]
    /\ id \in [Regs -> Ids]
    /\ running = [r \in Regs |-> FALSE]
    /\ active = [r \in Regs |-> 0]
    /\ due = {}
    /\ loop = "off" /\ started = FALSE /\ stop = "no" /\ ctxDone = FALSE
    /\ minute = 0 /\ ticked = FALSE

Referenced(r) ==
    \/ \E i \in Ids : tasks[i] # None /\ tasks[i].reg = r
    \/ r \in due
    \/ active[r] > 0

Free == {r \in Regs : ~Referenced(r)}

-----------------------------------------------------------------------------
(* The table *)

Register(i, s) ==
    \E r \in Free :
        /\ tasks' = [tasks EXCEPT ![i] = [reg |-> r, schedule |-> s]]
        /\ id' = [id EXCEPT ![r] = i]
        /\ running' = [running EXCEPT ![r] = FALSE]
        /\ UNCHANGED <<active, loopVars>>

Unregister(i) ==
    /\ tasks' = [tasks EXCEPT ![i] = None]
    /\ UNCHANGED <<id, running, active, loopVars>>

-----------------------------------------------------------------------------
(* The loop *)

\* Time goes on.  The timer was set for the start of the next minute, so it
\* fires when the minute changes, if the loop waits for it.
MinutePasses ==
    /\ minute' = (minute + 1) % Period
    /\ ticked' = FALSE
    /\ loop' = IF loop = "waiting" THEN "ready" ELSE loop
    /\ UNCHANGED <<tasks, id, running, active, due, started, stop, ctxDone>>

\* The first half of tick, under the read lock.
Collect ==
    /\ loop = "ready"
    /\ LET registered == {tasks[i] : i \in Ids} \ {None} IN
       due' = {t.reg : t \in {u \in registered : minute \in FiresAt[u.schedule]}}
    /\ loop' = "ticking"
    /\ ticked' = TRUE
    /\ UNCHANGED <<tasks, id, running, active, started, stop, ctxDone, minute>>

\* The second half, one registration after the other without the lock; one
\* whose last run is not over is skipped.
Fire(r) ==
    /\ loop = "ticking"
    /\ r \in due
    /\ due' = due \ {r}
    /\ IF running[r]
       THEN UNCHANGED <<running, active>>
       ELSE /\ running' = [running EXCEPT ![r] = TRUE]
            /\ active' = [active EXCEPT ![r] = @ + 1]
    /\ UNCHANGED <<tasks, id, loop, started, stop, ctxDone, minute, ticked>>

\* tick returned; the timer is set for the minute after the present one.
ArmForThisMinute ==
    /\ loop = "ticking"
    /\ due = {}
    /\ loop' = "ready"
    /\ UNCHANGED <<tasks, id, running, active, due, started, stop, ctxDone, minute, ticked>>
ArmTimer ==
    /\ loop = "ticking"
    /\ due = {}
    /\ loop' = "waiting"
    /\ UNCHANGED <<tasks, id, running, active, due, started, stop, ctxDone, minute, ticked>>

\* The function of a registration returns, and the deferred Store with it.
FunctionReturnsStillRunning(r) ==
    /\ active[r] > 0
    /\ active' = [active EXCEPT ![r] = @ - 1]
    /\ UNCHANGED <<tasks, id, running, loopVars>>
FunctionReturns(r) ==
    /\ active[r] > 0
    /\ active' = [active EXCEPT ![r] = @ - 1]
    /\ running' = [running EXCEPT ![r] = FALSE]
    /\ UNCHANGED <<tasks, id, loopVars>>

LoopExitsByField ==
    /\ loop \in {"waiting", "ready"}
    /\ started /\ stop = "closed"
    /\ loop' = "exited"
    /\ UNCHANGED <<tasks, id, running, active, due, started, stop, ctxDone, minute, ticked>>
LoopExits ==
    /\ loop \in {"waiting", "ready"}
    /\ ctxDone \/ stop = "closed"
    /\ loop' = "exited"
    /\ UNCHANGED <<tasks, id, running, active, due, started, stop, ctxDone, minute, ticked>>

-----------------------------------------------------------------------------
(* Stop, and the context *)

\* main stops the scheduler when the server has returned, which it does after
\* the context has ended.
StopTakes ==
    /\ ctxDone
    /\ started /\ stop = "no"
    /\ started' = FALSE
    /\ stop' = "taken"
    /\ UNCHANGED <<tasks, id, running, active, due, loop, ctxDone, minute, ticked>>

StopCloses ==
    /\ stop = "taken"
    /\ stop' = "closed"
    /\ UNCHANGED <<tasks, id, running, active, due, loop, started, ctxDone, minute, ticked>>

StopReturns ==
    /\ stop = "closed" /\ loop = "exited"
    /\ stop' = "returned"
    /\ UNCHANGED <<tasks, id, running, active, due, loop, started, ctxDone, minute, ticked>>

\* main receives SIGINT or SIGTERM and closes its listeners.
ContextEnds ==
    /\ loop # "off" /\ ~ctxDone
    /\ ctxDone' = TRUE
    /\ UNCHANGED <<tasks, id, running, active, due, loop, started, stop, minute, ticked>>

\* What the clock and the loop do by themselves.
SchedulerNext ==
    \/ MinutePasses \/ Collect \/ (\E r \in Regs : Fire(r)) \/ ArmTimer
    \/ LoopExits \/ StopTakes \/ StopCloses \/ StopReturns \/ ContextEnds

-----------------------------------------------------------------------------
(* Properties *)

\* A registration is run by one goroutine at a time, and running says whether
\* there is one: what the compare-and-swap of tick and the deferred Store are
\* for.
OneRunPerRegistration ==
    \A r \in Regs : active[r] = IF running[r] THEN 1 ELSE 0

\* No minute is ticked twice, however long a tick takes: "* * * * *" fires at
\* most once a minute.
TickOncePerMinute == [][Collect => ~ticked]_schedulerVars

\* Stop does not wait for ever: closing the channel ends the loop, whatever
\* the loop was doing.
StopEnds == (stop = "taken") ~> (stop # "taken" /\ stop # "closed")
=============================================================================
