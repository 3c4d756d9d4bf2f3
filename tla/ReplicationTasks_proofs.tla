----------------------- MODULE ReplicationTasks_proofs -----------------------
(***************************************************************************)
(* Scheduler and replication tasks, for any tasks, schedules, clients and  *)
(* registration objects: the inductive invariant and what follows from it. *)
(***************************************************************************)
EXTENDS ReplicationTasks, TLAPS

USE PeriodAssumption, FiresAtAssumption, NoneAssumption, NothingAssumption,
    MaxRunHistoryAssumption, MaxTransfersAssumption

-----------------------------------------------------------------------------
(* What a step that leaves a task's requests alone keeps *)

\* The configuration of a task and its registration decide RequestOK.
LEMMA RequestKept ==
    ASSUME NEW i \in Ids, RequestOK(i), Up' => Up, req' = req,
           stray[i] => stray'[i],
           tasks'[i] = tasks[i],
           (stored'[i] = None) <=> (stored[i] = None),
           stored[i] # None => /\ stored'[i].enabled = stored[i].enabled
                               /\ stored'[i].schedule = stored[i].schedule
    PROVE  RequestOK(i)'
<1>1. InFlight(i)' = InFlight(i)
  BY DEF InFlight
<1>2. Agrees(i) => Agrees(i)'
  BY DEF Agrees
<1>3. \A c \in Clients : InFlight(i) = {c} /\ CopyIsStored(c) => CopyIsStored(c)'
  <2> SUFFICES ASSUME NEW c \in Clients, InFlight(i) = {c}, CopyIsStored(c)
               PROVE  CopyIsStored(c)'
    OBVIOUS
  <2>1. req[c].task = i
    BY DEF InFlight
  <2> QED
    BY <2>1 DEF CopyIsStored
<1> QED
  BY <1>1, <1>2, <1>3 DEF RequestOK

LEMMA FileKept ==
    ASSUME NEW i \in Ids, FileOK(i), Up' = Up, req' = req,
           tasks'[i] = tasks[i], stored'[i] = stored[i], file'[i] = file[i],
           gone'[i] = gone[i], used'[i] = used[i]
    PROVE  FileOK(i)'
BY DEF FileOK, InFlight, SameButForRuns

-----------------------------------------------------------------------------
(* The clock, the loop, Stop and the context *)

LEMMA SchedulerStepInv ==
    ASSUME IInv, SchedulerNext, UNCHANGED <<storeVars, runVars>>
    PROVE  IInv'
<1> USE DEF IInv, TypeOK, SchedulerTypeOK, RegInv, OneRunPerRegistration, storeVars,
        runVars, Minutes
<1>1. /\ tasks' = tasks /\ id' = id
      /\ Up' = Up
  BY DEF SchedulerNext, MinutePasses, Collect, Fire, ArmTimer, LoopExits, StopTakes,
         StopCloses, StopReturns, ContextEnds, Up
<1>2. RequestInv'
  BY <1>1, RequestKept DEF RequestInv
<1>3. FileInv'
  BY <1>1, FileKept DEF FileInv
<1>4. CASE MinutePasses
  <2>1. minute' \in Minutes
    BY <1>4 DEF MinutePasses
  <2> QED
    BY <1>2, <1>3, <1>4, <2>1 DEF MinutePasses
<1>5. CASE Collect
  BY <1>2, <1>3, <1>5 DEF Collect, Registered
<1>6. ASSUME NEW r \in Regs, Fire(r) PROVE IInv'
  <2>1. CASE running[r]
    BY <1>2, <1>3, <1>6, <2>1 DEF Fire
  <2>2. CASE ~running[r]
    <3>1. /\ running' = [running EXCEPT ![r] = TRUE]
          /\ active' = [active EXCEPT ![r] = 1]
      BY <1>6, <2>2 DEF Fire
    <3>2. due' = due \ {r} /\ loop' = loop /\ ticked' = ticked
      BY <1>6 DEF Fire
    <3>3. TypeOK'
      BY <1>6, <3>1, <3>2 DEF Fire
    <3>4. OneRunPerRegistration'
      BY <3>1
    <3>5. \A q \in Regs : inside'[q] <= active'[q]
      BY <3>1, <2>2
    <3> QED
      BY <1>1, <1>2, <1>3, <3>2, <3>3, <3>4, <3>5
  <2> QED
    BY <2>1, <2>2
<1>7. CASE ArmTimer
  BY <1>2, <1>3, <1>7 DEF ArmTimer
<1>8. CASE LoopExits
  BY <1>2, <1>3, <1>8 DEF LoopExits
<1>9. CASE StopTakes
  BY <1>2, <1>3, <1>9 DEF StopTakes
<1>10. CASE StopCloses
  BY <1>2, <1>3, <1>10 DEF StopCloses
<1>11. CASE StopReturns
  BY <1>2, <1>3, <1>11 DEF StopReturns
<1>12. CASE ContextEnds
  BY <1>2, <1>3, <1>12 DEF ContextEnds
<1> QED
  BY <1>4, <1>5, <1>6, <1>7, <1>8, <1>9, <1>10, <1>11, <1>12 DEF SchedulerNext

-----------------------------------------------------------------------------
(* Runs *)

\* A function that returns was the only one, and leaves as many that execute.
LEMMA ReturnKeepsRegistrations ==
    ASSUME TypeOK, RegInv, NEW r \in Regs, FunctionReturns(r)
    PROVE  /\ active' = [active EXCEPT ![r] = 0]
           /\ running' = [running EXCEPT ![r] = FALSE]
           /\ SchedulerTypeOK'
           /\ OneRunPerRegistration'
           /\ \A i \in Ids : tasks'[i] # None => id'[tasks'[i].reg] = i
           /\ loop' = "ready" => ~ticked'
<1> USE DEF TypeOK, SchedulerTypeOK, RegInv, OneRunPerRegistration
<1>1. active[r] = 1 /\ 1 - 1 = 0
  BY DEF FunctionReturns
<1>2. /\ active' = [active EXCEPT ![r] = 0]
      /\ running' = [running EXCEPT ![r] = FALSE]
  BY <1>1 DEF FunctionReturns
<1>3. UNCHANGED <<tasks, id, loopVars>>
  BY DEF FunctionReturns
<1>4. SchedulerTypeOK'
  BY <1>2, <1>3 DEF loopVars
<1> QED
  BY <1>2, <1>3, <1>4 DEF loopVars

LEMMA RunStepInv ==
    ASSUME IInv, NEW r \in Regs, CallbackSkips(r) \/ CallbackRuns(r) \/ CallbackEnds(r)
    PROVE  IInv'
<1> USE DEF IInv
<1>1. UNCHANGED <<storeVars, tasks, id, loop>>
  BY DEF CallbackSkips, CallbackRuns, CallbackEnds, FunctionReturns, schedulerVars, loopVars
<1>2. RequestInv' /\ FileInv'
  BY <1>1, RequestKept, FileKept DEF RequestInv, FileInv, storeVars, Up
<1>3. CASE CallbackSkips(r)
  <2>1. FunctionReturns(r) /\ UNCHANGED <<storeVars, runVars>> /\ active[r] > inside[r]
    BY <1>3 DEF CallbackSkips
  <2>2. /\ active' = [active EXCEPT ![r] = 0]
        /\ SchedulerTypeOK' /\ OneRunPerRegistration'
        /\ \A i \in Ids : tasks'[i] # None => id'[tasks'[i].reg] = i
        /\ loop' = "ready" => ~ticked'
    BY <2>1, ReturnKeepsRegistrations
  <2>3. TypeOK'
    BY <2>1, <2>2 DEF TypeOK, storeVars, runVars
  <2>4. inside[r] = 0
    BY <2>1 DEF TypeOK, SchedulerTypeOK, RegInv, OneRunPerRegistration
  <2>5. \A q \in Regs : inside'[q] <= active'[q]
    BY <2>1, <2>2, <2>4 DEF TypeOK, SchedulerTypeOK, RegInv, runVars
  <2> QED
    BY <1>2, <2>2, <2>3, <2>5 DEF RegInv
<1>4. CASE CallbackRuns(r)
  <2>1. inside' = [inside EXCEPT ![r] = inside[r] + 1] /\ active[r] > inside[r]
        /\ UNCHANGED <<schedulerVars, storeVars, transfers>>
    BY <1>4 DEF CallbackRuns
  <2>2. TypeOK'
    BY <2>1 DEF TypeOK, SchedulerTypeOK, schedulerVars, storeVars
  <2>3. \A q \in Regs : inside'[q] <= active'[q]
    BY <2>1 DEF TypeOK, SchedulerTypeOK, RegInv, schedulerVars
  <2> QED
    BY <1>2, <2>1, <2>2, <2>3 DEF RegInv, OneRunPerRegistration, schedulerVars
<1>5. CASE CallbackEnds(r)
  <2>1. /\ FunctionReturns(r) /\ UNCHANGED storeVars
        /\ inside[r] > 0 /\ inside' = [inside EXCEPT ![r] = inside[r] - 1]
        /\ \/ /\ transfers[id[r]] < MaxTransfers
              /\ transfers' = [transfers EXCEPT ![id[r]] = @ + 1]
           \/ UNCHANGED transfers
    BY <1>5 DEF CallbackEnds
  <2>2. /\ active' = [active EXCEPT ![r] = 0]
        /\ SchedulerTypeOK' /\ OneRunPerRegistration'
        /\ \A i \in Ids : tasks'[i] # None => id'[tasks'[i].reg] = i
        /\ loop' = "ready" => ~ticked'
    BY <2>1, ReturnKeepsRegistrations
  <2>3. inside[r] = 1 /\ inside[r] - 1 = 0
    BY <2>1 DEF TypeOK, SchedulerTypeOK, RegInv, OneRunPerRegistration
  <2>4. transfers' \in [Ids -> 0 .. MaxTransfers]
    BY <2>1 DEF TypeOK, SchedulerTypeOK
  <2>5. TypeOK'
    BY <2>1, <2>2, <2>3, <2>4 DEF TypeOK, storeVars
  <2>6. \A q \in Regs : inside'[q] <= active'[q]
    BY <2>1, <2>2, <2>3 DEF TypeOK, SchedulerTypeOK, RegInv
  <2> QED
    BY <1>2, <2>2, <2>5, <2>6 DEF RegInv
<1> QED
  BY <1>3, <1>4, <1>5

\* A run that is added to the record changes nothing else.
LEMMA OneMoreRunIsTask ==
    ASSUME NEW t \in Task
    PROVE  /\ OneMoreRun(t) \in Task
           /\ OneMoreRun(t).enabled = t.enabled
           /\ OneMoreRun(t).schedule = t.schedule
           /\ t.runs <= OneMoreRun(t).runs
BY DEF Task, OneMoreRun

LEMMA AfterJobInv ==
    ASSUME IInv, NEW i \in Ids, AfterJob(i)
    PROVE  IInv'
<1> USE DEF IInv
<1>1. UNCHANGED <<schedulerVars, inside, used, req, stray, gone>>
      /\ transfers[i] > 0 /\ transfers' = [transfers EXCEPT ![i] = transfers[i] - 1]
  BY DEF AfterJob
<1>2. transfers' \in [Ids -> 0 .. MaxTransfers]
  BY <1>1 DEF TypeOK
<1>3. RegInv'
  BY <1>1 DEF RegInv, OneRunPerRegistration, schedulerVars
<1>4. Up' = Up /\ tasks' = tasks
  BY <1>1 DEF Up, schedulerVars
<1>5. CASE stored[i] = None /\ UNCHANGED <<stored, file>>
  <2>1. RequestInv' /\ FileInv'
    BY <1>1, <1>4, <1>5, RequestKept, FileKept DEF RequestInv, FileInv
  <2> QED
    BY <1>1, <1>2, <1>3, <1>5, <2>1 DEF TypeOK, SchedulerTypeOK, schedulerVars
<1>6. CASE /\ stored[i] # None
           /\ stored' = [stored EXCEPT ![i] = OneMoreRun(stored[i])]
           /\ file' = stored' \/ file' = file
  <2> DEFINE t == OneMoreRun(stored[i])
  <2>1. stored[i] \in Task
    BY <1>6 DEF TypeOK
  <2>2. /\ t \in Task /\ t.enabled = stored[i].enabled
        /\ t.schedule = stored[i].schedule /\ stored[i].runs <= t.runs /\ t # None
    BY <2>1, OneMoreRunIsTask
  <2>3. stored'[i] = t /\ \A j \in Ids : j # i => stored'[j] = stored[j]
    BY <1>6 DEF TypeOK
  <2>4. stored' \in [Ids -> Task \cup {None}] /\ file' \in [Ids -> Task \cup {None}]
    BY <1>6, <2>2 DEF TypeOK
  <2>5. TypeOK'
    BY <1>1, <1>2, <2>4 DEF TypeOK, SchedulerTypeOK, schedulerVars
  <2> HIDE DEF t
  <2>6. RequestInv'
    <3> SUFFICES ASSUME NEW j \in Ids PROVE RequestOK(j)'
      BY DEF RequestInv
    <3>1. (stored'[j] = None) <=> (stored[j] = None)
      BY <1>6, <2>2, <2>3
    <3>2. stored[j] # None => /\ stored'[j].enabled = stored[j].enabled
                              /\ stored'[j].schedule = stored[j].schedule
      BY <2>2, <2>3
    <3> QED
      BY <1>1, <1>4, <3>1, <3>2, RequestKept DEF RequestInv
  <2>7. FileInv'
    <3> SUFFICES ASSUME NEW j \in Ids PROVE FileOK(j)'
      BY DEF FileInv
    <3>1. InFlight(j)' = InFlight(j) /\ FileOK(j)
      BY <1>1 DEF InFlight, FileInv
    <3>2. CASE j # i
      <4>1. stored'[j] = stored[j] /\ (file'[j] = file[j] \/ file'[j] = stored[j])
        BY <1>6, <2>3, <3>2
      <4>2. Up => SameButForRuns(file'[j], stored'[j])
        BY <4>1, <3>1 DEF FileOK, SameButForRuns, TypeOK, Task
      <4>3. ~Up => stored'[j] = None /\ tasks'[j] = None
        BY <3>1, <4>1, <1>4 DEF FileOK
      <4>4. file[j] = None => file'[j] = None
        BY <3>1, <4>1 DEF FileOK, SameButForRuns
      <4> QED
        BY <1>1, <1>4, <3>1, <4>2, <4>3, <4>4 DEF FileOK
    <3>3. CASE j = i
      <4>1. Up /\ file[i] # None
        BY <1>6, <3>1, <3>3 DEF FileOK, SameButForRuns
      <4>2. file[i] \in Task
        BY <4>1 DEF TypeOK
      <4>3. SameButForRuns(file'[i], stored'[i])
        <5>1. CASE file' = stored'
          BY <2>2, <2>3, <5>1 DEF SameButForRuns, Task
        <5>2. CASE file' = file
          <6>1. SameButForRuns(file[i], stored[i])
            BY <3>1, <3>3, <4>1 DEF FileOK
          <6>2. file[i].runs <= stored[i].runs
            BY <4>1, <6>1 DEF SameButForRuns
          <6>3. file[i].runs \in Nat /\ stored[i].runs \in Nat /\ t.runs \in Nat
            BY <2>1, <2>2, <4>2 DEF Task
          <6>4. file[i].runs <= t.runs
            BY <2>2, <6>2, <6>3
          <6> QED
            BY <1>6, <2>2, <2>3, <4>1, <5>2, <6>1, <6>4 DEF SameButForRuns
        <5> QED
          BY <1>6, <5>1, <5>2
      <4> QED
        BY <1>1, <1>4, <3>1, <3>3, <4>1, <4>3 DEF FileOK
    <3> QED
      BY <3>2, <3>3
  <2> QED
    BY <1>3, <2>5, <2>6, <2>7
<1> QED
  BY <1>5, <1>6 DEF AfterJob

LEMMA OtherRunInv ==
    ASSUME IInv, NEW i \in Ids, RunNow(i) \/ AfterJobGivesUp(i)
    PROVE  IInv'
<1> USE DEF IInv
<1>1. UNCHANGED <<schedulerVars, storeVars, inside>>
  BY DEF RunNow, AfterJobGivesUp
<1>2. transfers' \in [Ids -> 0 .. MaxTransfers]
  BY DEF TypeOK, RunNow, AfterJobGivesUp
<1>3. TypeOK'
  BY <1>1, <1>2 DEF TypeOK, SchedulerTypeOK, schedulerVars, storeVars
<1>4. RegInv'
  BY <1>1 DEF RegInv, OneRunPerRegistration, schedulerVars
<1>5. RequestInv' /\ FileInv'
  BY <1>1, RequestKept, FileKept DEF RequestInv, FileInv, schedulerVars, storeVars, Up
<1> QED
  BY <1>3, <1>4, <1>5

-----------------------------------------------------------------------------
(* Requests *)

\* A request that begins is the only one of its task, or the task is astray.
LEMMA BeginRequests ==
    ASSUME TypeOK, NEW c \in Clients, NEW q \in Request, Begin(c, q)
    PROVE  /\ req' \in [Clients -> Request \cup {None}] /\ stray' \in [Ids -> BOOLEAN]
           /\ Up /\ req'[c] = q /\ q.task \in Ids /\ q # None
           /\ InFlight(q.task)' = InFlight(q.task) \cup {c}
           /\ ~stray'[q.task] => InFlight(q.task) = {}
           /\ \A j \in Ids : j # q.task =>
                 InFlight(j)' = InFlight(j) /\ stray'[j] = stray[j]
           /\ \A d \in Clients : d # c => req'[d] = req[d]
<1>1. q.task \in Ids /\ q # None
  BY DEF Request
<1>2. req[c] = None /\ req' = [req EXCEPT ![c] = q] /\ Up
      /\ stray' = [stray EXCEPT ![q.task] = InFlight(q.task) # {}]
  BY DEF Begin
<1>3. req' \in [Clients -> Request \cup {None}] /\ stray' \in [Ids -> BOOLEAN]
  BY <1>2 DEF TypeOK
<1>4. req'[c] = q /\ \A d \in Clients : d # c => req'[d] = req[d]
  BY <1>2 DEF TypeOK
<1>5. InFlight(q.task)' = InFlight(q.task) \cup {c}
  BY <1>1, <1>2, <1>4 DEF InFlight
<1>6. \A j \in Ids : j # q.task => InFlight(j)' = InFlight(j)
  BY <1>1, <1>2, <1>4 DEF InFlight
<1>7. stray'[q.task] = (InFlight(q.task) # {})
      /\ \A j \in Ids : j # q.task => stray'[j] = stray[j]
  BY <1>1, <1>2 DEF TypeOK
<1> QED
  BY <1>1, <1>2, <1>3, <1>4, <1>5, <1>6, <1>7

\* What another task has is not touched by a request.
LEMMA OtherTaskKept ==
    ASSUME IInv, NEW j \in Ids, Up, Up', InFlight(j)' = InFlight(j),
           \A c \in InFlight(j) : req'[c] = req[c],
           stray'[j] = stray[j], tasks'[j] = tasks[j],
           stored'[j] = stored[j], file'[j] = stored[j] \/ file'[j] = file[j],
           gone'[j] = gone[j], used'[j] = used[j]
    PROVE  RequestOK(j)' /\ FileOK(j)'
<1>1. RequestOK(j) /\ FileOK(j)
  BY DEF IInv, RequestInv, FileInv
<1>2. RequestOK(j)'
  <2>1. Agrees(j) => Agrees(j)'
    BY DEF Agrees
  <2>2. \A c \in Clients : InFlight(j) = {c} /\ CopyIsStored(c) => CopyIsStored(c)'
    <3> SUFFICES ASSUME NEW c \in Clients, InFlight(j) = {c}, CopyIsStored(c)
                 PROVE  CopyIsStored(c)'
      OBVIOUS
    <3>1. req[c].task = j /\ req'[c] = req[c]
      BY DEF InFlight
    <3> QED
      BY <3>1 DEF CopyIsStored
  <2> QED
    BY <1>1, <2>1, <2>2 DEF RequestOK
<1>3. SameButForRuns(file[j], stored[j])
  BY <1>1 DEF FileOK
<1>4. SameButForRuns(file'[j], stored'[j])
  <2>1. SameButForRuns(stored[j], stored[j])
    <3>1. stored[j] # None => stored[j].runs \in Nat
      BY DEF IInv, TypeOK, Task
    <3> QED
      BY <3>1 DEF SameButForRuns
  <2> QED
    BY <1>3, <2>1
<1>5. file[j] = None => file'[j] = None
  BY <1>3 DEF SameButForRuns
<1> QED
  BY <1>1, <1>2, <1>4, <1>5 DEF FileOK

\* A create or an update stores what it carries.
LEMMA StoringInv ==
    ASSUME IInv, NEW c \in Clients, NEW i \in Ids, NEW e \in BOOLEAN, NEW s \in Schedules,
           NEW op \in {"create", "update"}, NEW t \in Task,
           t.enabled = e, t.schedule = s,
           Begin(c, Carrying(op, i, e, s)), Store(i, t),
           UNCHANGED <<schedulerVars, runVars, gone>>,
           used' = [used EXCEPT ![i] = TRUE], ~gone[i]
    PROVE  IInv'
<1> DEFINE q == Carrying(op, i, e, s)
<1>1. /\ q \in Request /\ q.task = i /\ q.op # "delete" /\ q.enabled = e /\ q.schedule = s
  BY DEF Request, Carrying
<1> HIDE DEF q
<1>2. Begin(c, q)
  BY DEF q
<1>3. /\ req' \in [Clients -> Request \cup {None}] /\ stray' \in [Ids -> BOOLEAN]
      /\ Up /\ req'[c] = q /\ q # None
      /\ InFlight(i)' = InFlight(i) \cup {c}
      /\ ~stray'[i] => InFlight(i) = {}
      /\ \A j \in Ids : j # i => InFlight(j)' = InFlight(j) /\ stray'[j] = stray[j]
      /\ \A d \in Clients : d # c => req'[d] = req[d]
  BY <1>1, <1>2, BeginRequests DEF IInv
<1>4. stored' = [stored EXCEPT ![i] = t] /\ file' = stored'
  BY DEF Store
<1>5. t # None /\ t.runs \in Nat
  BY DEF Task
<1>6. TypeOK'
  <2>1. stored' \in [Ids -> Task \cup {None}] /\ used' \in [Ids -> BOOLEAN]
    BY <1>4 DEF IInv, TypeOK
  <2> QED
    BY <1>3, <1>4, <2>1 DEF IInv, TypeOK, SchedulerTypeOK, schedulerVars, runVars
<1>7. RegInv'
  BY DEF IInv, RegInv, OneRunPerRegistration, schedulerVars, runVars
<1>8. Up' /\ tasks' = tasks /\ gone' = gone
  BY <1>3 DEF Up, schedulerVars
<1>9. stored'[i] = t /\ used'[i] = TRUE
  BY <1>4 DEF IInv, TypeOK
<1>10. RequestOK(i)' /\ FileOK(i)'
  <2>1. CopyIsStored(c)'
    BY <1>1, <1>3, <1>5, <1>9 DEF CopyIsStored
  <2>2. SameButForRuns(file'[i], stored'[i])
    BY <1>4, <1>5, <1>9 DEF SameButForRuns
  <2> QED
    BY <1>3, <1>8, <1>9, <2>1, <2>2 DEF RequestOK, FileOK
<1>11. ASSUME NEW j \in Ids, j # i PROVE RequestOK(j)' /\ FileOK(j)'
  <2>1. stored'[j] = stored[j] /\ used'[j] = used[j]
    BY <1>4, <1>11 DEF IInv, TypeOK
  <2>2. \A d \in InFlight(j) : req'[d] = req[d]
    <3>1. req[c] = None
      BY <1>2 DEF Begin
    <3> QED
      BY <1>3, <3>1 DEF InFlight
  <2> QED
    BY <1>3, <1>4, <1>8, <1>11, <2>1, <2>2, OtherTaskKept
<1> QED
  BY <1>6, <1>7, <1>10, <1>11 DEF IInv, RequestInv, FileInv

LEMMA CreateStoresInv ==
    ASSUME IInv, NEW c \in Clients, NEW i \in Ids, NEW e \in BOOLEAN, NEW s \in Schedules,
           CreateStores(c, i, e, s)
    PROVE  IInv'
<1>1. ~used[i] /\ ~gone[i]
  BY DEF CreateStores, IInv, FileInv, FileOK
<1>2. [enabled |-> e, schedule |-> s, runs |-> 0] \in Task
  BY DEF Task
<1> QED
  BY <1>1, <1>2, StoringInv DEF CreateStores

LEMMA UpdateStoresInv ==
    ASSUME IInv, NEW c \in Clients, NEW i \in Ids, NEW e \in BOOLEAN, NEW s \in Schedules,
           UpdateStores(c, i, e, s)
    PROVE  IInv'
<1>1. stored[i] # None /\ stored[i] \in Task /\ FileOK(i) /\ Up
  BY DEF UpdateStores, Begin, IInv, TypeOK, FileInv
<1>2. file[i] # None /\ used[i] /\ ~gone[i]
  BY <1>1 DEF FileOK, SameButForRuns
<1>3. used' = [used EXCEPT ![i] = TRUE]
  BY <1>2 DEF UpdateStores, IInv, TypeOK
<1> DEFINE t == [stored[i] EXCEPT !.enabled = e, !.schedule = s]
<1>4. t \in Task /\ t.enabled = e /\ t.schedule = s
  BY <1>1 DEF Task
<1>5. /\ Begin(c, Carrying("update", i, e, s)) /\ Store(i, t)
      /\ UNCHANGED <<schedulerVars, runVars, gone>>
  BY DEF UpdateStores
<1> HIDE DEF t
<1> QED
  BY <1>2, <1>3, <1>4, <1>5, StoringInv

\* The table after the second step of a create or an update.
LEMMA RegisterEnabledTable ==
    ASSUME TypeOK, RegInv, NEW i \in Ids, NEW e \in BOOLEAN, NEW s \in Schedules,
           RegisterEnabled(i, e, s), UNCHANGED runVars
    PROVE  /\ SchedulerTypeOK' /\ RegInv' /\ loop' = loop
           /\ IF e THEN tasks'[i] # None /\ tasks'[i].schedule = s ELSE tasks'[i] = None
           /\ \A j \in Ids : j # i => tasks'[j] = tasks[j]
<1> USE DEF TypeOK, SchedulerTypeOK, RegInv, OneRunPerRegistration, loopVars, runVars
<1>1. CASE e
  <2>1. PICK r \in Free :
          /\ tasks' = [tasks EXCEPT ![i] = [reg |-> r, schedule |-> s]]
          /\ id' = [id EXCEPT ![r] = i]
          /\ running' = [running EXCEPT ![r] = FALSE]
          /\ UNCHANGED <<active, loopVars>>
    BY <1>1 DEF RegisterEnabled, Register
  <2>2. r \in Regs /\ ~(active[r] > 0) /\ \A j \in Ids : tasks[j] # None => tasks[j].reg # r
    BY DEF Free, Referenced
  <2>3. [reg |-> r, schedule |-> s] \in Registered
    BY <2>2 DEF Registered
  <2>4. /\ tasks'[i] = [reg |-> r, schedule |-> s] /\ tasks'[i] # None
        /\ \A j \in Ids : j # i => tasks'[j] = tasks[j]
    BY <2>1, <2>3
  <2>5. SchedulerTypeOK'
    BY <2>1, <2>2, <2>3
  <2>6. \A j \in Ids : tasks'[j] # None => id'[tasks'[j].reg] = j
    <3> SUFFICES ASSUME NEW j \in Ids, tasks'[j] # None PROVE id'[tasks'[j].reg] = j
      OBVIOUS
    <3>1. CASE j = i
      BY <2>1, <2>2, <2>4, <3>1
    <3>2. CASE j # i
      <4>1. tasks[j] \in Registered /\ tasks[j].reg # r /\ tasks[j].reg \in Regs
        BY <2>2, <2>4, <3>2 DEF Registered
      <4> QED
        BY <2>1, <2>4, <3>2, <4>1
    <3> QED
      BY <3>1, <3>2
  <2>7. OneRunPerRegistration'
    <3>1. active[r] = 0 /\ active' = active
      BY <2>1, <2>2
    <3> QED
      BY <2>1, <2>2, <3>1
  <2> QED
    BY <1>1, <2>1, <2>4, <2>5, <2>6, <2>7
<1>2. CASE ~e
  BY <1>2 DEF RegisterEnabled, Unregister
<1> QED
  BY <1>1, <1>2

\* What is left of a request that ends.
LEMMA EndRequests ==
    ASSUME TypeOK, NEW c \in Clients, req[c] # None, End(c)
    PROVE  /\ req' \in [Clients -> Request \cup {None}]
           /\ req[c] \in Request /\ req[c].task \in Ids
           /\ \A j \in Ids : j = req[c].task =>
                 c \in InFlight(j) /\ InFlight(j)' = InFlight(j) \ {c}
           /\ \A j \in Ids : j # req[c].task =>
                 c \notin InFlight(j) /\ InFlight(j)' = InFlight(j)
           /\ \A d \in Clients : d # c => req'[d] = req[d]
<1>1. req[c] \in Request
  BY DEF TypeOK
<1>2. req[c].task \in Ids
  BY <1>1 DEF Request
<1>3. req' \in [Clients -> Request \cup {None}] /\ req'[c] = None
      /\ \A d \in Clients : d # c => req'[d] = req[d]
  BY DEF TypeOK, End
<1>4. \A j \in Ids : InFlight(j)' = InFlight(j) \ {c}
  BY <1>3 DEF InFlight
<1>5. \A j \in Ids : c \in InFlight(j) <=> j = req[c].task
  BY DEF InFlight
<1>6. \A j \in Ids : c \notin InFlight(j) => InFlight(j)' = InFlight(j)
  BY <1>4
<1> QED
  BY <1>1, <1>2, <1>3, <1>4, <1>5, <1>6

LEMMA HandlerRegistersInv ==
    ASSUME IInv, NEW c \in Clients, HandlerRegisters(c)
    PROVE  IInv'
<1>0. PICK i : i = req[c].task
  OBVIOUS
<1>1. /\ Up /\ req[c] # None /\ req[c].op # "delete"
      /\ RegisterEnabled(i, req[c].enabled, req[c].schedule)
      /\ End(c)
      /\ UNCHANGED <<runVars, stored, file, used, stray, gone>>
  BY <1>0 DEF HandlerRegisters
<1>2. /\ req' \in [Clients -> Request \cup {None}]
      /\ req[c] \in Request /\ i \in Ids /\ c \in InFlight(i)
      /\ InFlight(i)' = InFlight(i) \ {c}
      /\ \A j \in Ids : j # i => InFlight(j)' = InFlight(j)
      /\ \A d \in Clients : d # c => req'[d] = req[d]
  BY <1>0, <1>1, EndRequests DEF IInv
<1>3. req[c].enabled \in BOOLEAN /\ req[c].schedule \in Schedules
  BY <1>1, <1>2 DEF Request
<1>4. /\ SchedulerTypeOK' /\ RegInv' /\ loop' = loop
      /\ IF req[c].enabled THEN tasks'[i] # None /\ tasks'[i].schedule = req[c].schedule
         ELSE tasks'[i] = None
      /\ \A j \in Ids : j # i => tasks'[j] = tasks[j]
  BY <1>1, <1>2, <1>3, RegisterEnabledTable DEF IInv
<1>5. TypeOK'
  BY <1>1, <1>2, <1>4 DEF IInv, TypeOK, runVars
<1>6. Up'
  BY <1>1, <1>4 DEF Up
<1>7. RequestOK(i) /\ FileOK(i)
  BY <1>2 DEF IInv, RequestInv, FileInv
<1>8. RequestOK(i)'
  <2> SUFFICES ASSUME ~stray[i] PROVE InFlight(i)' = {} /\ Agrees(i)'
    BY <1>1 DEF RequestOK
  <2>1. PICK d \in Clients : InFlight(i) = {d} /\ CopyIsStored(d)
    BY <1>1, <1>2, <1>7 DEF RequestOK
  <2>2. d = c
    BY <1>2, <2>1
  <2>3. /\ stored[i] # None /\ stored[i].enabled = req[c].enabled
        /\ stored[i].schedule = req[c].schedule
    BY <1>0, <1>1, <2>1, <2>2 DEF CopyIsStored
  <2> QED
    BY <1>1, <1>2, <1>4, <2>1, <2>2, <2>3 DEF Agrees
<1>9. FileOK(i)'
  BY <1>1, <1>2, <1>6, <1>7 DEF FileOK, SameButForRuns
<1>10. ASSUME NEW j \in Ids, j # i PROVE RequestOK(j)' /\ FileOK(j)'
  <2>1. \A d \in InFlight(j) : req'[d] = req[d]
    BY <1>0, <1>2, <1>10 DEF InFlight
  <2> QED
    BY <1>1, <1>2, <1>4, <1>6, <1>10, <2>1, OtherTaskKept
<1> QED
  BY <1>4, <1>5, <1>8, <1>9, <1>10 DEF IInv, RequestInv, FileInv

LEMMA DeleteUnregistersInv ==
    ASSUME IInv, NEW c \in Clients, NEW i \in Ids, DeleteUnregisters(c, i)
    PROVE  IInv'
<1> DEFINE q == [op |-> "delete", task |-> i]
<1>1. q \in Request /\ q.task = i /\ q.op = "delete"
  BY DEF Request
<1>2. /\ used[i] /\ Begin(c, q) /\ Unregister(i)
      /\ UNCHANGED <<runVars, stored, file, used, gone>>
  BY DEF DeleteUnregisters
<1> HIDE DEF q
<1>3. /\ req' \in [Clients -> Request \cup {None}] /\ stray' \in [Ids -> BOOLEAN]
      /\ Up /\ req'[c] = q /\ q # None
      /\ InFlight(i)' = InFlight(i) \cup {c}
      /\ ~stray'[i] => InFlight(i) = {}
      /\ \A j \in Ids : j # i => InFlight(j)' = InFlight(j) /\ stray'[j] = stray[j]
      /\ \A d \in Clients : d # c => req'[d] = req[d]
  BY <1>1, <1>2, BeginRequests DEF IInv
<1>4. /\ tasks' = [tasks EXCEPT ![i] = None]
      /\ UNCHANGED <<id, running, active, due, loop, started, stop, ctxDone, minute, ticked>>
  BY <1>2 DEF Unregister, loopVars
<1>5. /\ tasks'[i] = None /\ tasks' \in [Ids -> Registered \cup {None}]
      /\ \A j \in Ids : j # i => tasks'[j] = tasks[j]
  BY <1>4 DEF IInv, TypeOK, SchedulerTypeOK
<1>6. TypeOK'
  BY <1>2, <1>3, <1>4, <1>5 DEF IInv, TypeOK, SchedulerTypeOK, runVars
<1>7. RegInv'
  BY <1>2, <1>4, <1>5 DEF IInv, RegInv, OneRunPerRegistration, runVars
<1>8. Up'
  BY <1>3, <1>4 DEF Up
<1>9. RequestOK(i)'
  BY <1>1, <1>3, <1>5 DEF RequestOK, CopyIsStored
<1>10. FileOK(i)'
  BY <1>2, <1>8, <1>3 DEF IInv, FileInv, FileOK, SameButForRuns
<1>11. ASSUME NEW j \in Ids, j # i PROVE RequestOK(j)' /\ FileOK(j)'
  <2>1. \A d \in InFlight(j) : req'[d] = req[d]
    BY <1>2, <1>3 DEF InFlight, Begin
  <2> QED
    BY <1>2, <1>3, <1>5, <1>8, <1>11, <2>1, OtherTaskKept
<1> QED
  BY <1>6, <1>7, <1>9, <1>10, <1>11 DEF IInv, RequestInv, FileInv

LEMMA DeleteStoresInv ==
    ASSUME IInv, NEW c \in Clients, DeleteStores(c)
    PROVE  IInv'
<1>0. PICK i : i = req[c].task
  OBVIOUS
<1>1. /\ Up /\ req[c] # None /\ req[c].op = "delete" /\ End(c)
      /\ UNCHANGED <<schedulerVars, runVars, used>>
  BY DEF DeleteStores
<1>2. /\ req' \in [Clients -> Request \cup {None}]
      /\ req[c] \in Request /\ i \in Ids /\ c \in InFlight(i)
      /\ InFlight(i)' = InFlight(i) \ {c}
      /\ \A j \in Ids : j # i => InFlight(j)' = InFlight(j)
      /\ \A d \in Clients : d # c => req'[d] = req[d]
  BY <1>0, <1>1, EndRequests DEF IInv
<1>3. \/ /\ stored[i] # None /\ Store(i, None)
         /\ gone' = [gone EXCEPT ![i] = TRUE] /\ UNCHANGED stray
      \/ /\ stored[i] # None
         /\ stray' = [stray EXCEPT ![i] = stray[i] \/ stored[i].enabled]
         /\ UNCHANGED <<stored, file, gone>>
      \/ stored[i] = None /\ UNCHANGED <<stored, file, gone, stray>>
  BY <1>0 DEF DeleteStores
<1>4. ~stray[i] => InFlight(i) = {c} /\ tasks[i] = None
  <2> SUFFICES ASSUME ~stray[i] PROVE InFlight(i) = {c} /\ tasks[i] = None
    OBVIOUS
  <2>1. PICK d \in Clients : InFlight(i) = {d} /\ CopyIsStored(d)
    BY <1>1, <1>2 DEF IInv, RequestInv, RequestOK
  <2>2. d = c
    BY <1>2, <2>1
  <2> QED
    BY <1>0, <1>1, <2>1, <2>2 DEF CopyIsStored
<1>5. FileOK(i)
  BY <1>2 DEF IInv, FileInv
<1>6. Up' /\ tasks' = tasks
  BY <1>1 DEF Up, schedulerVars
<1>7. RegInv'
  BY <1>1 DEF IInv, RegInv, OneRunPerRegistration, schedulerVars, runVars
<1>8. /\ stored' \in [Ids -> Task \cup {None}] /\ file' \in [Ids -> Task \cup {None}]
      /\ stray' \in [Ids -> BOOLEAN] /\ gone' \in [Ids -> BOOLEAN]
      /\ \A j \in Ids : j # i =>
            /\ stored'[j] = stored[j] /\ gone'[j] = gone[j] /\ stray'[j] = stray[j]
            /\ file'[j] = stored[j] \/ file'[j] = file[j]
  <2>1. CASE Store(i, None) /\ gone' = [gone EXCEPT ![i] = TRUE] /\ UNCHANGED stray
    BY <1>2, <2>1 DEF IInv, TypeOK, Store
  <2>2. CASE UNCHANGED <<stored, file, gone>> /\ UNCHANGED stray
    BY <2>2 DEF IInv, TypeOK
  <2>3. CASE /\ stored[i] # None
             /\ stray' = [stray EXCEPT ![i] = stray[i] \/ stored[i].enabled]
             /\ UNCHANGED <<stored, file, gone>>
    <3>1. stored[i] \in Task
      BY <1>2, <2>3 DEF IInv, TypeOK
    <3>2. (stray[i] \/ stored[i].enabled) \in BOOLEAN
      BY <3>1 DEF Task
    <3> QED
      BY <1>2, <2>3, <3>2 DEF IInv, TypeOK
  <2> QED
    BY <1>3, <2>1, <2>2, <2>3
<1>9. TypeOK'
  BY <1>1, <1>2, <1>8 DEF IInv, TypeOK, SchedulerTypeOK, schedulerVars, runVars
<1>10. RequestOK(i)' /\ FileOK(i)'
  <2>1. CASE Store(i, None) /\ gone' = [gone EXCEPT ![i] = TRUE] /\ UNCHANGED stray
             /\ stored[i] # None
    <3>1. stored'[i] = None /\ file'[i] = None /\ stray'[i] = stray[i]
      BY <1>2, <2>1 DEF IInv, TypeOK, Store
    <3>2. used[i] /\ used' = used
      BY <1>1, <1>5, <2>1 DEF FileOK, SameButForRuns
    <3>3. Agrees(i)' <=> tasks[i] = None
      BY <1>6, <3>1 DEF Agrees
    <3> QED
      BY <1>2, <1>4, <1>6, <3>1, <3>2, <3>3 DEF RequestOK, FileOK, SameButForRuns
  <2>2. CASE UNCHANGED <<stored, file, gone, stray>> /\ stored[i] = None
    <3>1. RequestOK(i)'
      BY <1>2, <1>4, <1>6, <2>2 DEF RequestOK, Agrees
    <3>2. FileOK(i)'
      BY <1>1, <1>2, <1>5, <1>6, <2>2 DEF FileOK, SameButForRuns
    <3> QED
      BY <3>1, <3>2
  <2>3. CASE /\ stored[i] # None
             /\ stray' = [stray EXCEPT ![i] = stray[i] \/ stored[i].enabled]
             /\ UNCHANGED <<stored, file, gone>>
    <3>1. stray'[i] = (stray[i] \/ stored[i].enabled)
      BY <1>2, <2>3 DEF IInv, TypeOK
    <3>2. RequestOK(i)'
      BY <1>2, <1>4, <1>6, <2>3, <3>1 DEF RequestOK, Agrees
    <3>3. FileOK(i)'
      BY <1>1, <1>2, <1>5, <1>6, <2>3 DEF FileOK, SameButForRuns
    <3> QED
      BY <3>2, <3>3
  <2> QED
    BY <1>3, <2>1, <2>2, <2>3
<1>11. ASSUME NEW j \in Ids, j # i PROVE RequestOK(j)' /\ FileOK(j)'
  <2>1. \A d \in InFlight(j) : req'[d] = req[d]
    BY <1>0, <1>2, <1>11 DEF InFlight
  <2>2. InFlight(j)' = InFlight(j)
    BY <1>0, <1>2, <1>11
  <2>3. /\ stored'[j] = stored[j] /\ gone'[j] = gone[j] /\ stray'[j] = stray[j]
        /\ file'[j] = stored[j] \/ file'[j] = file[j]
    BY <1>8, <1>11
  <2>4. tasks'[j] = tasks[j] /\ used'[j] = used[j] /\ Up /\ Up'
    BY <1>1, <1>6
  <2> QED
    BY <2>1, <2>2, <2>3, <2>4, OtherTaskKept
<1> QED
  BY <1>7, <1>9, <1>10, <1>11 DEF IInv, RequestInv, FileInv

-----------------------------------------------------------------------------
(* The service *)

LEMMA CrashInv == IInv /\ Crash => IInv'
<1> SUFFICES ASSUME IInv, Crash PROVE IInv'
  OBVIOUS
<1> USE DEF Crash
<1>1. TypeOK'
  <2>1. /\ stored' \in [Ids -> Task \cup {None}] /\ req' \in [Clients -> Request \cup {None}]
        /\ inside' \in [Regs -> Nat] /\ transfers' \in [Ids -> 0 .. MaxTransfers]
    OBVIOUS
  <2>2. UNCHANGED <<file, used, stray, gone>>
    OBVIOUS
  <2>3. SchedulerTypeOK'
    <3>1. tasks' \in [Ids -> Registered \cup {None}] /\ running' \in [Regs -> BOOLEAN]
          /\ active' \in [Regs -> Nat]
      OBVIOUS
    <3>2. UNCHANGED <<id, minute, ticked>> /\ due' = {} /\ loop' = "off"
          /\ started' = FALSE /\ stop' = "no" /\ ctxDone' = FALSE
      OBVIOUS
    <3> HIDE DEF Crash
    <3> QED
      BY <3>1, <3>2 DEF IInv, TypeOK, SchedulerTypeOK
  <2> HIDE DEF Crash
  <2> QED
    BY <2>1, <2>2, <2>3 DEF IInv, TypeOK
<1>2. RegInv'
  BY DEF IInv, TypeOK, SchedulerTypeOK, RegInv, OneRunPerRegistration
<1>3. ~Up'
  BY DEF Up
<1>4. \A i \in Ids : InFlight(i)' = {}
  BY DEF InFlight
<1>5. FileInv'
  BY <1>3, <1>4 DEF IInv, FileInv, FileOK
<1>6. RequestInv'
  BY <1>3 DEF RequestInv, RequestOK
<1> QED
  BY <1>1, <1>2, <1>5, <1>6 DEF IInv

LEMMA StartUpInv == IInv /\ StartUp => IInv'
<1> SUFFICES ASSUME IInv, StartUp PROVE IInv'
  OBVIOUS
<1>1. PICK f \in [Ids -> Regs] :
        /\ IsInjective(f)
        /\ tasks' = [i \in Ids |->
               IF file[i] # None /\ file[i].enabled
               THEN [reg |-> f[i], schedule |-> file[i].schedule] ELSE None]
        /\ id' = [r \in Regs |-> IF \E i \in Ids : f[i] = r
                                 THEN CHOOSE i \in Ids : f[i] = r ELSE id[r]]
  BY DEF StartUp
<1>2. /\ ~Up /\ stored' = file /\ loop' = "waiting" /\ started' = TRUE
      /\ stray' = [i \in Ids |-> FALSE]
      /\ UNCHANGED <<running, active, due, stop, ctxDone, minute, ticked,
                     file, used, req, gone, runVars>>
  BY DEF StartUp
<1>3. \A i \in Ids : id'[f[i]] = i
  <2> SUFFICES ASSUME NEW i \in Ids PROVE id'[f[i]] = i
    OBVIOUS
  <2>1. \A j \in Ids : f[j] = f[i] => j = i
    BY <1>1 DEF IsInjective
  <2>2. f[i] \in Regs /\ (\E j \in Ids : f[j] = f[i])
    BY <1>1
  <2>3. id'[f[i]] = CHOOSE j \in Ids : f[j] = f[i]
    BY <1>1, <2>2
  <2> QED
    BY <2>1, <2>3
<1>4. \A r \in Regs : id'[r] \in Ids
  BY <1>1 DEF IInv, TypeOK, SchedulerTypeOK
<1>5. tasks' \in [Ids -> Registered \cup {None}]
  <2>1. \A i \in Ids : file[i] # None => file[i].schedule \in Schedules
    BY DEF IInv, TypeOK, Task
  <2> QED
    BY <1>1, <2>1 DEF Registered
<1>6. TypeOK'
  <2>1. id' \in [Regs -> Ids]
    BY <1>1, <1>4
  <2> QED
    BY <1>2, <1>5, <2>1 DEF IInv, TypeOK, SchedulerTypeOK, runVars
<1>7. RegInv'
  <2>1. \A i \in Ids : tasks'[i] # None => id'[tasks'[i].reg] = i
    BY <1>1, <1>3
  <2> QED
    BY <1>2, <2>1 DEF IInv, RegInv, OneRunPerRegistration, runVars
<1>8. Up'
  BY <1>2 DEF Up
<1>9. ASSUME NEW i \in Ids PROVE RequestOK(i)' /\ FileOK(i)'
  <2>1. FileOK(i) /\ InFlight(i) = {}
    BY <1>2 DEF IInv, FileInv, FileOK
  <2>2. InFlight(i)' = InFlight(i)
    BY <1>2 DEF InFlight
  <2>3. stored'[i] = file[i] /\ file'[i] = file[i]
    BY <1>2
  <2>4. Agrees(i)'
    <3>1. CASE file[i] # None /\ file[i].enabled
      <4>1. tasks'[i] = [reg |-> f[i], schedule |-> file[i].schedule]
        BY <1>1, <3>1
      <4>2. tasks'[i] # None
        BY <1>1, <1>5, <3>1, <4>1 DEF IInv, TypeOK, Task, Registered
      <4> QED
        BY <2>3, <3>1, <4>1, <4>2 DEF Agrees
    <3>2. CASE ~(file[i] # None /\ file[i].enabled)
      BY <1>1, <2>3, <3>2 DEF Agrees
    <3> QED
      BY <3>1, <3>2
  <2>5. SameButForRuns(file'[i], stored'[i])
    BY <2>3 DEF IInv, TypeOK, Task, SameButForRuns
  <2>6. FileOK(i)'
    BY <1>2, <1>8, <2>1, <2>2, <2>5 DEF FileOK
  <2> QED
    BY <2>1, <2>2, <2>4, <2>6 DEF RequestOK
<1> QED
  BY <1>6, <1>7, <1>9 DEF IInv, RequestInv, FileInv

-----------------------------------------------------------------------------
(* The theorems *)

LEMMA Initially == Init => IInv
<1> SUFFICES ASSUME Init PROVE IInv
  OBVIOUS
<1> USE DEF Init, SchedulerInit
<1>1. TypeOK
  <2>1. 0 \in Minutes
    BY DEF Minutes
  <2>2. SchedulerTypeOK
    BY <2>1 DEF SchedulerTypeOK
  <2>3. 0 \in 0 .. MaxTransfers
    OBVIOUS
  <2> QED
    BY <2>2, <2>3 DEF TypeOK
<1>2. RegInv
  BY DEF RegInv, OneRunPerRegistration
<1>3. ~Up /\ \A i \in Ids : InFlight(i) = {}
  BY DEF Up, InFlight
<1> QED
  BY <1>1, <1>2, <1>3 DEF IInv, RequestInv, RequestOK, FileInv, FileOK

LEMMA StepInv == IInv /\ [Next]_vars => IInv'
<1> SUFFICES ASSUME IInv, [Next]_vars PROVE IInv'
  OBVIOUS
<1>1. CASE SchedulerNext /\ UNCHANGED <<storeVars, runVars>>
  BY <1>1, SchedulerStepInv
<1>2. ASSUME NEW c \in Clients, ClientNext(c) PROVE IInv'
  BY <1>2, CreateStoresInv, UpdateStoresInv, DeleteUnregistersInv, HandlerRegistersInv,
     DeleteStoresInv DEF ClientNext
<1>3. ASSUME NEW i \in Ids, RunNow(i) \/ AfterJob(i) \/ AfterJobGivesUp(i) PROVE IInv'
  BY <1>3, AfterJobInv, OtherRunInv
<1>4. ASSUME NEW r \in Regs, CallbackSkips(r) \/ CallbackRuns(r) \/ CallbackEnds(r)
      PROVE  IInv'
  BY <1>4, RunStepInv
<1>5. CASE Crash
  BY <1>5, CrashInv
<1>6. CASE StartUp
  BY <1>6, StartUpInv
<1>7. CASE UNCHANGED vars
  <2>1. UNCHANGED <<schedulerVars, storeVars, runVars>>
    BY <1>7 DEF vars
  <2>2. TypeOK' /\ RegInv'
    BY <2>1 DEF IInv, TypeOK, SchedulerTypeOK, RegInv, OneRunPerRegistration,
       schedulerVars, storeVars, runVars
  <2>3. RequestInv' /\ FileInv'
    BY <2>1, RequestKept, FileKept DEF IInv, RequestInv, FileInv, schedulerVars, storeVars, Up
  <2> QED
    BY <2>2, <2>3 DEF IInv
<1> QED
  BY <1>1, <1>2, <1>3, <1>4, <1>5, <1>6, <1>7 DEF Next

\* Registrations, requests and the file fit together at every step of the store,
\* the handlers, the tick loop and the callbacks, across restarts.
THEOREM TasksInvariant == Spec => []IInv
BY Initially, StepInv, PTL DEF Spec

\* When no request for a task is under way, and none has overlapped another or
\* failed half way, the scheduler has the task as replication.json has it.
THEOREM SchedulerFollowsStore == Spec => []SchedulerMatchesStore
<1>1. IInv => SchedulerMatchesStore
  BY DEF IInv, RequestInv, RequestOK, SchedulerMatchesStore
<1> QED
  BY <1>1, TasksInvariant, PTL

\* One registration is run by one goroutine at a time, and its flag says so,
\* whatever is registered, collected and restarted meanwhile (tick).
THEOREM RegistrationsRunOnce == Spec => []OneRunPerRegistration
<1>1. IInv => OneRunPerRegistration
  BY DEF IInv, RegInv
<1> QED
  BY <1>1, TasksInvariant, PTL

\* tick collects at most once in a minute.
THEOREM MinutesAreTickedOnce == Spec => TickOncePerMinute
<1>1. IInv /\ [Next]_vars => [Collect => ~ticked]_schedulerVars
  BY DEF IInv, RegInv, Collect
<1> QED
  BY <1>1, TasksInvariant, PTL DEF Spec, TickOncePerMinute

\* After a successful deletion no callback begins a run and no restart brings
\* the task back.
THEOREM DeletedTasksStayDeleted == Spec => DeletedStaysDeleted
<1> DEFINE Dead == \A i \in Ids : gone[i] =>
                      /\ stored'[i] = None
                      /\ \A r \in Regs : id[r] = i => inside'[r] <= inside[r]
<1>1. IInv /\ IInv' /\ [Next]_vars => [Dead]_vars
  <2> SUFFICES ASSUME IInv, IInv', Next, NEW i \in Ids, gone[i]
               PROVE  /\ stored'[i] = None
                      /\ \A r \in Regs : id[r] = i => inside'[r] <= inside[r]
    BY DEF vars
  <2>1. stored[i] = None
    BY DEF IInv, FileInv, FileOK, SameButForRuns
  <2>2. gone'[i]
    <3>1. UNCHANGED gone \/ \E c \in Clients : DeleteStores(c)
      BY DEF Next, ClientNext, CreateStores, UpdateStores, DeleteUnregisters,
         HandlerRegisters, RunNow, AfterJob, AfterJobGivesUp, CallbackSkips,
         CallbackRuns, CallbackEnds, Crash, StartUp, storeVars
    <3>2. ASSUME NEW c \in Clients, DeleteStores(c) PROVE gone'[i]
      BY <3>2 DEF DeleteStores, IInv, TypeOK
    <3> QED
      BY <3>1, <3>2
  <2>3. stored'[i] = None
    BY <2>2 DEF IInv, FileInv, FileOK, SameButForRuns
  <2>4. ASSUME NEW r \in Regs, id[r] = i PROVE inside'[r] <= inside[r]
    <3>1. inside \in [Regs -> Nat]
      BY DEF IInv, TypeOK
    <3>2. CASE UNCHANGED inside
      BY <3>1, <3>2
    <3>3. ASSUME NEW q \in Regs, CallbackRuns(q) PROVE inside'[r] <= inside[r]
      <4>1. q # r
        BY <2>1, <2>4, <3>3 DEF CallbackRuns, Wanted
      <4> QED
        BY <3>1, <3>3, <4>1 DEF CallbackRuns
    <3>4. ASSUME NEW q \in Regs, CallbackEnds(q) PROVE inside'[r] <= inside[r]
      BY <3>1, <3>4 DEF CallbackEnds
    <3>5. CASE Crash
      BY <3>1, <3>5 DEF Crash
    <3> QED
      BY <3>2, <3>3, <3>4, <3>5 DEF Next, ClientNext, CreateStores, UpdateStores,
         DeleteUnregisters, DeleteStores, HandlerRegisters, RunNow, AfterJob,
         AfterJobGivesUp, CallbackSkips, StartUp, runVars
  <2> QED
    BY <2>3, <2>4
<1> QED
  BY <1>1, TasksInvariant, PTL DEF Spec, DeletedStaysDeleted
=============================================================================
