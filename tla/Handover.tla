------------------------------ MODULE Handover ------------------------------
(***************************************************************************)
(* Who takes the auto-snapshots: the daemon of the host or dumpstore.      *)
(*                                                                         *)
(* Takeover runs a playbook that disables the daemon and then registers    *)
(* the buckets with the scheduler; release unregisters them and runs a     *)
(* playbook that enables the daemon again (internal/api/                   *)
(* autosnap_handlers.go, internal/autosnap, playbooks/auto_snapshot_*.yml).*)
(* No lock keeps two of them apart. The host is a Linux host.              *)
(***************************************************************************)
EXTENDS Naturals

CONSTANTS
    Calls,    \* takeovers and releases that may be under way at a time
    Timers,   \* installed timers of zfs-auto-snapshot
    NoRecord, \* no timer_state_file
    MaxCalls  \* bound: takeovers and releases

ASSUME CallsAssumption == MaxCalls \in Nat
ASSUME RecordAssumption == \A timers \in SUBSET Timers : timers # NoRecord

VARIABLES
    enabled,    \* timers that are enabled
    cron,       \* the entry in cron.d: "none", "on", or "off" where it was renamed
    record,     \* the timers that takeover recorded, or NoRecord
    registered, \* the buckets are registered with the scheduler
    told,       \* the status published last, or NoStatus
    call,       \* the takeovers and releases
    before,     \* the timers and the entry as dumpstore found them
    ended,      \* what succeeded last, undisturbed: "start", "takeover", "release", or "none"
    muddled,    \* a record was overwritten or not found, or two calls overlapped
    made        \* takeovers and releases so far

handoverVars == <<enabled, cron, record, registered, told, call, before, ended, muddled, made>>
hostVars == <<enabled, cron, record>>
hostGhosts == <<before, ended, muddled>>

\* The tasks of the takeover are "scan", "record", "disable"; those of the
\* release "restore", "read", "enable". Then the handler "register"s, "look"s at
\* the daemon and "tell"s.
TakeoverTasks == {"scan", "record", "disable"}
ReleaseTasks == {"restore", "read", "enable"}
CallIdle == [pc |-> "idle", todo |-> {}, seen |-> "active", orphan |-> "no", alone |-> "no"]
Call == [pc : {"idle", "register", "look", "tell"} \cup TakeoverTasks \cup ReleaseTasks,
         todo : SUBSET Timers, seen : {"active", "inactive"}, orphan : {"no", "yes"},
         alone : {"no", "yes"}]
NoStatus == [daemon |-> "unknown", managed |-> "unknown"]
Status == [daemon : {"active", "inactive"}, managed : {"yes", "no"}]

HandoverTypeOK ==
    /\ enabled \subseteq Timers /\ cron \in {"none", "on", "off"}
    /\ record \in (SUBSET Timers) \cup {NoRecord}
    /\ registered \in BOOLEAN
    /\ told \in Status \cup {NoStatus}
    /\ call \in [Calls -> Call]
    /\ before \in [enabled : SUBSET Timers, cron : {"none", "on"}]
    /\ ended \in {"start", "takeover", "release", "none"}
    /\ muddled \in BOOLEAN /\ made \in 0 .. MaxCalls

DetectStatus == IF enabled # {} \/ cron = "on" THEN "active" ELSE "inactive"

\* main registers the buckets where no daemon is active.
HandoverInit ==
    /\ enabled \in SUBSET Timers /\ cron \in {"none", "on"}
    /\ record = NoRecord
    /\ registered = (DetectStatus = "inactive")
    /\ told = NoStatus
    /\ call = [h \in Calls |-> CallIdle]
    /\ before = [enabled |-> enabled, cron |-> cron]
    /\ ended = "start" /\ muddled = FALSE /\ made = 0

UnderWay == {h \in Calls : call[h].pc # "idle"}
Goes(h, pc) == call' = [call EXCEPT ![h] = [@ EXCEPT !.pc = pc]]

\* A call begins; whoever is under way is not alone any more, and neither is it.
Starts(h, pc) ==
    /\ call[h].pc = "idle" /\ made < MaxCalls
    /\ made' = made + 1
    /\ muddled' = (muddled \/ UnderWay # {})
    /\ call' = [g \in Calls |->
                  IF g = h
                  THEN [CallIdle EXCEPT !.pc = pc, !.alone = IF UnderWay = {} THEN "yes" ELSE "no"]
                  ELSE [call[g] EXCEPT !.alone = "no"]]

-----------------------------------------------------------------------------
(* takeoverAutoSnapshot *)

Takeover(h) ==
    /\ Starts(h, "scan")
    /\ UNCHANGED <<hostVars, registered, told, before, ended>>

Scans(h) ==
    /\ call[h].pc = "scan"
    /\ call' = [call EXCEPT ![h] = [@ EXCEPT !.todo = enabled,
                                             !.pc = IF enabled = {} THEN "disable" ELSE "record"]]
    /\ UNCHANGED <<hostVars, registered, told, hostGhosts, made>>

\* copy writes the whole file, whatever it said before.
Records(h) ==
    /\ call[h].pc = "record"
    /\ record' = call[h].todo
    /\ muddled' = (muddled \/ record \notin {NoRecord, call[h].todo})
    /\ Goes(h, "disable")
    /\ UNCHANGED <<enabled, cron, registered, told, before, ended, made>>

Disables(h) ==
    /\ call[h].pc = "disable"
    /\ \E t \in call[h].todo :
        /\ enabled' = enabled \ {t}
        /\ call' = [call EXCEPT ![h].todo = @ \ {t}]
    /\ UNCHANGED <<cron, record, registered, told, hostGhosts, made>>

RenamesCron(h) ==
    /\ call[h].pc = "disable" /\ call[h].todo = {}
    /\ cron' = IF cron = "on" THEN "off" ELSE cron
    /\ Goes(h, "register")
    /\ UNCHANGED <<enabled, record, registered, told, hostGhosts, made>>

RegistersLater(h) ==
    /\ call[h].pc = "register" /\ call[h].orphan = "no"
    /\ registered' = registered
    /\ Goes(h, "look")
    /\ UNCHANGED <<hostVars, told, hostGhosts, made>>
\* Only the handler that waited for its playbook registers.
Registers(h) ==
    /\ call[h].pc = "register" /\ call[h].orphan = "no"
    /\ registered' = TRUE
    /\ Goes(h, "look")
    /\ UNCHANGED <<hostVars, told, hostGhosts, made>>

-----------------------------------------------------------------------------
(* releaseAutoSnapshot *)

\* It unregisters before its playbook has done anything.
Release(h) ==
    /\ Starts(h, "restore")
    /\ registered' = FALSE
    /\ UNCHANGED <<hostVars, told, before, ended>>

RestoresCron(h) ==
    /\ call[h].pc = "restore"
    /\ cron' = IF cron = "off" THEN "on" ELSE cron
    /\ Goes(h, "read")
    /\ UNCHANGED <<enabled, record, registered, told, hostGhosts, made>>

ReadsNothing(h) ==
    /\ call[h].pc = "read"
    /\ call' = [call EXCEPT ![h] = [@ EXCEPT !.pc = "enable", !.todo = Timers]]
    /\ UNCHANGED <<hostVars, registered, told, hostGhosts, made>>
\* Without a record all timers are enabled.
Reads(h) ==
    /\ call[h].pc = "read"
    /\ call' = [call EXCEPT ![h] = [@ EXCEPT !.pc = "enable",
                                             !.todo = IF record = NoRecord THEN Timers ELSE record]]
    /\ muddled' = (muddled \/ record = NoRecord)
    /\ UNCHANGED <<hostVars, registered, told, before, ended, made>>

Enables(h) ==
    /\ call[h].pc = "enable"
    /\ \E t \in call[h].todo :
        /\ enabled' = enabled \cup {t}
        /\ call' = [call EXCEPT ![h].todo = @ \ {t}]
    /\ UNCHANGED <<cron, record, registered, told, hostGhosts, made>>

Forgets(h) ==
    /\ call[h].pc = "enable" /\ call[h].todo = {}
    /\ record' = NoRecord
    /\ Goes(h, "look")
    /\ UNCHANGED <<enabled, cron, registered, told, hostGhosts, made>>

-----------------------------------------------------------------------------
(* How both end *)

\* publishAutoSnapStatus looks at the daemon, then at the runner.
Looks(h) ==
    /\ call[h].pc = "look" /\ call[h].orphan = "no"
    /\ call' = [call EXCEPT ![h] = [@ EXCEPT !.pc = "tell", !.seen = DetectStatus]]
    /\ UNCHANGED <<hostVars, registered, told, hostGhosts, made>>

Managed == IF registered THEN "yes" ELSE "no"

Tells(h) ==
    /\ call[h].pc = "tell"
    /\ told' = [daemon |-> call[h].seen, managed |-> Managed]
    /\ ended' = IF call[h].alone = "no" THEN "none"
                ELSE IF registered THEN "takeover" ELSE "release"
    /\ call' = [call EXCEPT ![h] = CallIdle]
    /\ UNCHANGED <<hostVars, registered, before, muddled, made>>

\* A task fails, which is answered and neither undone nor published, or a
\* playbook that nobody waits for has ended.
Fails(h) ==
    /\ \/ call[h].pc \in TakeoverTasks \cup ReleaseTasks
       \/ call[h].orphan = "yes"
    /\ ended' = "none"
    /\ call' = [call EXCEPT ![h] = CallIdle]
    /\ UNCHANGED <<hostVars, registered, told, before, muddled, made>>

\* The runner's time is up, which is answered like a failure: it kills
\* ansible-playbook, while the task begun goes on, and others may.
TimesOut(h) ==
    /\ call[h].pc \in TakeoverTasks \cup ReleaseTasks /\ call[h].orphan = "no"
    /\ ended' = "none"
    /\ call' = [call EXCEPT ![h] = [@ EXCEPT !.orphan = "yes", !.alone = "no"]]
    /\ UNCHANGED <<hostVars, registered, told, before, muddled, made>>

\* The service is started again while playbooks go on.
Restarts ==
    /\ registered' = (DetectStatus = "inactive")
    /\ told' = NoStatus
    /\ call' = [h \in Calls |->
                  IF call[h].pc \in TakeoverTasks \cup ReleaseTasks
                  THEN [call[h] EXCEPT !.orphan = "yes", !.alone = "no"]
                  ELSE IF call[h].orphan = "yes" THEN call[h] ELSE CallIdle]
    /\ ended' = IF \A h \in Calls : call'[h].pc = "idle" THEN "start" ELSE "none"
    /\ UNCHANGED <<hostVars, before, muddled, made>>

TakesOver(h) ==
    Takeover(h) \/ Scans(h) \/ Records(h) \/ Disables(h) \/ RenamesCron(h) \/ Registers(h)
Releases(h) == Release(h) \/ RestoresCron(h) \/ Reads(h) \/ Enables(h) \/ Forgets(h)

HandoverNext ==
    \/ \E h \in Calls :
        TakesOver(h) \/ Releases(h) \/ Looks(h) \/ Tells(h) \/ Fails(h) \/ TimesOut(h)
    \/ Restarts

-----------------------------------------------------------------------------
(* What they promise *)

\* A call that was alone and succeeded, and a start of the service that no
\* playbook outlives, leave one in charge where there is a daemon at all,
\* whatever failed before; and the status published last says who.
OneInCharge ==
    ended # "none" /\ UnderWay = {} =>
        /\ (Timers # {} \/ cron # "none") => (registered <=> DetectStatus = "inactive")
        /\ told # NoStatus => told = [daemon |-> DetectStatus, managed |-> Managed]

\* The daemon has back what it had (auto_snapshot_release.yml 1, "Exact inverse"),
\* but for a record that a second try at a takeover overwrote, a release that
\* finds none, as after the takeover of a daemon without an enabled timer, and
\* calls that overlapped.
ReleaseRestores ==
    ended = "release" /\ UnderWay = {} /\ ~muddled =>
        enabled = before.enabled /\ cron = before.cron
-----------------------------------------------------------------------------
(* Why it holds, whatever overlaps and fails *)

\* Who is over keeps nothing, and what is recorded is never empty.
CallInv ==
    /\ record # {}
    /\ \A h \in Calls : call[h].pc = "idle" => call[h] = CallIdle
    /\ \A h \in Calls : call[h].pc = "record" => call[h].todo # {}

\* While a call is alone the host is where the call has brought it.
AloneInv(h) ==
    LET c == call[h] IN
    c.alone = "yes" =>
        /\ c.orphan = "no" /\ \A g \in Calls \ {h} : call[g].pc = "idle"
        /\ c.pc \in {"record", "disable"} => enabled = c.todo
        /\ c.pc = "register" => enabled = {} /\ cron # "on"
        /\ c.pc \in ReleaseTasks => ~registered
        /\ c.pc \in {"read", "enable"} => cron # "off"
        /\ c.pc = "enable" => Timers = {} \/ enabled # {} \/ c.todo # {}
        /\ c.pc \in {"look", "tell"} =>
               IF registered THEN enabled = {} /\ cron # "on"
               ELSE cron # "off" /\ (Timers = {} \/ enabled # {})
        /\ c.pc = "tell" => c.seen = DetectStatus

\* While nothing is muddled the record says what there was, and without a
\* record it is all still there.
RecordInv ==
    ~muddled =>
        /\ enabled \subseteq before.enabled
        /\ cron = before.cron \/ (before.cron = "on" /\ cron = "off")
        /\ record = before.enabled \/ (record = NoRecord /\ enabled = before.enabled)

\* And a call, for there is only one, knows it.
UnmuddledInv(h) ==
    LET c == call[h] IN
    ~muddled /\ c.pc # "idle" =>
        /\ \A g \in Calls \ {h} : call[g].pc = "idle"
        /\ c.pc = "record" => c.todo = enabled
        /\ c.pc = "disable" => c.todo = {} \/ record # NoRecord
        /\ c.pc \in {"read", "enable"} => cron = before.cron
        /\ c.pc = "enable" => record # NoRecord /\ enabled \cup c.todo = before.enabled
        /\ c.pc \in {"look", "tell"} /\ c.alone = "yes" /\ ~registered =>
               enabled = before.enabled /\ cron = before.cron

HandoverIInv ==
    /\ HandoverTypeOK
    /\ CallInv /\ RecordInv
    /\ \A h \in Calls : AloneInv(h) /\ UnmuddledInv(h)
    /\ OneInCharge /\ ReleaseRestores
=============================================================================
