--------------------------- MODULE Requests_proofs ---------------------------
(***************************************************************************)
(* What is published and shown, and who takes the auto-snapshots, for any  *)
(* number of requests, changes, timers, takeovers and releases.            *)
(***************************************************************************)
EXTENDS Requests, TLAPS

USE DEF Version, Nothing

\* Publishing a list that is not from the future keeps the order of versions.
LEMMA ShowKeeps ==
    ASSUME TypeOK, newest <= world, world' = world,
           NEW v \in Version \cup {Nothing}, v <= world, Show(v)
    PROVE  /\ shown' \in Version \cup {Nothing} /\ newest' \in Version \cup {Nothing}
           /\ overtaken' \in BOOLEAN
           /\ newest' <= world' /\ shown' <= newest'
           /\ newest <= newest' /\ v <= newest'
           /\ ~overtaken' => shown' = newest'
<1>1. overtaken' \in BOOLEAN
  BY DEF Show
<1>2. CASE v > newest
  BY <1>1, <1>2, MaxVersionAssumption DEF TypeOK, Show
<1>3. CASE ~(v > newest)
  <2>1. shown' = v /\ newest' = newest /\ newest \in Nat /\ v \in Nat
    BY <1>3, MaxVersionAssumption DEF TypeOK, Show
  <2>2. ~overtaken' => ~(v < newest)
    BY Zenon DEF Show
  <2>3. ~overtaken' => v = newest
    BY <1>3, <2>1, <2>2
  <2> QED
    BY <1>1, <1>3, <2>1, <2>3, MaxVersionAssumption DEF TypeOK
<1> QED
  BY <1>2, <1>3

LEMMA PollPublishesInv == FeedIInv /\ PollPublishes => FeedIInv'
<1> SUFFICES ASSUME FeedIInv, PollPublishes PROVE FeedIInv'
  OBVIOUS
<1> USE MaxVersionAssumption DEF FeedIInv, TypeOK, PollerKnows, PollPublishes
<1>1. CASE list[polled] # list[last]
  <2>1. Show(polled) /\ polled \in Version \cup {Nothing} /\ polled <= world
    BY <1>1
  <2>2. /\ shown' \in Version \cup {Nothing} /\ newest' \in Version \cup {Nothing}
        /\ overtaken' \in BOOLEAN /\ newest' <= world' /\ shown' <= newest'
        /\ polled <= newest' /\ (~overtaken' => shown' = newest')
    BY <2>1, ShowKeeps
  <2>3. last' = polled /\ seen' = polled /\ UNCHANGED <<world, list>>
    BY <1>1
  <2>4. polled' \in Version \cup {Nothing} /\ polled' <= world'
    OBVIOUS
  <2>5. PollerKnows'
    BY <2>2, <2>3
  <2> QED
    BY <2>1, <2>2, <2>3, <2>4, <2>5
<1>2. CASE list[polled] = list[last]
  BY <1>2 DEF feedVars
<1> QED
  BY <1>1, <1>2

LEMMA HandlerPublishesInv ==
    ASSUME FeedIInv, NEW h \in Handlers, HandlerPublishes(h)
    PROVE  FeedIInv'
<1> USE MaxVersionAssumption DEF FeedIInv, TypeOK, PollerKnows, HandlerPublishes, pollVars
<1>1. Show(hand[h]) /\ hand[h] \in Version \cup {Nothing} /\ hand[h] <= world
  OBVIOUS
<1>2. /\ shown' \in Version \cup {Nothing} /\ newest' \in Version \cup {Nothing}
      /\ overtaken' \in BOOLEAN /\ newest' <= world' /\ shown' <= newest'
      /\ newest <= newest' /\ (~overtaken' => shown' = newest')
  BY <1>1, ShowKeeps
<1> QED
  BY <1>2

LEMMA AutosnapPublishesInv == FeedIInv /\ AutosnapPublishes => FeedIInv'
<1> SUFFICES ASSUME FeedIInv, AutosnapPublishes PROVE FeedIInv'
  OBVIOUS
<1> USE MaxVersionAssumption DEF FeedIInv, TypeOK, PollerKnows, AutosnapPublishes, pollVars
<1>1. /\ shown' \in Version \cup {Nothing} /\ newest' \in Version \cup {Nothing}
      /\ overtaken' \in BOOLEAN /\ newest' <= world' /\ shown' <= newest'
      /\ newest <= newest' /\ (~overtaken' => shown' = newest')
  BY ShowKeeps
<1> QED
  BY <1>1

LEMMA FeedInitInv == Init => FeedIInv
<1> SUFFICES ASSUME Init PROVE FeedIInv
  OBVIOUS
<1>1. TypeOK
  <2>1. world \in Version /\ 0 \in Version \cup {Nothing} /\ 1 \in Version
    BY MaxVersionAssumption DEF Init
  <2>2. overtaken \in BOOLEAN
    BY DEF Init
  <2> HIDE DEF Version
  <2> QED
    BY <2>1, <2>2 DEF Init, TypeOK
<1> QED
  BY <1>1 DEF Init, FeedIInv, PollerKnows

\* The list changes, and nobody is told.
LEMMA ChangeKeeps ==
    ASSUME FeedIInv, Change \/ UNCHANGED <<world, list>>,
           UNCHANGED <<feedVars, pollVars, hand>>,
           doing' \in [Handlers -> {"idle", "ran", "listed"}], autosnap' \in {"idle", "ran"}
    PROVE  FeedIInv'
<1> USE MaxVersionAssumption DEF FeedIInv, TypeOK, PollerKnows, feedVars, pollVars
<1>1. CASE UNCHANGED <<world, list>>
  BY <1>1
<1>2. CASE Change
  <2>1. PICK l \in {world + 1} \cup {list[v] : v \in 1 .. world} :
          list' = [list EXCEPT ![world + 1] = l]
    BY <1>2 DEF Change
  <2>2. world' = world + 1 /\ world' \in Version
    BY <1>2 DEF Change
  <2>3. list' \in [Version \cup {Nothing} -> Version \cup {Nothing}]
    BY <2>1, <2>2
  <2>4. list'[seen] = list[seen] /\ list'[last] = list[last]
    BY <2>1
  <2> QED
    BY <2>2, <2>3, <2>4
<1> QED
  BY <1>1, <1>2

LEMMA FeedNextInv == FeedIInv /\ [Next]_vars => FeedIInv'
<1> SUFFICES ASSUME FeedIInv, [Next]_vars PROVE FeedIInv'
  OBVIOUS
<1> USE MaxVersionAssumption DEF FeedIInv, TypeOK, PollerKnows
<1>1. CASE UNCHANGED vars
  BY <1>1 DEF vars, feedVars, pollVars
<1>2. CASE ChangeElsewhere
  BY <1>2, ChangeKeeps DEF ChangeElsewhere
<1>3. CASE PollLists
  BY <1>3 DEF PollLists, feedVars
<1>4. CASE PollPublishes
  BY <1>4, PollPublishesInv
<1>5. ASSUME NEW h \in Handlers, HandlerRuns(h) PROVE FeedIInv'
  BY <1>5, ChangeKeeps DEF HandlerRuns
<1>6. ASSUME NEW h \in Handlers, HandlerLists(h) PROVE FeedIInv'
  BY <1>6 DEF HandlerLists, feedVars, pollVars
<1>7. ASSUME NEW h \in Handlers, HandlerPublishes(h) PROVE FeedIInv'
  BY <1>7, HandlerPublishesInv
<1>8. CASE AutosnapRuns
  BY <1>8, ChangeKeeps DEF AutosnapRuns
<1>9. CASE AutosnapPublishes
  BY <1>9, AutosnapPublishesInv
<1> QED
  BY <1>1, <1>2, <1>3, <1>4, <1>5, <1>6, <1>7, <1>8, <1>9 DEF Next, Poll, Publishing

\* Nothing published, listed or remembered is newer than the world, the poller
\* remembers nothing unpublished and knows no list newer than that which differs
\* from it, and what was not overtaken is the newest.
THEOREM FeedInvariant == Spec => []FeedIInv
BY FeedInitInv, FeedNextInv, PTL DEF Spec

LEMMA FeedIsCurrent == FeedIInv => StaleOnlyIfOvertaken
<1> SUFFICES ASSUME FeedIInv, seen = world, list[shown] # list[world], ~overtaken
             PROVE  CameBack(shown)
  BY DEF StaleOnlyIfOvertaken
<1>1. last \in Nat /\ shown \in Nat /\ newest \in Nat
  BY MaxVersionAssumption DEF FeedIInv, TypeOK
<1> QED
  BY <1>1 DEF FeedIInv, PollerKnows, CameBack

\* At rest, once the poller has looked, a kept payload other than the present
\* list was published after a newer one, or the list has come back to what the
\* poller published before it (runPoller and the publishing handlers, without a
\* common lock).
THEOREM OnlyOvertakingMakesStale == Spec => []StaleOnlyIfOvertaken
BY FeedIsCurrent, FeedInvariant, PTL

-----------------------------------------------------------------------------
(* Takeover and release *)

LEMMA CallTyped ==
    ASSUME HandoverTypeOK
    PROVE  /\ \A h \in Calls : call[h] \in Call
           /\ call \in [Calls -> Call]
<1> HIDE DEF Call
<1> QED
  BY DEF HandoverTypeOK

LEMMA RecordTyped ==
    ASSUME HandoverTypeOK
    PROVE  record # NoRecord => record \in SUBSET Timers
BY DEF HandoverTypeOK

\* There is a difference between no record and one that is empty.
LEMMA NoRecordHasSome == NoRecord # {}
BY RecordAssumption

LEMMA CallIdleType == CallIdle \in Call
BY DEF CallIdle, Call

\* A step of one call that goes on after it: who else is under way was not
\* alone before and is not now.
LEMMA OwnStep ==
    ASSUME HandoverIInv, NEW h \in Calls, NEW v \in Call,
           call[h].pc # "idle", v.pc # "idle", v.pc = "record" => v.todo # {},
           call' = [call EXCEPT ![h] = v],
           record' # {}, muddled => muddled',
           HandoverTypeOK', RecordInv', AloneInv(h)', UnmuddledInv(h)'
    PROVE  HandoverIInv'
<1> USE DEF HandoverIInv
<1>1. call'[h] = v /\ \A g \in Calls : g # h => call'[g] = call[g]
  BY CallTyped
<1>2. CallInv'
  BY <1>1 DEF CallInv
<1>3. ASSUME NEW g \in Calls, g # h PROVE AloneInv(g)' /\ UnmuddledInv(g)'
  <2>1. AloneInv(g)'
    BY <1>1, <1>3 DEF AloneInv
  <2>2. UnmuddledInv(g)'
    BY <1>1, <1>3 DEF UnmuddledInv
  <2> QED
    BY <2>1, <2>2
<1>4. h \in UnderWay'
  BY <1>1 DEF UnderWay
<1>5. OneInCharge' /\ ReleaseRestores'
  BY <1>4 DEF OneInCharge, ReleaseRestores
<1> QED
  BY <1>2, <1>3, <1>5

LEMMA CallStep ==
    ASSUME HandoverTypeOK, NEW h \in Calls, NEW v \in Call, call' = [call EXCEPT ![h] = v]
    PROVE  /\ call' \in [Calls -> Call] /\ call'[h] = v
           /\ \A g \in Calls : g # h => call'[g] = call[g]
BY CallTyped

\* What it is going to disable is what is enabled.
LEMMA ScansInv == ASSUME HandoverIInv, NEW h \in Calls, Scans(h) PROVE HandoverIInv'
<1> DEFINE v == [call[h] EXCEPT !.todo = enabled,
                                !.pc = IF enabled = {} THEN "disable" ELSE "record"]
<1>1. v \in Call /\ call[h] \in Call
  BY CallTyped DEF HandoverIInv, HandoverTypeOK, Call, TakeoverTasks, ReleaseTasks
<1>2. call' = [call EXCEPT ![h] = v]
  BY DEF Scans, Goes
<1>3. /\ call[h].pc = "scan"
      /\ UNCHANGED <<enabled, cron, record, registered, told, before, ended, muddled, made>>
  BY DEF Scans, hostVars, hostGhosts
<1>4. /\ call' \in [Calls -> Call] /\ call'[h] = v
      /\ \A g \in Calls : g # h => call'[g] = call[g]
  BY <1>1, <1>2, CallStep DEF HandoverIInv
<1>5. HandoverTypeOK' /\ record' # {}
  BY <1>1, <1>3, <1>4 DEF HandoverIInv, HandoverTypeOK, CallInv, Call
<1>6. RecordInv'
  BY <1>1, <1>3 DEF HandoverIInv, HandoverTypeOK, RecordInv, UnmuddledInv, CallInv
<1>7. AloneInv(h)'
  BY <1>1, <1>3, <1>4 DEF HandoverIInv, AloneInv, TakeoverTasks, ReleaseTasks
<1>8. UnmuddledInv(h)'
  BY <1>1, <1>3, <1>4 DEF HandoverIInv, UnmuddledInv, AloneInv, RecordInv
<1>9. v.pc # "idle" /\ (v.pc = "record" => v.todo # {})
  BY <1>1, <1>3
<1> HIDE DEF v
<1> QED
  BY <1>1, <1>2, <1>3, <1>5, <1>6, <1>7, <1>8, <1>9, OwnStep

\* A record that says something else than the last one muddles.
LEMMA RecordsInv == ASSUME HandoverIInv, NEW h \in Calls, Records(h) PROVE HandoverIInv'
<1> DEFINE v == [call[h] EXCEPT !.pc = "disable"]
<1>1. v \in Call /\ call[h] \in Call
  BY CallTyped DEF HandoverIInv, HandoverTypeOK, Call, TakeoverTasks, ReleaseTasks
<1>2. call' = [call EXCEPT ![h] = v]
  BY DEF Records, Goes
<1>3. /\ call[h].pc = "record"
      /\ record' = call[h].todo
      /\ muddled' = (muddled \/ record \notin {NoRecord, call[h].todo})
      /\ UNCHANGED <<enabled, cron, registered, told, before, ended, made>>
  BY DEF Records, hostVars, hostGhosts
<1>m. (muddled => muddled') /\ (~muddled' => record \in {NoRecord, call[h].todo})
  BY <1>3, Zenon
<1>4. /\ call' \in [Calls -> Call] /\ call'[h] = v
      /\ \A g \in Calls : g # h => call'[g] = call[g]
  BY <1>1, <1>2, CallStep DEF HandoverIInv
<1>5. HandoverTypeOK' /\ record' # {}
  BY <1>1, <1>3, <1>4 DEF HandoverIInv, HandoverTypeOK, CallInv, Call
<1>6. RecordInv'
  <2>1. ASSUME ~muddled' PROVE record' = before.enabled
    <3>1. ~muddled /\ call[h].todo = enabled
      BY <1>3, <1>m, <2>1 DEF HandoverIInv, UnmuddledInv
    <3>2. NoRecord # before.enabled
      BY RecordAssumption DEF HandoverIInv, HandoverTypeOK
    <3> QED
      BY <1>3, <1>m, <2>1, <3>1, <3>2 DEF HandoverIInv, RecordInv
  <2> QED
    BY <1>3, <1>m, <2>1 DEF HandoverIInv, RecordInv
<1>7. AloneInv(h)'
  BY <1>1, <1>3, <1>4 DEF HandoverIInv, AloneInv, TakeoverTasks, ReleaseTasks
<1>8. UnmuddledInv(h)'
  BY <1>1, <1>3, <1>m, <1>4, RecordAssumption
  DEF HandoverIInv, UnmuddledInv, AloneInv, RecordInv, Call
<1>9. v.pc # "idle" /\ (v.pc = "record" => v.todo # {})
  BY <1>1, <1>3
<1> HIDE DEF v
<1> QED
  BY <1>1, <1>2, <1>3, <1>m, <1>5, <1>6, <1>7, <1>8, <1>9, OwnStep

\* What is enabled goes with what is left to do.
LEMMA DisablesInv == ASSUME HandoverIInv, NEW h \in Calls, Disables(h) PROVE HandoverIInv'
<1>p. PICK t \in call[h].todo : /\ enabled' = enabled \ {t}
                               /\ call' = [call EXCEPT ![h].todo = @ \ {t}]
  BY DEF Disables
<1> DEFINE v == [call[h] EXCEPT !.todo = call[h].todo \ {t}]
<1>1. v \in Call /\ call[h] \in Call
  BY CallTyped DEF HandoverIInv, HandoverTypeOK, Call, TakeoverTasks, ReleaseTasks
<1>2. call' = [call EXCEPT ![h] = v]
  BY <1>p DEF Disables, Goes
<1>3. /\ call[h].pc = "disable"
      /\ enabled' = enabled \ {t}
      /\ UNCHANGED <<cron, record, registered, told, before, ended, muddled, made>>
  BY <1>p DEF Disables, hostVars, hostGhosts
<1>4. /\ call' \in [Calls -> Call] /\ call'[h] = v
      /\ \A g \in Calls : g # h => call'[g] = call[g]
  BY <1>1, <1>2, CallStep DEF HandoverIInv
<1>5. HandoverTypeOK' /\ record' # {}
  BY <1>1, <1>3, <1>4 DEF HandoverIInv, HandoverTypeOK, CallInv, Call
<1>6. RecordInv'
  <2>1. ASSUME ~muddled PROVE record # NoRecord
    BY <1>3, <1>p, <2>1 DEF HandoverIInv, UnmuddledInv
  <2> QED
    BY <1>3, <2>1 DEF HandoverIInv, RecordInv
<1>7. AloneInv(h)'
  BY <1>1, <1>3, <1>4 DEF HandoverIInv, AloneInv, TakeoverTasks, ReleaseTasks
<1>8. UnmuddledInv(h)'
  BY <1>1, <1>3, <1>4 DEF HandoverIInv, UnmuddledInv, AloneInv, RecordInv
<1>9. v.pc # "idle" /\ (v.pc = "record" => v.todo # {})
  BY <1>1, <1>3
<1> HIDE DEF v
<1> QED
  BY <1>1, <1>2, <1>3, <1>5, <1>6, <1>7, <1>8, <1>9, OwnStep

\* Then nothing is.
LEMMA RenamesCronInv == ASSUME HandoverIInv, NEW h \in Calls, RenamesCron(h) PROVE HandoverIInv'
<1> DEFINE v == [call[h] EXCEPT !.pc = "register"]
<1>1. v \in Call /\ call[h] \in Call
  BY CallTyped DEF HandoverIInv, HandoverTypeOK, Call, TakeoverTasks, ReleaseTasks
<1>2. call' = [call EXCEPT ![h] = v]
  BY DEF RenamesCron, Goes
<1>3. /\ call[h].pc = "disable"
      /\ call[h].todo = {} /\ cron' = IF cron = "on" THEN "off" ELSE cron
      /\ UNCHANGED <<enabled, record, registered, told, before, ended, muddled, made>>
  BY DEF RenamesCron, hostVars, hostGhosts
<1>4. /\ call' \in [Calls -> Call] /\ call'[h] = v
      /\ \A g \in Calls : g # h => call'[g] = call[g]
  BY <1>1, <1>2, CallStep DEF HandoverIInv
<1>5. HandoverTypeOK' /\ record' # {}
  BY <1>1, <1>3, <1>4 DEF HandoverIInv, HandoverTypeOK, CallInv, Call
<1>6. RecordInv'
  BY <1>1, <1>3 DEF HandoverIInv, HandoverTypeOK, RecordInv, UnmuddledInv, CallInv
<1>7. AloneInv(h)'
  BY <1>1, <1>3, <1>4 DEF HandoverIInv, AloneInv, TakeoverTasks, ReleaseTasks, HandoverTypeOK
<1>8. UnmuddledInv(h)'
  BY <1>1, <1>3, <1>4 DEF HandoverIInv, UnmuddledInv, AloneInv, RecordInv
<1>9. v.pc # "idle" /\ (v.pc = "record" => v.todo # {})
  BY <1>1, <1>3
<1> HIDE DEF v
<1> QED
  BY <1>1, <1>2, <1>3, <1>5, <1>6, <1>7, <1>8, <1>9, OwnStep

\* Now dumpstore is in charge.
LEMMA RegistersInv == ASSUME HandoverIInv, NEW h \in Calls, Registers(h) PROVE HandoverIInv'
<1> DEFINE v == [call[h] EXCEPT !.pc = "look"]
<1>1. v \in Call /\ call[h] \in Call
  BY CallTyped DEF HandoverIInv, HandoverTypeOK, Call, TakeoverTasks, ReleaseTasks
<1>2. call' = [call EXCEPT ![h] = v]
  BY DEF Registers, Goes
<1>3. /\ call[h].pc = "register"
      /\ call[h].orphan = "no" /\ registered' = TRUE
      /\ UNCHANGED <<enabled, cron, record, told, before, ended, muddled, made>>
  BY DEF Registers, hostVars, hostGhosts
<1>4. /\ call' \in [Calls -> Call] /\ call'[h] = v
      /\ \A g \in Calls : g # h => call'[g] = call[g]
  BY <1>1, <1>2, CallStep DEF HandoverIInv
<1>5. HandoverTypeOK' /\ record' # {}
  BY <1>1, <1>3, <1>4 DEF HandoverIInv, HandoverTypeOK, CallInv, Call
<1>6. RecordInv'
  BY <1>1, <1>3 DEF HandoverIInv, HandoverTypeOK, RecordInv, UnmuddledInv, CallInv
<1>7. AloneInv(h)'
  BY <1>1, <1>3, <1>4 DEF HandoverIInv, AloneInv, TakeoverTasks, ReleaseTasks
<1>8. UnmuddledInv(h)'
  BY <1>1, <1>3, <1>4 DEF HandoverIInv, UnmuddledInv, AloneInv, RecordInv
<1>9. v.pc # "idle" /\ (v.pc = "record" => v.todo # {})
  BY <1>1, <1>3
<1> HIDE DEF v
<1> QED
  BY <1>1, <1>2, <1>3, <1>5, <1>6, <1>7, <1>8, <1>9, OwnStep

\* The entry is what it was.
LEMMA RestoresCronInv == ASSUME HandoverIInv, NEW h \in Calls, RestoresCron(h) PROVE HandoverIInv'
<1> DEFINE v == [call[h] EXCEPT !.pc = "read"]
<1>1. v \in Call /\ call[h] \in Call
  BY CallTyped DEF HandoverIInv, HandoverTypeOK, Call, TakeoverTasks, ReleaseTasks
<1>2. call' = [call EXCEPT ![h] = v]
  BY DEF RestoresCron, Goes
<1>3. /\ call[h].pc = "restore"
      /\ cron' = IF cron = "off" THEN "on" ELSE cron
      /\ UNCHANGED <<enabled, record, registered, told, before, ended, muddled, made>>
  BY DEF RestoresCron, hostVars, hostGhosts
<1>4. /\ call' \in [Calls -> Call] /\ call'[h] = v
      /\ \A g \in Calls : g # h => call'[g] = call[g]
  BY <1>1, <1>2, CallStep DEF HandoverIInv
<1>5. HandoverTypeOK' /\ record' # {}
  BY <1>1, <1>3, <1>4 DEF HandoverIInv, HandoverTypeOK, CallInv, Call
<1>6. RecordInv'
  <2>1. before.cron \in {"none", "on"}
    BY DEF HandoverIInv, HandoverTypeOK
  <2> QED
    BY <1>3, <2>1 DEF HandoverIInv, RecordInv
<1>7. AloneInv(h)'
  BY <1>1, <1>3, <1>4 DEF HandoverIInv, AloneInv, TakeoverTasks, ReleaseTasks
<1>8. UnmuddledInv(h)'
  BY <1>1, <1>3, <1>4 DEF HandoverIInv, UnmuddledInv, AloneInv, RecordInv, HandoverTypeOK
<1>9. v.pc # "idle" /\ (v.pc = "record" => v.todo # {})
  BY <1>1, <1>3
<1> HIDE DEF v
<1> QED
  BY <1>1, <1>2, <1>3, <1>5, <1>6, <1>7, <1>8, <1>9, OwnStep

\* It is going to enable all that was, or muddles.
LEMMA ReadsInv == ASSUME HandoverIInv, NEW h \in Calls, Reads(h) PROVE HandoverIInv'
<1> DEFINE v == [call[h] EXCEPT !.pc = "enable",
                                !.todo = IF record = NoRecord THEN Timers ELSE record]
<1>r. (IF record = NoRecord THEN Timers ELSE record) \in SUBSET Timers
  BY RecordTyped DEF HandoverIInv
<1>1. v \in Call /\ call[h] \in Call
  BY <1>r, CallTyped DEF HandoverIInv, Call, TakeoverTasks, ReleaseTasks
<1>2. call' = [call EXCEPT ![h] = v]
  BY DEF Reads, Goes
<1>3. /\ call[h].pc = "read"
      /\ muddled' = (muddled \/ record = NoRecord)
      /\ UNCHANGED <<enabled, cron, record, registered, told, before, ended, made>>
  BY DEF Reads, hostVars, hostGhosts
<1>m. (muddled => muddled') /\ (~muddled' => record # NoRecord)
  BY <1>3, Zenon
<1>4. /\ call' \in [Calls -> Call] /\ call'[h] = v
      /\ \A g \in Calls : g # h => call'[g] = call[g]
  BY <1>1, <1>2, CallStep DEF HandoverIInv
<1>5. HandoverTypeOK' /\ record' # {}
  BY <1>1, <1>3, <1>4 DEF HandoverIInv, HandoverTypeOK, CallInv, Call
<1>6. RecordInv'
  BY <1>1, <1>3, <1>m DEF HandoverIInv, HandoverTypeOK, RecordInv, UnmuddledInv, CallInv
<1>7. AloneInv(h)'
  BY <1>1, <1>3, <1>4 DEF HandoverIInv, AloneInv, TakeoverTasks, ReleaseTasks, CallInv
<1>8. UnmuddledInv(h)'
  BY <1>1, <1>3, <1>m, <1>4 DEF HandoverIInv, UnmuddledInv, AloneInv, RecordInv, HandoverTypeOK
<1>9. v.pc # "idle" /\ (v.pc = "record" => v.todo # {})
  BY <1>1, <1>3
<1> HIDE DEF v
<1> QED
  BY <1>1, <1>2, <1>3, <1>m, <1>5, <1>6, <1>7, <1>8, <1>9, OwnStep

\* What is left to do becomes enabled.
LEMMA EnablesInv == ASSUME HandoverIInv, NEW h \in Calls, Enables(h) PROVE HandoverIInv'
<1>p. PICK t \in call[h].todo : /\ enabled' = enabled \cup {t}
                               /\ call' = [call EXCEPT ![h].todo = @ \ {t}]
  BY DEF Enables
<1> DEFINE v == [call[h] EXCEPT !.todo = call[h].todo \ {t}]
<1>1. v \in Call /\ call[h] \in Call
  BY CallTyped DEF HandoverIInv, HandoverTypeOK, Call, TakeoverTasks, ReleaseTasks
<1>2. call' = [call EXCEPT ![h] = v]
  BY <1>p DEF Enables, Goes
<1>3. /\ call[h].pc = "enable"
      /\ enabled' = enabled \cup {t}
      /\ UNCHANGED <<cron, record, registered, told, before, ended, muddled, made>>
  BY <1>p DEF Enables, hostVars, hostGhosts
<1>4. /\ call' \in [Calls -> Call] /\ call'[h] = v
      /\ \A g \in Calls : g # h => call'[g] = call[g]
  BY <1>1, <1>2, CallStep DEF HandoverIInv
<1>5. HandoverTypeOK' /\ record' # {}
  BY <1>1, <1>3, <1>4 DEF HandoverIInv, HandoverTypeOK, CallInv, Call
<1>6. RecordInv'
  BY <1>1, <1>3, <1>p DEF HandoverIInv, HandoverTypeOK, RecordInv, UnmuddledInv, CallInv
<1>7. AloneInv(h)'
  BY <1>1, <1>3, <1>4 DEF HandoverIInv, AloneInv, TakeoverTasks, ReleaseTasks
<1>8. UnmuddledInv(h)'
  BY <1>1, <1>3, <1>4 DEF HandoverIInv, UnmuddledInv, AloneInv, RecordInv
<1>9. v.pc # "idle" /\ (v.pc = "record" => v.todo # {})
  BY <1>1, <1>3
<1> HIDE DEF v
<1> QED
  BY <1>1, <1>2, <1>3, <1>5, <1>6, <1>7, <1>8, <1>9, OwnStep

\* All of it is.
LEMMA ForgetsInv == ASSUME HandoverIInv, NEW h \in Calls, Forgets(h) PROVE HandoverIInv'
<1> DEFINE v == [call[h] EXCEPT !.pc = "look"]
<1>1. v \in Call /\ call[h] \in Call
  BY CallTyped DEF HandoverIInv, HandoverTypeOK, Call, TakeoverTasks, ReleaseTasks
<1>2. call' = [call EXCEPT ![h] = v]
  BY DEF Forgets, Goes
<1>3. /\ call[h].pc = "enable"
      /\ call[h].todo = {} /\ record' = NoRecord
      /\ UNCHANGED <<enabled, cron, registered, told, before, ended, muddled, made>>
  BY DEF Forgets, hostVars, hostGhosts
<1>4. /\ call' \in [Calls -> Call] /\ call'[h] = v
      /\ \A g \in Calls : g # h => call'[g] = call[g]
  BY <1>1, <1>2, CallStep DEF HandoverIInv
<1>5. HandoverTypeOK' /\ record' # {}
  BY <1>1, <1>3, <1>4, NoRecordHasSome DEF HandoverIInv, HandoverTypeOK, CallInv, Call
<1>6. RecordInv'
  BY <1>1, <1>3 DEF HandoverIInv, HandoverTypeOK, RecordInv, UnmuddledInv, CallInv
<1>7. AloneInv(h)'
  BY <1>1, <1>3, <1>4 DEF HandoverIInv, AloneInv, TakeoverTasks, ReleaseTasks
<1>8. UnmuddledInv(h)'
  BY <1>1, <1>3, <1>4 DEF HandoverIInv, UnmuddledInv, AloneInv, RecordInv
<1>9. v.pc # "idle" /\ (v.pc = "record" => v.todo # {})
  BY <1>1, <1>3
<1> HIDE DEF v
<1> QED
  BY <1>1, <1>2, <1>3, <1>5, <1>6, <1>7, <1>8, <1>9, OwnStep

\* It sees who is in charge.
LEMMA LooksInv == ASSUME HandoverIInv, NEW h \in Calls, Looks(h) PROVE HandoverIInv'
<1> DEFINE v == [call[h] EXCEPT !.pc = "tell", !.seen = DetectStatus]
<1>1. v \in Call /\ call[h] \in Call
  BY CallTyped DEF HandoverIInv, HandoverTypeOK, Call, TakeoverTasks, ReleaseTasks,
      DetectStatus
<1>2. call' = [call EXCEPT ![h] = v]
  BY DEF Looks, Goes
<1>3. /\ call[h].pc = "look"
      /\ UNCHANGED <<enabled, cron, record, registered, told, before, ended, muddled, made>>
  BY DEF Looks, hostVars, hostGhosts
<1>4. /\ call' \in [Calls -> Call] /\ call'[h] = v
      /\ \A g \in Calls : g # h => call'[g] = call[g]
  BY <1>1, <1>2, CallStep DEF HandoverIInv
<1>5. HandoverTypeOK' /\ record' # {}
  BY <1>1, <1>3, <1>4 DEF HandoverIInv, HandoverTypeOK, CallInv, Call
<1>6. RecordInv'
  BY <1>1, <1>3 DEF HandoverIInv, HandoverTypeOK, RecordInv, UnmuddledInv, CallInv
<1>7. AloneInv(h)'
  BY <1>1, <1>3, <1>4 DEF HandoverIInv, AloneInv, TakeoverTasks, ReleaseTasks, DetectStatus
<1>8. UnmuddledInv(h)'
  BY <1>1, <1>3, <1>4 DEF HandoverIInv, UnmuddledInv, AloneInv, RecordInv
<1>9. v.pc # "idle" /\ (v.pc = "record" => v.todo # {})
  BY <1>1, <1>3
<1> HIDE DEF v
<1> QED
  BY <1>1, <1>2, <1>3, <1>5, <1>6, <1>7, <1>8, <1>9, OwnStep

\* A call begins: it is alone if it is the only one.
LEMMA BeginsInv ==
    ASSUME HandoverIInv, NEW h \in Calls, NEW pc \in {"scan", "restore"}, Starts(h, pc),
           UNCHANGED <<enabled, cron, record, told, before, ended>>,
           registered' \in BOOLEAN, pc = "restore" => ~registered'
    PROVE  HandoverIInv'
<1> DEFINE v == [CallIdle EXCEPT !.pc = pc, !.alone = IF UnderWay = {} THEN "yes" ELSE "no"]
           other(g) == [call[g] EXCEPT !.alone = "no"]
<1>1. v \in Call
  BY CallIdleType DEF Call, TakeoverTasks, ReleaseTasks
<1>2. /\ call' = [g \in Calls |-> IF g = h THEN v ELSE other(g)]
      /\ made < MaxCalls /\ made' = made + 1
  BY DEF Starts
<1>3. call'[h] = v /\ \A g \in Calls : g # h => call'[g] = other(g)
  BY <1>2
<1>4. ASSUME NEW g \in Calls
      PROVE  /\ other(g) \in Call
             /\ other(g).pc = call[g].pc /\ other(g).todo = call[g].todo
             /\ other(g).alone = "no"
             /\ call[g] = CallIdle => other(g) = CallIdle
  <2>1. /\ other(g) \in Call
        /\ other(g).pc = call[g].pc /\ other(g).todo = call[g].todo
        /\ other(g).alone = "no"
    BY CallTyped DEF HandoverIInv, Call
  <2>2. ASSUME call[g] = CallIdle PROVE other(g) = CallIdle
    BY <2>2 DEF CallIdle
  <2> QED
    BY <2>1, <2>2
<1> HIDE DEF other
<1>m. (muddled' \in BOOLEAN) /\ (~muddled' => ~muddled /\ UnderWay = {})
  BY Zenon DEF Starts
<1>5. HandoverTypeOK'
  <2>1. call' \in [Calls -> Call]
    <3> HIDE DEF v
    <3> QED
      BY <1>1, <1>2, <1>4
  <2>2. made' \in 0 .. MaxCalls
    <3>1. made \in 0 .. MaxCalls
      BY DEF HandoverIInv, HandoverTypeOK
    <3>2. made < MaxCalls /\ made' = made + 1
      BY <1>2
    <3> QED
      BY <3>1, <3>2, CallsAssumption
  <2> QED
    BY <1>m, <2>1, <2>2 DEF HandoverIInv, HandoverTypeOK
<1>6. RecordInv'
  BY <1>m DEF HandoverIInv, RecordInv
<1>7. CallInv'
  <2>1. ASSUME NEW g \in Calls, g # h
        PROVE  /\ call'[g].pc = call[g].pc /\ call'[g].todo = call[g].todo
               /\ call[g] = CallIdle => call'[g] = CallIdle
    BY <1>3, <1>4, <2>1
  <2>2. call'[h].pc = pc
    BY <1>3 DEF CallIdle
  <2> QED
    BY <2>1, <2>2 DEF HandoverIInv, CallInv
<1>8. ASSUME NEW g \in Calls, g # h PROVE AloneInv(g)' /\ UnmuddledInv(g)'
  <2>1. call'[g].alone = "no" /\ call'[g].pc = call[g].pc
    BY <1>3, <1>4, <1>8
  <2>2. AloneInv(g)'
    BY <2>1 DEF AloneInv
  <2>3. UnmuddledInv(g)'
    BY <1>m, <2>1 DEF UnmuddledInv, UnderWay
  <2> QED
    BY <2>2, <2>3
<1>9. ASSUME UnderWay = {} PROVE \A g \in Calls \ {h} : call'[g].pc = "idle"
  BY <1>3, <1>4, <1>9 DEF UnderWay
<1>10. call'[h].pc = pc /\ call'[h].orphan = "no" /\ (call'[h].alone = "yes" => UnderWay = {})
  BY <1>3 DEF CallIdle
<1>11. AloneInv(h)' /\ UnmuddledInv(h)'
  BY <1>m, <1>9, <1>10 DEF AloneInv, UnmuddledInv, TakeoverTasks, ReleaseTasks
<1>12. OneInCharge' /\ ReleaseRestores'
  BY <1>10 DEF OneInCharge, ReleaseRestores, UnderWay
<1> QED
  BY <1>5, <1>6, <1>7, <1>8, <1>11, <1>12 DEF HandoverIInv

\* A call ends: what it leaves behind is what it has to account for.
LEMMA EndsInv ==
    ASSUME HandoverIInv, NEW h \in Calls, call[h].pc # "idle",
           call' = [call EXCEPT ![h] = CallIdle],
           UNCHANGED <<enabled, cron, record, registered, before, muddled, made>>,
           told' \in Status \cup {NoStatus}, ended' \in {"takeover", "release", "none"},
           OneInCharge', ReleaseRestores'
    PROVE  HandoverIInv'
<1>1. /\ call' \in [Calls -> Call] /\ call'[h] = CallIdle
      /\ \A g \in Calls : g # h => call'[g] = call[g]
  BY CallIdleType, CallStep DEF HandoverIInv
<1>2. HandoverTypeOK'
  BY <1>1 DEF HandoverIInv, HandoverTypeOK
<1>3. CallInv' /\ RecordInv'
  BY <1>1 DEF HandoverIInv, CallInv, RecordInv, CallIdle
<1>4. ASSUME NEW g \in Calls PROVE AloneInv(g)' /\ UnmuddledInv(g)'
  <2>1. CASE g = h
    BY <1>1, <2>1 DEF AloneInv, UnmuddledInv, CallIdle
  <2>2. CASE g # h
    <3>1. \A q \in Calls : call[q].pc = "idle" => call'[q].pc = "idle"
      BY <1>1 DEF CallIdle
    <3>2. AloneInv(g)'
      BY <1>1, <2>2, <3>1 DEF HandoverIInv, AloneInv, DetectStatus
    <3>3. UnmuddledInv(g)'
      BY <1>1, <2>2, <3>1 DEF HandoverIInv, UnmuddledInv
    <3> QED
      BY <3>2, <3>3
  <2> QED
    BY <2>1, <2>2
<1> QED
  BY <1>2, <1>3, <1>4 DEF HandoverIInv

\* What it tells is so, and it has done what it was for.
LEMMA TellsInv == ASSUME HandoverIInv, NEW h \in Calls, Tells(h) PROVE HandoverIInv'
<1> DEFINE end == IF call[h].alone = "no" THEN "none"
                  ELSE IF registered THEN "takeover" ELSE "release"
<1>1. /\ call[h].pc = "tell" /\ call' = [call EXCEPT ![h] = CallIdle]
      /\ told' = [daemon |-> call[h].seen, managed |-> Managed] /\ ended' = end
      /\ UNCHANGED <<enabled, cron, record, registered, before, muddled, made>>
  BY DEF Tells, hostVars
<1>2. call[h].seen \in {"active", "inactive"} /\ call[h].alone \in {"no", "yes"}
  BY CallTyped DEF HandoverIInv, Call
<1>3. told' \in Status
  BY <1>1, <1>2 DEF Status, Managed
<1>4. ASSUME end # "none"
      PROVE  /\ call[h].seen = DetectStatus
             /\ IF registered THEN enabled = {} /\ cron # "on"
                ELSE cron # "off" /\ (Timers = {} \/ enabled # {})
  BY <1>1, <1>2, <1>4 DEF HandoverIInv, AloneInv
<1>5. OneInCharge'
  <2>1. cron \in {"none", "on", "off"}
    BY DEF HandoverIInv, HandoverTypeOK
  <2>2. DetectStatus' = DetectStatus /\ Managed' = Managed
    BY <1>1 DEF DetectStatus, Managed
  <2>3. ASSUME end # "none"
        PROVE  (Timers # {} \/ cron # "none") => (registered <=> DetectStatus = "inactive")
    BY <1>4, <2>1, <2>3 DEF DetectStatus
  <2> HIDE DEF end
  <2> QED
    BY <1>1, <1>4, <2>2, <2>3 DEF OneInCharge
<1>6. ReleaseRestores'
  <2>1. ASSUME end = "release", ~muddled PROVE enabled = before.enabled /\ cron = before.cron
    BY <1>1, <1>2, <2>1 DEF HandoverIInv, UnmuddledInv
  <2> HIDE DEF end
  <2> QED
    BY <1>1, <2>1 DEF ReleaseRestores
<1>7. ended' \in {"takeover", "release", "none"}
  BY <1>1
<1> QED
  BY <1>1, <1>3, <1>5, <1>6, <1>7, EndsInv

\* Nobody waits any more for what goes on.
LEMMA TimesOutInv == ASSUME HandoverIInv, NEW h \in Calls, TimesOut(h) PROVE HandoverIInv'
<1> DEFINE v == [call[h] EXCEPT !.orphan = "yes", !.alone = "no"]
<1>1. v \in Call /\ call[h] \in Call
  BY CallTyped DEF HandoverIInv, Call
<1>2. call' = [call EXCEPT ![h] = v]
  BY DEF TimesOut
<1>3. /\ call[h].pc # "idle" /\ ended' = "none"
      /\ UNCHANGED <<enabled, cron, record, registered, told, before, muddled, made>>
  BY DEF TimesOut, hostVars, TakeoverTasks, ReleaseTasks
<1>4. /\ call' \in [Calls -> Call] /\ call'[h] = v
      /\ \A g \in Calls : g # h => call'[g] = call[g]
  BY <1>1, <1>2, CallStep DEF HandoverIInv
<1>5. HandoverTypeOK' /\ record' # {}
  BY <1>3, <1>4 DEF HandoverIInv, HandoverTypeOK, CallInv
<1>6. RecordInv'
  BY <1>3 DEF HandoverIInv, RecordInv
<1>7. v.pc = call[h].pc /\ v.todo = call[h].todo /\ v.alone = "no"
  BY <1>1 DEF Call
<1> HIDE DEF v
<1>8. AloneInv(h)'
  BY <1>4, <1>7 DEF AloneInv
<1>9. UnmuddledInv(h)'
  BY <1>3, <1>4, <1>7 DEF HandoverIInv, UnmuddledInv
<1>10. v.pc # "idle" /\ (v.pc = "record" => v.todo # {})
  BY <1>3, <1>7 DEF HandoverIInv, CallInv
<1> QED
  BY <1>1, <1>2, <1>3, <1>5, <1>6, <1>8, <1>9, <1>10, OwnStep

\* Who fails claims nothing.
LEMMA FailsInv == ASSUME HandoverIInv, NEW h \in Calls, Fails(h) PROVE HandoverIInv'
<1>1. /\ call' = [call EXCEPT ![h] = CallIdle] /\ ended' = "none"
      /\ UNCHANGED <<enabled, cron, record, registered, told, before, muddled, made>>
  BY DEF Fails, hostVars
<1>2. call[h].pc # "idle"
  BY DEF Fails, TakeoverTasks, ReleaseTasks, HandoverIInv, CallInv, CallIdle
<1>3. OneInCharge' /\ ReleaseRestores'
  BY <1>1 DEF OneInCharge, ReleaseRestores
<1>4. told' \in Status \cup {NoStatus}
  BY <1>1 DEF HandoverIInv, HandoverTypeOK
<1> QED
  BY <1>1, <1>2, <1>3, <1>4, EndsInv

\* A start decides by what it finds; playbooks that go on have nobody waiting.
LEMMA RestartsInv == ASSUME HandoverIInv, Restarts PROVE HandoverIInv'
<1> DEFINE goesOn(g) == call[g].pc \in TakeoverTasks \cup ReleaseTasks
           orphaned(g) == [call[g] EXCEPT !.orphan = "yes", !.alone = "no"]
<1>1. /\ registered' = (DetectStatus = "inactive") /\ told' = NoStatus
      /\ ended' = (IF \A h \in Calls : call'[h].pc = "idle" THEN "start" ELSE "none")
      /\ UNCHANGED <<enabled, cron, record, before, muddled, made>>
  BY DEF Restarts, hostVars
<1>2. call' = [g \in Calls |-> IF goesOn(g) THEN orphaned(g)
                               ELSE IF call[g].orphan = "yes" THEN call[g] ELSE CallIdle]
  BY DEF Restarts
<1>3. ASSUME NEW g \in Calls
      PROVE  /\ orphaned(g) \in Call /\ call[g] \in Call
             /\ orphaned(g).pc = call[g].pc /\ orphaned(g).todo = call[g].todo
             /\ orphaned(g).alone = "no"
  BY CallTyped DEF HandoverIInv, Call
<1>4. ASSUME NEW g \in Calls
      PROVE  \/ goesOn(g) /\ call'[g] = orphaned(g)
             \/ ~goesOn(g) /\ call[g].orphan = "yes" /\ call'[g] = call[g]
             \/ ~goesOn(g) /\ call[g].orphan # "yes" /\ call'[g] = CallIdle
  BY <1>2
<1> HIDE DEF orphaned
<1>5. HandoverTypeOK'
  <2>1. call' \in [Calls -> Call]
    BY <1>2, <1>3, CallIdleType
  <2>2. registered' \in BOOLEAN
    BY <1>1, Zenon
  <2> QED
    BY <1>1, <2>1, <2>2 DEF HandoverIInv, HandoverTypeOK
<1>6. ASSUME NEW g \in Calls
      PROVE  /\ call'[g].alone = "no"
             /\ call'[g] = CallIdle
                \/ (call'[g].pc = call[g].pc /\ call'[g].todo = call[g].todo)
             /\ call[g].pc = "idle" => call'[g] = CallIdle
             /\ call'[g].pc = "idle" => call'[g] = CallIdle
  <2>1. call[g].alone \in {"no", "yes"}
    BY <1>3 DEF Call
  <2>2. call[g].orphan = "yes" => call[g].alone = "no"
    BY <2>1 DEF HandoverIInv, AloneInv
  <2>3. call[g].pc = "idle" => call[g] = CallIdle /\ ~goesOn(g)
    BY DEF HandoverIInv, CallInv, TakeoverTasks, ReleaseTasks
  <2> QED
    BY <1>3, <1>4, <2>2, <2>3 DEF CallIdle
<1>7. CallInv' /\ RecordInv'
  BY <1>1, <1>6 DEF HandoverIInv, CallInv, RecordInv, CallIdle
<1>8. ASSUME NEW g \in Calls PROVE AloneInv(g)' /\ UnmuddledInv(g)'
  <2>1. AloneInv(g)'
    BY <1>6 DEF AloneInv
  <2>2. UnmuddledInv(g)'
    BY <1>1, <1>6 DEF HandoverIInv, UnmuddledInv, CallIdle
  <2> QED
    BY <2>1, <2>2
<1>9. OneInCharge' /\ ReleaseRestores'
  <2>1. DetectStatus' = DetectStatus
    BY <1>1 DEF DetectStatus
  <2> QED
    BY <1>1, <2>1 DEF OneInCharge, ReleaseRestores
<1> QED
  BY <1>5, <1>7, <1>8, <1>9 DEF HandoverIInv

LEMMA HandoverInitInv == HandoverInit => HandoverIInv
<1> SUFFICES ASSUME HandoverInit PROVE HandoverIInv
  OBVIOUS
<1> USE DEF HandoverInit
<1>1. call \in [Calls -> Call] /\ \A h \in Calls : call[h] = CallIdle
  BY CallIdleType
<1>2. HandoverTypeOK
  <2>1. registered \in BOOLEAN
    BY Zenon
  <2>2. before \in [enabled : SUBSET Timers, cron : {"none", "on"}]
    OBVIOUS
  <2>3. 0 \in 0 .. MaxCalls
    BY CallsAssumption
  <2>4. enabled \subseteq Timers /\ cron \in {"none", "on", "off"}
    OBVIOUS
  <2> QED
    BY <1>1, <2>1, <2>2, <2>3, <2>4 DEF HandoverTypeOK
<1>3. CallInv /\ RecordInv
  BY <1>1, NoRecordHasSome DEF CallInv, RecordInv, CallIdle
<1>4. \A h \in Calls : AloneInv(h) /\ UnmuddledInv(h)
  BY <1>1 DEF AloneInv, UnmuddledInv, CallIdle
<1>5. OneInCharge /\ ReleaseRestores
  BY DEF OneInCharge, ReleaseRestores
<1> QED
  BY <1>2, <1>3, <1>4, <1>5 DEF HandoverIInv

LEMMA HandoverNextInv == HandoverIInv /\ HandoverNext => HandoverIInv'
<1> SUFFICES ASSUME HandoverIInv, HandoverNext PROVE HandoverIInv'
  OBVIOUS
<1>1. ASSUME NEW h \in Calls, Takeover(h) PROVE HandoverIInv'
  <2>1. registered' \in BOOLEAN
    BY <1>1 DEF Takeover, HandoverIInv, HandoverTypeOK
  <2>2. Starts(h, "scan") /\ UNCHANGED <<enabled, cron, record, told, before, ended>>
    BY <1>1 DEF Takeover, hostVars
  <2> QED
    BY <2>1, <2>2, BeginsInv
<1>2. ASSUME NEW h \in Calls, Release(h) PROVE HandoverIInv'
  <2>1. /\ Starts(h, "restore") /\ registered' = FALSE
        /\ UNCHANGED <<enabled, cron, record, told, before, ended>>
    BY <1>2 DEF Release, hostVars
  <2> QED
    BY <2>1, BeginsInv
<1>3. ASSUME NEW h \in Calls, TakesOver(h) PROVE HandoverIInv'
  BY <1>1, <1>3, ScansInv, RecordsInv, DisablesInv, RenamesCronInv, RegistersInv DEF TakesOver
<1>4. ASSUME NEW h \in Calls, Releases(h) PROVE HandoverIInv'
  BY <1>2, <1>4, RestoresCronInv, ReadsInv, EnablesInv, ForgetsInv DEF Releases
<1> QED
  BY <1>3, <1>4, LooksInv, TellsInv, FailsInv, TimesOutInv, RestartsInv DEF HandoverNext

LEMMA HandoverKept == HandoverIInv /\ UNCHANGED handoverVars => HandoverIInv'
<1> SUFFICES ASSUME HandoverIInv, UNCHANGED handoverVars PROVE HandoverIInv'
  OBVIOUS
<1> USE DEF HandoverIInv, handoverVars
<1>1. HandoverTypeOK' /\ CallInv' /\ RecordInv'
  BY DEF HandoverTypeOK, CallInv, RecordInv
<1>2. DetectStatus' = DetectStatus /\ Managed' = Managed /\ UnderWay' = UnderWay
  BY DEF DetectStatus, Managed, UnderWay
<1>3. \A h \in Calls : AloneInv(h)' /\ UnmuddledInv(h)'
  BY <1>2 DEF AloneInv, UnmuddledInv
<1>4. OneInCharge' /\ ReleaseRestores'
  BY <1>2 DEF OneInCharge, ReleaseRestores
<1> QED
  BY <1>1, <1>3, <1>4

-----------------------------------------------------------------------------
(* Requests *)

\* What the handlers do to the list is what Feed's handlers do.
LEMMA RequestIsFeedStep ==
    ASSUME NEW h \in Handlers, Request(h)
    PROVE  [Next]_vars
BY DEF Request, Acts, EndsUnpublished, Succeeds, Publishes, Next, vars

LEMMA StepIsFeedStep == [RequestsNext]_allVars => [Next]_vars
<1> SUFFICES ASSUME [RequestsNext]_allVars PROVE [Next]_vars
  OBVIOUS
<1>1. CASE UNCHANGED allVars
  BY <1>1 DEF allVars
<1>2. CASE WatchesList
  <2>1. CASE Elsewhere \/ Polls \/ Autosnaps
    BY <2>1 DEF Elsewhere, Polls, Autosnaps, Next
  <2>2. CASE \E h \in Handlers : Request(h)
    BY <2>2, RequestIsFeedStep
  <2> QED
    BY <1>2, <2>1, <2>2 DEF WatchesList
<1>3. CASE WatchesHandover
  BY <1>3 DEF WatchesHandover
<1> QED
  BY <1>1, <1>2, <1>3 DEF RequestsNext

\* Changes and payloads only come to be.
LEMMA FeedGrows ==
    ASSUME FeedIInv, [Next]_vars
    PROVE  world <= world' /\ newest <= newest'
<1> USE MaxVersionAssumption DEF FeedIInv, TypeOK
<1>1. CASE UNCHANGED <<shown, newest, overtaken>>
  BY <1>1 DEF vars, Next, ChangeElsewhere, Change, Poll, PollLists, PollPublishes, Publishing,
              HandlerRuns, HandlerLists, HandlerPublishes, AutosnapRuns, AutosnapPublishes,
              feedVars
<1>2. ASSUME NEW v \in Version \cup {Nothing}, v <= world, Show(v), UNCHANGED world
      PROVE  world <= world' /\ newest <= newest'
  BY <1>2 DEF Show
<1>3. CASE PollPublishes
  BY <1>1, <1>2, <1>3 DEF PollPublishes, feedVars
<1>4. CASE AutosnapPublishes
  BY <1>2, <1>4 DEF AutosnapPublishes
<1>5. ASSUME NEW h \in Handlers, HandlerPublishes(h) PROVE world <= world' /\ newest <= newest'
  BY <1>2, <1>5 DEF HandlerPublishes
<1> QED
  BY <1>1, <1>3, <1>4, <1>5
  DEF Next, vars, ChangeElsewhere, Poll, PollLists, Publishing, HandlerRuns, HandlerLists,
      AutosnapRuns, feedVars

\* Whoever publishes accounts takes userMu.
LEMMA PlansOfHandled ==
    ASSUME NEW p \in Handled
    PROVE  /\ OnTopic(p) \in Plan
           /\ watched = "accounts" /\ OnTopic(p).publishes => OnTopic(p).locks
<1>1. "accounts" \in p.publishes => p.locks = TRUE
  BY DEF Handled, Runs, UnderUserMu, SetDatasetProps, CreateDataset, CreateSnapshot,
         RenameDataset, DeleteDataset, CloneSnapshot, SendSnapshot, RewriteDataset,
         DeleteSnapshot, DeleteSnapshotBatch, StartScrub, CancelScrub, SetAutoSnapshotProps,
         CreatePool, AddPoolDevices, RemovePoolDevice, ImportPool, ExportPool, ReplaceDevice,
         SetDeviceState, SetACLEntry, MutateService, CreateUser, DeleteUser, ModifyUser,
         CreateGroup, DeleteGroup, ModifyGroup, AddSambaUser, RemoveSambaUser
<1>2. OnTopic(p) \in Plan
  BY DEF OnTopic, Plan
<1>3. /\ OnTopic(p).publishes = (watched \in p.publishes)
      /\ OnTopic(p).locks = (p.locks /\ watched = "accounts")
  BY DEF OnTopic
<1> QED
  BY <1>1, <1>2, <1>3

LEMMA NoPlanType == NoPlan \in Plan /\ ~NoPlan.locks /\ ~NoPlan.publishes
<1> DEFINE p == Runs({}, {})
<1>1. p.locks = FALSE /\ p.publishes = {}
  BY DEF Runs
<1> HIDE DEF p
<1>2. OnTopic(p) \in Plan
  BY DEF OnTopic, Plan
<1>3. /\ OnTopic(p).publishes = (watched \in p.publishes)
      /\ OnTopic(p).locks = (p.locks /\ watched = "accounts")
  BY DEF OnTopic
<1>4. ~OnTopic(p).locks /\ ~OnTopic(p).publishes
  BY <1>1, <1>3
<1> QED
  BY <1>2, <1>4 DEF NoPlan, p

\* A request that asks, leaves or acts, and holds userMu only where it is free.
LEMMA AtMoves ==
    ASSUME RequestsTypeOK, LockInv, NEW h \in Handlers, NEW p \in Plan,
           NEW a \in {"free", "acting", "acted"},
           at' = [at EXCEPT ![h] = a], plan' = [plan EXCEPT ![h] = p], watched' = watched,
           \A g \in Handlers : g # h => (doing'[g] # "idle" <=> doing[g] # "idle"),
           doing'[h] # "idle" <=> a = "acted",
           a = "acted" => p.publishes,
           watched = "accounts" /\ p.publishes => p.locks,
           p.locks /\ a \in {"acting", "acted"} => InUserMu(h) \/ UserMuFree
    PROVE  /\ LockInv'
           /\ plan' \in [Handlers -> Plan]
           /\ at' \in [Handlers -> {"free", "acting", "acted"}]
<1>1. plan' \in [Handlers -> Plan] /\ at' \in [Handlers -> {"free", "acting", "acted"}]
  BY DEF RequestsTypeOK
<1>2. /\ at'[h] = a /\ plan'[h] = p
      /\ \A g \in Handlers : g # h => at'[g] = at[g] /\ plan'[g] = plan[g]
  BY DEF RequestsTypeOK
<1>3. /\ \A g \in Handlers : doing'[g] # "idle" <=> at'[g] = "acted"
      /\ \A g \in Handlers : at'[g] = "acted" => plan'[g].publishes
      /\ watched' = "accounts" => \A g \in Handlers : plan'[g].publishes => plan'[g].locks
  BY <1>2 DEF LockInv
<1>4. ASSUME NEW f \in Handlers, NEW g \in Handlers, InUserMu(f)', InUserMu(g)'
      PROVE  f = g
  <2>1. ASSUME NEW e \in Handlers, e # h, InUserMu(e)' PROVE InUserMu(e) /\ ~UserMuFree
    BY <1>2, <2>1 DEF InUserMu, UserMuFree
  <2>2. InUserMu(h)' => InUserMu(h) \/ UserMuFree
    BY <1>2 DEF InUserMu
  <2> QED
    BY <1>4, <2>1, <2>2 DEF LockInv
<1> QED
  BY <1>1, <1>3, <1>4 DEF LockInv

\* Where nothing is listed or published, nothing newer is sent.
LEMMA SentKept ==
    ASSUME SentInv, sent \in Nat, world \in Nat, world' \in Nat, world <= world',
           sent' = sent, watched' = watched,
           \A g \in Handlers : doing'[g] = "listed" => doing[g] = "listed" /\ hand'[g] = hand[g]
    PROVE  SentInv'
BY DEF SentInv

LEMMA RequestKeeps ==
    ASSUME RequestsIInv, FeedIInv', NEW h \in Handlers, Request(h), watched' = watched
    PROVE  /\ LockInv' /\ SentInv' /\ sent' \in Version \cup {Nothing}
           /\ plan' \in [Handlers -> Plan]
           /\ at' \in [Handlers -> {"free", "acting", "acted"}]
<1> DEFINE Goal == /\ LockInv' /\ SentInv' /\ sent' \in Version \cup {Nothing}
                   /\ plan' \in [Handlers -> Plan]
                   /\ at' \in [Handlers -> {"free", "acting", "acted"}]
<1>1. /\ RequestsTypeOK /\ LockInv /\ SentInv
      /\ plan \in [Handlers -> Plan] /\ plan[h] \in Plan
      /\ at \in [Handlers -> {"free", "acting", "acted"}]
      /\ sent \in Version \cup {Nothing} /\ sent \in Nat
      /\ world \in Nat /\ world' \in Nat /\ world \in Version
      /\ doing \in [Handlers -> {"idle", "ran", "listed"}]
      /\ hand \in [Handlers -> Version \cup {Nothing}]
  BY MaxVersionAssumption DEF RequestsIInv, RequestsTypeOK, FeedIInv, TypeOK
<1>2. plan = [plan EXCEPT ![h] = plan[h]]
  BY <1>1
<1>3. ASSUME UNCHANGED <<doing, hand, sent>>, world <= world' PROVE SentInv'
  BY <1>1, <1>3, SentKept
<1>4. CASE Acts(h)
  <2>1. PICK p \in Handled : /\ plan' = [plan EXCEPT ![h] = OnTopic(p)]
                             /\ OnTopic(p).locks => UserMuFree
    BY <1>4 DEF Acts
  <2>2. /\ at' = [at EXCEPT ![h] = "acting"] /\ UNCHANGED <<world, doing, hand, sent>>
        /\ at[h] = "free"
    BY <1>4 DEF Acts, vars
  <2>3. LockInv' /\ plan' \in [Handlers -> Plan]
        /\ at' \in [Handlers -> {"free", "acting", "acted"}]
    BY <1>1, <2>1, <2>2, PlansOfHandled, AtMoves DEF LockInv
  <2> QED
    BY <1>1, <1>3, <2>2, <2>3
<1>5. ASSUME Leaves(h), at[h] # "acted", UNCHANGED <<doing, hand, sent>>, world <= world'
      PROVE  Goal
  <2>1. LockInv' /\ plan' \in [Handlers -> Plan]
        /\ at' \in [Handlers -> {"free", "acting", "acted"}]
    BY <1>1, <1>5, NoPlanType, AtMoves DEF LockInv, Leaves
  <2> QED
    BY <1>1, <1>3, <1>5, <2>1
<1>6. CASE EndsUnpublished(h)
  BY <1>1, <1>5, <1>6 DEF EndsUnpublished, ChangeElsewhere, Change, vars
<1>9. CASE Succeeds(h)
  <2>1. /\ at' = [at EXCEPT ![h] = "acted"] /\ plan' = [plan EXCEPT ![h] = plan[h]]
        /\ world <= world' /\ UNCHANGED <<hand, sent>>
        /\ at[h] = "acting" /\ plan[h].publishes
        /\ doing' = [doing EXCEPT ![h] = "ran"]
    BY <1>1, <1>2, <1>9 DEF Succeeds, HandlerRuns, Change
  <2>2. doing'[h] = "ran" /\ \A g \in Handlers : g # h => doing'[g] = doing[g]
    BY <1>1, <2>1
  <2>3. LockInv' /\ plan' \in [Handlers -> Plan]
        /\ at' \in [Handlers -> {"free", "acting", "acted"}]
    BY <1>1, <2>1, <2>2, AtMoves DEF LockInv, InUserMu
  <2>4. SentInv'
    BY <1>1, <2>1, <2>2, SentKept
  <2> QED
    BY <1>1, <2>1, <2>3, <2>4
<1>10. CASE Publishes(h)
  <2>1. at[h] = "acted" /\ UNCHANGED world /\ plan[h].publishes
    BY <1>1, <1>10
    DEF Publishes, Publishing, HandlerLists, HandlerPublishes, LockInv
  <2>2. CASE HandlerLists(h) /\ doing'[h] # "idle"
    <3>1. /\ doing' = [doing EXCEPT ![h] = "listed"] /\ hand' = [hand EXCEPT ![h] = world]
          /\ doing[h] = "ran"
      BY <1>1, <2>2 DEF HandlerLists
    <3>2. UNCHANGED <<at, plan, sent>>
      BY <1>10, <2>2, <3>1 DEF Publishes
    <3>3. /\ doing'[h] = "listed" /\ hand'[h] = world
          /\ \A g \in Handlers : g # h => doing'[g] = doing[g] /\ hand'[g] = hand[g]
      BY <1>1, <3>1
    <3>4. LockInv'
      BY <1>1, <3>1, <3>2, <3>3 DEF LockInv, InUserMu
    <3>5. SentInv'
      BY <1>1, <2>1, <3>2, <3>3 DEF SentInv
    <3> QED
      BY <1>1, <3>2, <3>4, <3>5
  <2>3. CASE doing'[h] = "idle"
    <3>1. Leaves(h)
      BY <1>10, <2>3 DEF Publishes
    <3>2. \A g \in Handlers : g # h => doing'[g] = doing[g] /\ hand'[g] = hand[g]
      BY <1>1, <1>10 DEF Publishes, Publishing, HandlerLists, HandlerPublishes
    <3>3. LockInv' /\ plan' \in [Handlers -> Plan]
          /\ at' \in [Handlers -> {"free", "acting", "acted"}]
      BY <1>1, <2>3, <3>1, <3>2, NoPlanType, AtMoves DEF Leaves
    <3>4. CASE doing[h] = "listed" /\ watched = "accounts" /\ hand[h] > sent
      <4>1. sent' = hand[h] /\ hand[h] \in Version \cup {Nothing} /\ hand[h] <= world
        BY <1>1, <1>10, <3>4 DEF Publishes, RequestsIInv, FeedIInv
      <4>2. ASSUME NEW g \in Handlers PROVE doing'[g] # "listed"
        <5>1. ASSUME g # h, doing[g] = "listed" PROVE InUserMu(g) /\ InUserMu(h)
          BY <1>1, <2>1, <3>4, <5>1 DEF LockInv, InUserMu
        <5> QED
          BY <1>1, <2>3, <3>2, <5>1 DEF LockInv
      <4>3. SentInv'
        BY <2>1, <4>1, <4>2 DEF SentInv
      <4> QED
        BY <3>3, <4>1, <4>3
    <3>5. CASE ~(doing[h] = "listed" /\ watched = "accounts" /\ hand[h] > sent)
      <4>1. sent' = sent
        BY <1>10, <3>5 DEF Publishes
      <4>2. SentInv'
        BY <1>1, <2>1, <2>3, <3>2, <4>1, SentKept
      <4> QED
        BY <1>1, <3>3, <4>1, <4>2
    <3> QED
      BY <3>4, <3>5
  <2>4. Publishing(h)
    BY <1>10 DEF Publishes
  <2>5. HandlerPublishes(h) => doing'[h] = "idle"
    BY <1>1 DEF HandlerPublishes
  <2> QED
    BY <2>2, <2>3, <2>4, <2>5 DEF Publishing
<1> QED
  BY <1>4, <1>6, <1>9, <1>10 DEF Request

\* The browser, while the list and its payloads only grow.
LEMMA BrowserKept ==
    ASSUME RequestsIInv, world <= world', newest <= newest', FeedIInv',
           UNCHANGED browserVars
    PROVE  BrowserInv'
<1>1. /\ world \in Nat /\ world' \in Nat /\ newest \in Nat /\ newest' \in Nat
      /\ view \in Nat /\ taken \in Nat
  BY MaxVersionAssumption DEF RequestsIInv, RequestsTypeOK, FeedIInv, TypeOK
<1>2. answer # <<>> => Head(answer) \in Nat
  BY DEF RequestsIInv, RequestsTypeOK
<1> QED
  BY <1>1, <1>2 DEF RequestsIInv, BrowserInv, browserVars

LEMMA BrowserKeeps ==
    ASSUME RequestsIInv, Delivers \/ LoadsAll \/ Stores, UNCHANGED vars
    PROVE  /\ BrowserInv' /\ view' \in Version \cup {Nothing} /\ taken' \in Version \cup {Nothing}
           /\ answer' \in {<<>>} \cup {<<v>> : v \in Version} /\ late' \in BOOLEAN
<1>1. /\ world \in Version /\ newest \in Version \cup {Nothing} /\ newest <= world
      /\ shown \in Version \cup {Nothing} /\ shown <= newest
      /\ view \in Version \cup {Nothing} /\ taken \in Version \cup {Nothing}
      /\ late \in BOOLEAN /\ BrowserInv
      /\ answer \in {<<>>} \cup {<<v>> : v \in Version}
  BY DEF RequestsIInv, RequestsTypeOK, FeedIInv, TypeOK
<1>2. /\ Version \subseteq Nat /\ Nothing = 0 /\ UNCHANGED <<world, newest, shown>>
  BY MaxVersionAssumption DEF vars, feedVars, Version, Nothing
<1>n. /\ world \in Nat /\ newest \in Nat /\ shown \in Nat /\ view \in Nat /\ taken \in Nat
      /\ answer # <<>> => Head(answer) \in Nat
  BY <1>1, <1>2
<1>3. CASE Delivers
  <2>1. taken' = shown /\ UNCHANGED answer
    BY <1>3 DEF Delivers
  <2>2. CASE shown = Nothing
    <3>1. view' = view /\ late' = late
      BY <1>1, <1>3, <2>2 DEF Delivers
    <3>2. taken' = 0 /\ answer' = answer
      BY <1>2, <2>1, <2>2
    <3>3. BrowserInv'
      BY <1>1, <1>2, <1>n, <3>1, <3>2 DEF BrowserInv
    <3> QED
      BY <1>1, <1>2, <3>1, <3>2, <3>3
  <2>3. CASE shown # Nothing
    <3>1. view' = shown /\ late' = FALSE
      BY <1>3, <2>3 DEF Delivers
    <3>2. BrowserInv'
      BY <1>1, <1>2, <1>n, <2>1, <3>1 DEF BrowserInv
    <3> QED
      BY <1>1, <2>1, <3>1, <3>2
  <2> QED
    BY <2>2, <2>3
<1>4. CASE LoadsAll
  <2>1. answer' = <<world>> /\ UNCHANGED <<view, taken, late>>
    BY <1>4 DEF LoadsAll
  <2>2. Head(answer') = world /\ answer' # <<>>
    BY <2>1
  <2> QED
    BY <1>1, <1>2, <2>1, <2>2 DEF BrowserInv
<1>5. CASE Stores
  <2>1. PICK v \in Version : answer = <<v>>
    BY <1>1, <1>5 DEF Stores
  <2>2. Head(answer) = v /\ answer # <<>> /\ answer' = <<>> /\ taken' = taken
    BY <1>5, <2>1 DEF Stores
  <2>3. CASE view' = view /\ late' = late
    <3>1. BrowserInv'
      BY <1>1, <1>2, <1>n, <2>2, <2>3 DEF BrowserInv
    <3>2. late' \in BOOLEAN
      BY <1>1, <2>3, Zenon
    <3> QED
      BY <1>1, <2>2, <2>3, <3>1, <3>2
  <2>4. CASE view' = Head(answer) /\ late' = (Head(answer) < view)
    <3>0. late' = (v < view) /\ (v < view) \in BOOLEAN
      BY <2>2, <2>4
    <3>1. late' \in BOOLEAN /\ (~late' => ~(v < view))
      BY <3>0, Zenon
    <3>2. late' \/ taken <= v
      BY <1>1, <1>n, <2>1, <2>2, <3>1 DEF BrowserInv
    <3>3. view' = v /\ v <= world
      BY <1>1, <2>2, <2>4 DEF BrowserInv
    <3>4. BrowserInv'
      BY <1>1, <1>2, <2>2, <3>2, <3>3 DEF BrowserInv
    <3> QED
      BY <1>1, <2>1, <2>2, <3>1, <3>3, <3>4
  <2> QED
    BY <1>5, <2>3, <2>4 DEF Stores
<1> QED
  BY <1>3, <1>4, <1>5

LEMMA RequestsInitInv == RequestsInit => RequestsIInv
<1> SUFFICES ASSUME RequestsInit PROVE RequestsIInv
  OBVIOUS
<1>1. FeedIInv /\ HandoverIInv
  BY FeedInitInv, HandoverInitInv DEF RequestsInit
<1>2. RequestsTypeOK
  BY NoPlanType DEF RequestsInit, RequestsTypeOK
<1>3. BrowserInv /\ SentInv
  BY MaxVersionAssumption DEF RequestsInit, Init, BrowserInv, SentInv
<1>4. LockInv
  BY NoPlanType DEF RequestsInit, Init, LockInv, InUserMu
<1> QED
  BY <1>1, <1>2, <1>3, <1>4 DEF RequestsIInv

\* Steps that leave the requests alone.
LEMMA RequestsKept ==
    ASSUME RequestsIInv, world <= world', FeedIInv', UNCHANGED <<requestVars, watched>>,
           UNCHANGED <<doing, hand>>
    PROVE  LockInv' /\ SentInv'
<1>1. sent \in Nat /\ world \in Nat /\ world' \in Nat
  BY MaxVersionAssumption DEF RequestsIInv, RequestsTypeOK, FeedIInv, TypeOK
<1>2. LockInv'
  BY DEF RequestsIInv, requestVars, LockInv, InUserMu
<1>3. SentInv'
  BY <1>1, SentKept DEF RequestsIInv, requestVars
<1> QED
  BY <1>2, <1>3

LEMMA RequestsNextInv == RequestsIInv /\ [RequestsNext]_allVars => RequestsIInv'
<1> SUFFICES ASSUME RequestsIInv, [RequestsNext]_allVars PROVE RequestsIInv'
  OBVIOUS
<1>1. FeedIInv' /\ world <= world' /\ newest <= newest'
  BY StepIsFeedStep, FeedNextInv, FeedGrows DEF RequestsIInv
<1>2. HandoverIInv'
  BY HandoverKept, HandoverNextInv
  DEF RequestsIInv, RequestsNext, WatchesList, WatchesHandover, allVars
<1>3. watched' = watched
  BY DEF RequestsNext, WatchesList, WatchesHandover, allVars
<1>4. ASSUME UNCHANGED requestVars PROVE RequestsTypeOK' <=>
        /\ view' \in Version \cup {Nothing} /\ taken' \in Version \cup {Nothing}
        /\ answer' \in {<<>>} \cup {<<v>> : v \in Version} /\ late' \in BOOLEAN
  BY <1>3, <1>4 DEF RequestsIInv, RequestsTypeOK, requestVars
<1>5. CASE UNCHANGED <<requestVars, browserVars, doing, hand>>
  <2>1. RequestsTypeOK'
    BY <1>4, <1>5 DEF RequestsIInv, RequestsTypeOK, browserVars
  <2>2. BrowserInv'
    BY <1>1, <1>5, BrowserKept
  <2>3. LockInv' /\ SentInv'
    BY <1>1, <1>3, <1>5, RequestsKept
  <2> QED
    BY <1>1, <1>2, <2>1, <2>2, <2>3 DEF RequestsIInv
<1>6. CASE (Delivers \/ LoadsAll \/ Stores) /\ UNCHANGED <<vars, requestVars>>
  <2>1. RequestsTypeOK' /\ BrowserInv'
    BY <1>4, <1>6, BrowserKeeps
  <2>2. LockInv' /\ SentInv'
    BY <1>1, <1>3, <1>6, RequestsKept DEF vars
  <2> QED
    BY <1>1, <1>2, <2>1, <2>2 DEF RequestsIInv
<1>7. ASSUME NEW h \in Handlers, Request(h), UNCHANGED browserVars PROVE RequestsIInv'
  <2>1. /\ LockInv' /\ SentInv' /\ sent' \in Version \cup {Nothing}
        /\ plan' \in [Handlers -> Plan]
        /\ at' \in [Handlers -> {"free", "acting", "acted"}]
    BY <1>1, <1>3, <1>7, RequestKeeps
  <2>2. RequestsTypeOK'
    BY <1>3, <1>7, <2>1 DEF RequestsIInv, RequestsTypeOK, browserVars
  <2>3. BrowserInv'
    BY <1>1, <1>7, BrowserKept
  <2> QED
    BY <1>1, <1>2, <2>1, <2>2, <2>3 DEF RequestsIInv
<1>8. CASE WatchesList
  <2>1. CASE Elsewhere \/ Polls \/ Autosnaps
    <3>1. UNCHANGED <<requestVars, browserVars, doing, hand>>
      BY <2>1 DEF Elsewhere, Polls, Autosnaps, ChangeElsewhere, Poll, PollLists, PollPublishes,
                  AutosnapRuns, AutosnapPublishes
    <3> QED
      BY <1>5, <3>1
  <2> QED
    BY <1>6, <1>7, <1>8, <2>1 DEF WatchesList
<1>9. CASE WatchesHandover \/ UNCHANGED allVars
  BY <1>5, <1>9 DEF WatchesHandover, allVars, vars
<1> QED
  BY <1>8, <1>9 DEF RequestsNext

\* What is published, fetched, shown, held and handed over fits together.
THEOREM RequestsInvariant == RequestsSpec => []RequestsIInv
BY RequestsInitInv, RequestsNextInv, PTL DEF RequestsSpec

\* A list that is published while its topic rests, and is not the present one
\* that the poller has seen, was published after a newer one or before the list
\* came back to what the poller published last, whichever requests and pollers
\* there are (publishDatasets and its like, runPoller).
THEOREM RequestsShowThePresent == RequestsSpec => []StaleOnlyIfOvertaken
<1>1. RequestsIInv => StaleOnlyIfOvertaken
  BY FeedIsCurrent DEF RequestsIInv
<1> QED
  BY <1>1, RequestsInvariant, PTL

\* The browser falls behind for good only by an overtaken payload, by an answer
\* that was stored late, or by a list that came back to what the poller had
\* published before (loader.js, loadAll and the stream; runPoller).
THEOREM BrowserFallsBehindKnowingly == RequestsSpec => []BrowserBehind
<1>1. ASSUME RequestsIInv, AtRest, seen = world, taken = shown, list[view] # list[world],
             ~overtaken, ~late
      PROVE  CameBack(view)
  <2>1. newest \in Nat /\ shown \in Nat /\ last \in Nat /\ view \in Nat /\ taken \in Nat
    BY <1>1, MaxVersionAssumption
    DEF RequestsIInv, RequestsTypeOK, FeedIInv, TypeOK, Version, Nothing
  <2>2. last <= shown /\ list[last] = list[world]
    BY <1>1, <2>1 DEF RequestsIInv, FeedIInv, PollerKnows
  <2>3. shown <= view
    BY <1>1 DEF RequestsIInv, BrowserInv
  <2> QED
    BY <1>1, <2>1, <2>2, <2>3 DEF CameBack
<1>2. RequestsIInv => BrowserBehind
  BY <1>1 DEF BrowserBehind
<1> QED
  BY <1>2, RequestsInvariant, PTL

\* Requests about accounts publish in the order of their changes, for userMu is
\* held from the playbook to the lists (createUser and its like).
THEOREM AccountsPublishInOrder == RequestsSpec => AccountsInOrder
<1>1. ASSUME RequestsIInv, [RequestsNext]_allVars, NEW h \in Handlers, watched = "accounts",
             at[h] = "acted", doing[h] = "listed", doing'[h] = "idle"
      PROVE  shown' >= sent
  <2>1. sent <= hand[h]
    BY <1>1 DEF RequestsIInv, SentInv
  <2>2. doing \in [Handlers -> {"idle", "ran", "listed"}]
    BY <1>1 DEF RequestsIInv, FeedIInv, TypeOK
  <2>3. Next
    BY <1>1, StepIsFeedStep DEF vars
  <2>4. ASSUME NEW g \in Handlers, HandlerPublishes(g) PROVE g = h /\ shown' = hand[h]
    BY <1>1, <2>2, <2>4 DEF HandlerPublishes, Show
  <2>5. ASSUME NEW g \in Handlers, HandlerRuns(g) \/ HandlerLists(g) PROVE FALSE
    BY <1>1, <2>2, <2>5 DEF HandlerRuns, HandlerLists
  <2>6. \E g \in Handlers : HandlerPublishes(g)
    BY <1>1, <2>3, <2>5
    DEF Next, Publishing, ChangeElsewhere, Poll, PollLists, PollPublishes, AutosnapRuns,
        AutosnapPublishes
  <2>7. shown' = hand[h]
    BY <2>4, <2>6
  <2>8. sent \in Nat /\ hand[h] \in Nat
    BY <1>1, MaxVersionAssumption
    DEF RequestsIInv, RequestsTypeOK, FeedIInv, TypeOK, Version, Nothing
  <2> QED
    BY <2>1, <2>7, <2>8
<1>2. RequestsIInv /\ [RequestsNext]_allVars =>
        [\A h \in Handlers :
           watched = "accounts" /\ at[h] = "acted" /\ doing[h] = "listed" /\ doing'[h] = "idle" =>
               shown' >= sent]_allVars
  BY <1>1
<1> QED
  BY <1>2, RequestsInvariant, PTL DEF RequestsSpec, AccountsInOrder

\* Takeover and release that succeed undisturbed, and starts that no playbook
\* outlives, leave one in charge, and the status that was published last says
\* who (takeoverAutoSnapshot, releaseAutoSnapshot, publishAutoSnapStatus).
THEOREM OneTakesTheSnapshots == RequestsSpec => []OneInCharge
<1>1. RequestsIInv => OneInCharge
  BY DEF RequestsIInv, HandoverIInv
<1> QED
  BY <1>1, RequestsInvariant, PTL

\* A release gives the daemon back what it had, unless a record was overwritten
\* or not found or calls overlapped (auto_snapshot_release.yml).
THEOREM ReleaseGivesBack == RequestsSpec => []ReleaseRestores
<1>1. RequestsIInv => ReleaseRestores
  BY DEF RequestsIInv, HandoverIInv
<1> QED
  BY <1>1, RequestsInvariant, PTL
=============================================================================
