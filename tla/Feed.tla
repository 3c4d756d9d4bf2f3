-------------------------------- MODULE Feed --------------------------------
(***************************************************************************)
(* One kept topic and those who write it: the poller (internal/broker/     *)
(* poller.go), the handlers that publish a fresh list after each change    *)
(* (publishDatasets and its like in internal/api) and the auto-snapshot    *)
(* runner, which publishes nil on snapshot.query.                          *)
(*                                                                         *)
(* Each change of the listed thing raises its version and may make its     *)
(* list what it was before: the poller compares lists, not versions. Every *)
(* writer lists first and publishes later, without a lock over both.       *)
(***************************************************************************)
EXTENDS Naturals

CONSTANTS
    Handlers,     \* requests that change the listed thing and publish it
    NilPublisher, \* TRUE for snapshot.query: the auto-snapshot runner writes it
    MaxVersion    \* bound: changes

ASSUME MaxVersionAssumption == MaxVersion \in Nat
ASSUME NilAssumption == NilPublisher \in BOOLEAN

VARIABLES
    world,    \* the version that a list taken now would show
    list,     \* the list of each version, by the first version that had it
    shown,    \* the payload kept by the broker: a version, 0 for nil or nothing
    newest,   \* the newest version published so far
    last,     \* the poller's memory of what it published last, 0 for nothing
    seen,     \* what it compared with that last, 0 for nothing
    poller,   \* "idle", or "listed" with a list in hand
    polled,   \* the list in the poller's hand
    doing,    \* per handler: "idle", "ran", "listed"
    hand,     \* the list in each handler's hand
    autosnap, \* "idle" or "ran"
    overtaken \* something older than newest, or nil, was published last

feedVars == <<shown, newest, overtaken>>
pollVars == <<last, seen, poller, polled>>
vars == <<world, list, feedVars, pollVars, doing, hand, autosnap>>

Version == 1 .. MaxVersion + 1
Nothing == 0

TypeOK ==
    /\ world \in Version
    /\ list \in [Version \cup {Nothing} -> Version \cup {Nothing}]
    /\ shown \in Version \cup {Nothing} /\ newest \in Version \cup {Nothing}
    /\ last \in Version \cup {Nothing} /\ seen \in Version \cup {Nothing}
    /\ poller \in {"idle", "listed"} /\ polled \in Version \cup {Nothing}
    /\ doing \in [Handlers -> {"idle", "ran", "listed"}]
    /\ hand \in [Handlers -> Version \cup {Nothing}]
    /\ autosnap \in {"idle", "ran"}
    /\ overtaken \in BOOLEAN

Init ==
    /\ world = 1 /\ list = [v \in Version \cup {Nothing} |-> IF v = 1 THEN 1 ELSE Nothing]
    /\ shown = Nothing /\ newest = Nothing /\ overtaken = FALSE
    /\ last = Nothing /\ seen = Nothing /\ poller = "idle" /\ polled = Nothing
    /\ doing = [h \in Handlers |-> "idle"] /\ hand = [h \in Handlers |-> Nothing]
    /\ autosnap = "idle"

\* Broker.Publish of a list of version v, or of nil
Show(v) ==
    /\ shown' = v
    /\ newest' = IF v > newest THEN v ELSE newest
    /\ overtaken' = (v < newest)

\* To a list that there has not been, or back to one of those before.
Change ==
    /\ world <= MaxVersion /\ world' = world + 1
    /\ \E l \in {world + 1} \cup {list[v] : v \in 1 .. world} :
         l # list[world] /\ list' = [list EXCEPT ![world + 1] = l]

\* Whatever else changes the host: other tools, other requests, time.
ChangeElsewhere ==
    /\ Change
    /\ UNCHANGED <<feedVars, pollVars, doing, hand, autosnap>>

-----------------------------------------------------------------------------
(* The poller *)

\* pollOnce calls the list function; when that fails the topic is left alone
\* until the next round, which is no step here.
PollLists ==
    /\ poller = "idle"
    /\ polled' = world
    /\ poller' = "listed"
    /\ UNCHANGED <<world, list, feedVars, last, seen, doing, hand, autosnap>>

\* publish of runPoller: only a list other than the one it published last itself.
PollPublishesOnce ==
    /\ poller = "listed"
    /\ poller' = "idle" /\ polled' = Nothing
    /\ seen' = polled
    /\ IF last = Nothing THEN last' = polled /\ Show(polled) ELSE UNCHANGED <<last, feedVars>>
    /\ UNCHANGED <<world, list, doing, hand, autosnap>>
PollPublishes ==
    /\ poller = "listed"
    /\ poller' = "idle" /\ polled' = Nothing
    /\ seen' = polled
    /\ IF list[polled] # list[last]
       THEN last' = polled /\ Show(polled)
       ELSE UNCHANGED <<last, feedVars>>
    /\ UNCHANGED <<world, list, doing, hand, autosnap>>

-----------------------------------------------------------------------------
(* The others *)

\* A handler's command or playbook has done its work, which changed what is
\* listed unless it was so already.
HandlerRuns(h) ==
    /\ doing[h] = "idle"
    /\ Change \/ UNCHANGED <<world, list>>
    /\ doing' = [doing EXCEPT ![h] = "ran"]
    /\ UNCHANGED <<feedVars, pollVars, hand, autosnap>>

\* It lists; when that fails it publishes nothing.
HandlerLists(h) ==
    /\ doing[h] = "ran"
    /\ \/ doing' = [doing EXCEPT ![h] = "listed"] /\ hand' = [hand EXCEPT ![h] = world]
       \/ doing' = [doing EXCEPT ![h] = "idle"] /\ UNCHANGED hand
    /\ UNCHANGED <<world, list, feedVars, pollVars, autosnap>>

HandlerPublishes(h) ==
    /\ doing[h] = "listed"
    /\ Show(hand[h])
    /\ doing' = [doing EXCEPT ![h] = "idle"] /\ hand' = [hand EXCEPT ![h] = Nothing]
    /\ UNCHANGED <<world, list, pollVars, autosnap>>

\* processBucket took or pruned snapshots ...
AutosnapRuns ==
    /\ NilPublisher /\ autosnap = "idle"
    /\ Change
    /\ autosnap' = "ran"
    /\ UNCHANGED <<feedVars, pollVars, doing, hand>>

\* ... and publishes nil.
AutosnapPublishes ==
    /\ autosnap = "ran"
    /\ Show(Nothing)
    /\ autosnap' = "idle"
    /\ UNCHANGED <<world, list, pollVars, doing, hand>>

Poll == PollLists \/ PollPublishes
Publishing(h) == HandlerLists(h) \/ HandlerPublishes(h)

Next ==
    \/ ChangeElsewhere \/ Poll
    \/ \E h \in Handlers : HandlerRuns(h) \/ Publishing(h)
    \/ AutosnapRuns \/ AutosnapPublishes

Spec == Init /\ [][Next]_vars

-----------------------------------------------------------------------------

\* When all writers rest, the poller has compared the present list and the kept
\* payload is another one, then either something older came after something
\* newer, or the list has come back to what the poller published last, after
\* another writer published what was in between (runPoller 42 finds no change).
AtRest == poller = "idle" /\ autosnap = "idle" /\ \A h \in Handlers : doing[h] = "idle"
CameBack(v) == list[last] = list[world] /\ last < v
StaleOnlyIfOvertaken ==
    AtRest /\ seen = world /\ list[shown] # list[world] => overtaken \/ CameBack(shown)

\* The poller never believes something published that nobody was sent, nor that
\* there is nothing new where there is (runPoller 34-48).
PollerKnows == last <= newest /\ list[seen] = list[last]

FeedIInv ==
    /\ TypeOK
    /\ newest <= world /\ shown <= newest /\ polled <= world /\ seen <= world
    /\ PollerKnows
    /\ \A h \in Handlers : hand[h] <= world
    /\ ~overtaken => shown = newest

\* Every change is published some time, in its own version or in a later one,
\* unless the poller finds that the list has become what it published last.
ChangeReachesFeed ==
    \A v \in Version : world >= v ~> newest >= v \/ (seen >= v /\ list[seen] = list[last])
=============================================================================
