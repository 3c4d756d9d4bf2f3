------------------------------ MODULE Requests ------------------------------
(***************************************************************************)
(* The requests that change the host, with those who tell the browser of   *)
(* it: what each handler of internal/api changes and which lists it then   *)
(* publishes (runOp, runLocal, publishDatasets and its like), the poller   *)
(* and the auto-snapshot runner (Feed), takeover and release (Handover),   *)
(* and the browser, which also fetches (static/js/loader.js).              *)
(*                                                                         *)
(* One topic is watched. A request is a plan: the topics whose lists its   *)
(* playbook or commands change, those it publishes when they have          *)
(* succeeded, and whether it holds userMu meanwhile. pool.query and        *)
(* poolstatus are one topic here, "pools", for they are published          *)
(* together; user.query and group.query are "accounts".                    *)
(***************************************************************************)
EXTENDS Feed, Handover, Sequences

CONSTANT Topics \* those watched

Listed == {"pools", "datasets", "snapshots", "autosnapshot", "accounts", "services"}

ASSUME TopicsAssumption == Topics \subseteq Listed \cup {"autosnap"}

VARIABLES
    watched, \* the topic
    plan,    \* per request: what it does to the watched topic
    at,      \* "free", "acting", "acted": the operation has succeeded
    sent,    \* the newest list of accounts that a request published
    view,    \* what the browser shows: a version, or Nothing
    taken,   \* the payload delivered to it last
    answer,  \* what it fetched and has not put in its store: <<>> or <<version>>
    late     \* it fetched, and then replaced something newer

requestVars == <<plan, at, sent>>
browserVars == <<view, taken, answer, late>>
allVars == <<vars, handoverVars, watched, requestVars, browserVars>>

-----------------------------------------------------------------------------
(* The handlers *)

Runs(changes, publishes) == [locks |-> FALSE, changes |-> changes, publishes |-> publishes]
UnderUserMu(p) == [p EXCEPT !.locks = TRUE]

\* What changes is what the lists show of the thing itself: the space that it
\* takes in a dataset or a pool, and what other tools do, changes elsewhere.

\* zfs_handlers.go; sendSnapshot and rewriteDataset answer when their job has begun.
SetDatasetProps == Runs({"datasets"}, {"datasets"})
CreateDataset == Runs({"datasets", "autosnapshot"}, {"datasets"})
CreateSnapshot == Runs({"snapshots"}, {"snapshots"})
RenameDataset == Runs({"datasets", "snapshots", "autosnapshot"}, {"datasets", "snapshots"})
DeleteDataset == Runs({"datasets", "snapshots", "autosnapshot"}, {"datasets"})
CloneSnapshot == Runs({"datasets", "snapshots", "autosnapshot"}, {"datasets", "snapshots"})
SendSnapshot == Runs({"datasets", "snapshots", "autosnapshot"}, {})
RewriteDataset == Runs({"datasets"}, {})
DeleteSnapshot == Runs({"snapshots"}, {"snapshots"})
DeleteSnapshotBatch == Runs({"snapshots"}, {"snapshots"})
StartScrub == Runs({"pools"}, {"pools"})
CancelScrub == Runs({"pools"}, {"pools"})
SetAutoSnapshotProps == Runs({"datasets", "autosnapshot"}, {"datasets", "autosnapshot"})

\* pool_handlers.go and device_handlers.go
CreatePool == Runs({"pools", "datasets", "autosnapshot"}, {"pools", "datasets"})
AddPoolDevices == Runs({"pools"}, {"pools"})
RemovePoolDevice == Runs({"pools"}, {"pools"})
ImportPool == Runs({"pools", "datasets", "snapshots", "autosnapshot"}, {"pools", "datasets"})
ExportPool == Runs({"pools", "datasets", "snapshots", "autosnapshot"}, {"pools", "datasets"})
ReplaceDevice == Runs({"pools"}, {"pools"})
SetDeviceState == Runs({"pools"}, {"pools"})

\* acl_handlers.go, whose playbook sets acltype once more, and service_handlers.go
SetACLEntry == Runs({"datasets"}, {})
MutateService == Runs({"services"}, {})

\* user_handlers.go: what exists is looked up before userMu is taken.
CreateUser == UnderUserMu(Runs({"accounts"}, {"accounts"}))
DeleteUser == UnderUserMu(Runs({"accounts"}, {"accounts"}))
ModifyUser == UnderUserMu(Runs({"accounts"}, {"accounts"}))
CreateGroup == UnderUserMu(Runs({"accounts"}, {"accounts"}))
DeleteGroup == UnderUserMu(Runs({"accounts"}, {"accounts"}))
ModifyGroup == UnderUserMu(Runs({"accounts"}, {"accounts"}))

\* smb_handlers.go: passwords that no topic lists, under the same lock
AddSambaUser == UnderUserMu(Runs({}, {}))
RemoveSambaUser == UnderUserMu(Runs({}, {}))

Handled ==
    {SetDatasetProps, CreateDataset, CreateSnapshot, RenameDataset, DeleteDataset, CloneSnapshot,
     SendSnapshot, RewriteDataset, DeleteSnapshot, DeleteSnapshotBatch, StartScrub, CancelScrub,
     SetAutoSnapshotProps, CreatePool, AddPoolDevices, RemovePoolDevice, ImportPool, ExportPool,
     ReplaceDevice, SetDeviceState, SetACLEntry, MutateService, CreateUser, DeleteUser, ModifyUser,
     CreateGroup, DeleteGroup, ModifyGroup, AddSambaUser, RemoveSambaUser}

\* What a plan means to the watched topic
OnTopic(p) ==
    [locks |-> p.locks /\ watched = "accounts",
     changes |-> watched \in p.changes, publishes |-> watched \in p.publishes]
NoPlan == OnTopic(Runs({}, {}))

\* At first dumpstore takes the auto-snapshots, where takeover is not the topic.
RequestsInit ==
    /\ Init
    /\ watched \in Topics
    /\ HandoverInit
    /\ watched # "autosnap" => enabled = {} /\ cron = "none"
    /\ plan = [h \in Handlers |-> NoPlan] /\ at = [h \in Handlers |-> "free"]
    /\ sent = Nothing
    /\ view = Nothing /\ taken = Nothing /\ answer = <<>> /\ late = FALSE

-----------------------------------------------------------------------------
(* A request *)

\* The deferred Unlock comes after the lists are published.
UserMuFreeOnceRun == \A g \in Handlers : plan[g].locks => at[g] # "acting"
UserMuFree == \A g \in Handlers : plan[g].locks => at[g] \notin {"acting", "acted"}

\* Its input is valid, what it is about is there, it has userMu if it needs it,
\* and it has to do with the topic: what goes on before or besides is no step.
Acts(h) ==
    /\ at[h] = "free"
    /\ \E p \in Handled :
        /\ OnTopic(p) # NoPlan
        /\ OnTopic(p).locks => UserMuFree
        /\ plan' = [plan EXCEPT ![h] = OnTopic(p)]
    /\ at' = [at EXCEPT ![h] = "acting"]
    /\ UNCHANGED <<vars, sent>>

Leaves(h) == at' = [at EXCEPT ![h] = "free"] /\ plan' = [plan EXCEPT ![h] = NoPlan]

\* It ends without publishing: a task or a command fails or takes too long, what
\* was done before stays (a batch even goes on), or none of its lists is this one.
EndsUnpublished(h) ==
    /\ at[h] = "acting"
    /\ (plan[h].changes /\ ChangeElsewhere) \/ UNCHANGED vars
    /\ Leaves(h)
    /\ UNCHANGED sent

Succeeds(h) ==
    /\ at[h] = "acting" /\ plan[h].publishes
    /\ HandlerRuns(h)
    /\ at' = [at EXCEPT ![h] = "acted"]
    /\ UNCHANGED <<plan, sent>>

\* It lists, publishes and answers; when it cannot list it answers.
Publishes(h) ==
    /\ at[h] = "acted"
    /\ Publishing(h)
    /\ sent' = IF doing[h] = "listed" /\ watched = "accounts" /\ hand[h] > sent
               THEN hand[h] ELSE sent
    /\ IF doing'[h] = "idle" THEN Leaves(h) ELSE UNCHANGED <<at, plan>>

Request(h) == Acts(h) \/ EndsUnpublished(h) \/ Succeeds(h) \/ Publishes(h)

-----------------------------------------------------------------------------
(* The browser *)

\* The stream delivers what is kept, of several payloads at least the last, and
\* once more where a connection begins with it. A null is ignored.
DeliversWhenIdle ==
    /\ taken' = shown
    /\ view' = IF shown = Nothing \/ answer # <<>> THEN view ELSE shown
    /\ late' = (late /\ shown = Nothing)
    /\ UNCHANGED answer
Delivers ==
    /\ taken' = shown
    /\ view' = IF shown = Nothing THEN view ELSE shown
    /\ late' = (late /\ shown = Nothing)
    /\ UNCHANGED answer

\* loadAll asks for the list whenever the stream is opened, or cannot be.
LoadsAll ==
    /\ answer = <<>>
    /\ answer' = <<world>>
    /\ UNCHANGED <<view, taken, late>>

\* It is put in the store when all answers are there, unless it is an error.
Stores ==
    /\ answer # <<>>
    /\ answer' = <<>>
    /\ \/ view' = Head(answer) /\ late' = (Head(answer) < view)
       \/ UNCHANGED <<view, late>>
    /\ UNCHANGED taken

-----------------------------------------------------------------------------

Elsewhere == ChangeElsewhere /\ UNCHANGED <<requestVars, browserVars>>
Polls == Poll /\ UNCHANGED <<requestVars, browserVars>>
Autosnaps ==
    /\ watched = "snapshots" /\ registered
    /\ AutosnapRuns \/ AutosnapPublishes
    /\ UNCHANGED <<requestVars, browserVars>>

WatchesList ==
    /\ watched \in Listed
    /\ \/ Elsewhere \/ Polls \/ Autosnaps
       \/ (\E h \in Handlers : Request(h)) /\ UNCHANGED browserVars
       \/ (Delivers \/ LoadsAll \/ Stores) /\ UNCHANGED <<vars, requestVars>>
    /\ UNCHANGED <<handoverVars, watched>>

WatchesHandover ==
    /\ watched = "autosnap"
    /\ HandoverNext
    /\ UNCHANGED <<vars, watched, requestVars, browserVars>>

RequestsNext == WatchesList \/ WatchesHandover

\* The poller's ticker goes on.
RequestsSpec ==
    /\ RequestsInit /\ [][RequestsNext]_allVars
    /\ WF_allVars(watched \in Listed /\ Polls /\ UNCHANGED <<handoverVars, watched>>)

-----------------------------------------------------------------------------

\* Whatever fails, is not published or comes in another order: each change of a
\* list is published some time, in its own version or a later one, or the poller
\* finds the list as it published it last.
ChangeIsPublished == watched \in Listed => ChangeReachesFeed

\* Requests about accounts publish in the order of their changes: none replaces
\* the list of another by an older one, as handlers without a lock may (userMu,
\* held from the playbook to the lists: createUser 85-103 and its like).
AccountsInOrder ==
    [][\A h \in Handlers :
         watched = "accounts" /\ at[h] = "acted" /\ doing[h] = "listed" /\ doing'[h] = "idle" =>
             shown' >= sent]_allVars

\* When all is quiet, the poller has compared the present list and the browser
\* shows another one, then an older payload was published after a newer one, an
\* answer to a fetch was stored after a newer payload (loader.js 189, 214), or
\* the list has come back to what the poller published before the one shown.
BrowserBehind ==
    /\ AtRest /\ seen = world /\ taken = shown /\ answer = <<>>
    /\ list[view] # list[world]
    => overtaken \/ late \/ CameBack(view)
-----------------------------------------------------------------------------
(* Why they hold *)

Plan == [locks : BOOLEAN, changes : BOOLEAN, publishes : BOOLEAN]
RequestsTypeOK ==
    /\ watched \in Topics
    /\ plan \in [Handlers -> Plan]
    /\ at \in [Handlers -> {"free", "acting", "acted"}]
    /\ sent \in Version \cup {Nothing}
    /\ view \in Version \cup {Nothing} /\ taken \in Version \cup {Nothing}
    /\ answer \in {<<>>} \cup {<<v>> : v \in Version}
    /\ late \in BOOLEAN

\* What is left in the browser after a payload is no older than the payload,
\* unless an older answer came after it; and the answer that follows such a one
\* was asked for later.
BrowserInv ==
    /\ view <= world /\ taken <= newest
    /\ late \/ taken <= view
    /\ answer # <<>> => Head(answer) <= world /\ (late => taken <= Head(answer))

\* A request has a list in hand only while it publishes, and whoever publishes
\* accounts has userMu, alone.
InUserMu(h) == plan[h].locks /\ at[h] \in {"acting", "acted"}
LockInv ==
    /\ \A h \in Handlers : doing[h] # "idle" <=> at[h] = "acted"
    /\ \A h \in Handlers : at[h] = "acted" => plan[h].publishes
    /\ watched = "accounts" => \A h \in Handlers : plan[h].publishes => plan[h].locks
    /\ \A g, h \in Handlers : InUserMu(g) /\ InUserMu(h) => g = h

\* So nobody publishes accounts between the list that it took and its payload.
SentInv ==
    /\ sent <= world
    /\ watched = "accounts" => \A h \in Handlers : doing[h] = "listed" => sent <= hand[h]

RequestsIInv ==
    /\ FeedIInv /\ HandoverIInv
    /\ RequestsTypeOK /\ BrowserInv /\ LockInv /\ SentInv
=============================================================================
