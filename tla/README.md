# dumpstore in TLA+

dumpstore is a web interface for a ZFS server: one Go process that answers an
HTTP API, runs `zfs`, `zpool` and Ansible playbooks, keeps long transfers going
as background jobs, fires scheduled replication and snapshots, and streams
changes to browsers. This directory holds TLA+ models of the parts of it in
which steps of several actors meet, the TLC runs that check them on small
instances, and proofs that hold for every value of the constants.

`PROJECT.json` is the index: which definition stands for which lines, which run
checks which properties, which mutation of a definition breaks which property,
and which theorem proves what.

## The system

| part | state it keeps | operations | what is hard about it |
|---|---|---|---|
| job manager (`internal/jobs`) | entries with status and final time, one JSON file per job, child processes | `Run`, `RunPipeline`, `Cancel`, `Remove`, `List`, reload at start | request, supervisor, canceller and kernel interleave; files and entries change under different locks; restarts |
| broker (`internal/broker/broker.go`) | subscribers and last payload per topic | `Subscribe`, `Unsubscribe`, `Publish`, `PublishNoCache` | full buffers: drop the subscriber, never block; closing a channel twice |
| event stream (`api/handlers.go` `getEvents`, `static/js/loader.js`) | channels of one connection, merged channel | subscribe, forward, cancel, reconnect | a goroutine per topic; loss and reconnection |
| poller and publishers (`broker/poller.go`, `publish*` of the handlers) | the poller's private memory of what it sent | list then publish | two writers of one cache, each comparing with its own past |
| scheduler (`internal/scheduler`) | registered tasks with a running flag, the tick loop | `Register`, `Unregister`, `Start`, `Stop`, tick | replacing a task that runs; overlap |
| cron expressions (`scheduler/cron.go`) | none | `Parse`, `Matches` | bounds, steps, day-of-week seven |
| replication tasks (`replication/store.go`, `api/replication_handlers.go`) | task table, one JSON file, registrations in the scheduler | create, update, delete, append a run | store and scheduler change under different locks; failed saves |
| replication runs (`replication/runner.go`, `snapshot.go`) | snapshots and holds on the source, snapshots on the target | snapshot, hold, find common, send, release, prune | each step can fail; jobs vanish; overlapping runs; restarts |
| auto-snapshot (`internal/autosnap`) | registered buckets, snapshots by prefix | register, fire, prune, takeover, release | a second daemon that does the same |
| sessions and credentials (`internal/auth`, `api/auth_handlers.go`) | sessions, configuration in memory and in a file | log in, log out, change password or name, `--set-password` | the file is rewritten by playbooks and by a command without a lock; memory follows later; logins under way |
| TLS and ACME (`api/tls_handlers.go`) | certificate paths in memory and in the same file | generate, set, issue, renew | the same |
| Samba (`internal/smb`, `api/smb_handlers.go`, `smb_apply.yml`) | `smb.conf`, the options of `wsdd`, what both daemons have read | initialise, homes, Time Machine shares, apply | requests rewrite one file; playbooks fail half way or go on after a timeout or a restart |
| operation runners (`internal/ops`, `internal/ansible`) | none of their own | run steps, stream progress | failure in the middle of a list of steps, timeouts |
| the handlers that change the host (`api/*_handlers.go`) | `userMu` | validate, run, list, publish | what they change is not always what they publish; partial failure; order of lists |
| the browser's store (`static/js`) | one value per topic | events, REST answers | answers older than events |
| host queries, schema, logging | none | read and parse | stateless |

What makes each part correct:

- job manager: a status that has become terminal stays, agrees with how the
  children ended and with the record; no child outlives its report; what was
  announced is on disk; a running job is supervised and stays listed; a
  cancelled job ends;
- broker and event stream: a subscriber gets a gapless stretch of its topic
  beginning with the present, or learns that it was dropped; nothing stays
  registered or running for a connection that is over; the stream never delivers
  anything older than before and comes to deliver the newest;
- poller and publishers: every change is published, and a stale list has been
  overtaken by another writer or has come back to what the poller knows;
- scheduler: a minute is served once, a registration runs once at a time, `Stop`
  returns; a cron expression matches the minutes that its text says;
- replication tasks: scheduler, memory and file agree; what was deleted does not
  run or come back; what is enabled runs;
- replication runs: every hold is released or known to be given up; the target is
  no older than the history says; no roll-back or pruning takes more than it may;
- auto-snapshot: after a takeover or a release, and after a start, exactly one of
  the daemon and dumpstore takes snapshots, and the daemon gets back what it had;
- credentials and TLS: the file can always be read, memory and file agree at
  rest, and a change of name ends the sessions;
- Samba: no request undoes another, and smbd and `wsdd` follow the file;
- handlers: what was changed is published some time, also when a later step
  failed, and lists of accounts are published in the order of their changes;
- the browser: what it shows at rest is the present list, unless a payload was
  overtaken, an answer came late or a list came back.

The parts meet at few points. The job manager tells its observer of every job it
starts and finishes, and `main.go` passes that on to the broker without caching;
replication starts pipelines in the job manager and polls it for their end;
the scheduler calls replication and auto-snapshot; every writer publishes a fresh
list to the broker; the event stream copies what the broker delivers to browsers.

## Plan

1. `JobManager` with `JobLifecycle`: done, checked and proved.
2. `Broker` with `TopicLog`, `EventStream` (the connection on top of it) and
   `Feed` (poller and handlers, the writers of a topic): done, checked and proved.
3. `Scheduler` and `ReplicationTasks` (store, handlers and the scheduler's
   table), which extends it: done, checked and proved.
4. `ReplicationRun` (snapshots and holds on two pools, jobs that vanish): done,
   checked and proved.
5. `Settings` (dumpstore.conf, memory, sessions; credentials, TLS and ACME) and
   `SambaConfig` (`smb.conf`, smbd and `wsdd`): done, checked and proved.
6. `Handover` (takeover and release of the auto-snapshots) and `Requests` (the
   handlers that change the host, on top of `Feed`, with the browser's store):
   done, checked and proved.
7. `Cron`, the ticks of the auto-snapshot buckets, usershares: not begun.

Every invariant and action property of the passing runs and both refinements are
proved; what remains with TLC is liveness. Worth stating next, and then proving:
an abstract specification of the task store, in which a request is one step.

The modules by what they compose: `Requests` extends `Feed` and `Handover`,
`EventStream` extends `Broker`, `ReplicationTasks` extends `Scheduler`;
`JobManager` and `Broker` have an abstract specification each, `JobLifecycle` and
`TopicLog`. The `MC` modules add the symmetry sets and definitions of the runs.

## JobManager

`JobManager.tla` models `internal/jobs/manager.go`. `sup[j]` is the program
counter of the thread that starts job `j` and of the goroutine that takes over
(`idle`, `leftStarted`, `started`, `registered`, `snapped`, `written`,
`waitLeft`, `waitRight`, `ended`, `final`, `recorded`, `announced`, `done`);
`aborted` is a pipeline whose second child could not be started and `gone` a
thread that died with the service. `entries`, `status` and `finishedAt` are the
table in memory, `disk` the files, `left` and `right` the children, `killer` what
became of the closure that `Cancel` calls, `removing` the gap between
`delete(m.entries, id)` and `os.Remove`, `fired` what the observer was told.

One action is the code between two points at which another thread can be seen:
acquiring a lock, writing a file, calling the observer, waiting for a child.
`PruneLocked` is one step because `m.mu` is held throughout. `Crash` loses
everything but the files and, where `ChildrenDieWithService` is false, the
children (the service manager decides: systemd kills the control group,
`daemon(8)` on FreeBSD does not). `Restart`, `LoadRecord` and `LoadDone` are
`NewManager`, and `Crash` may strike between two records.

`JobLifecycle.tla` is what a client of the API may rely on: a job is new, then
listed as running, then has one terminal status, may be forgotten, and after a
restart the list is rebuilt from the records with `running` turned into
`interrupted`. `ImplementsLifecycle` says that `JobManager` implements it under
the mapping `Serving`, `Fresh`, `View`, `Saved`.

### Runs

| run | instance | shows |
|---|---|---|
| `jobs_two` | two single-command jobs, room for one, one crash, one storage fault | the file agrees with what was announced, retention, a running job stays listed, refinement of `JobLifecycle` |
| `jobs_one` | one job of either kind, two crashes that children survive, one fault, fair goroutines | no child of a finished job, outcome against exits, an announced end stands, nothing unsupervised shown as running, a terminal status stays, recorded outcomes stay, cancelled jobs end, exits are reported, stale records are settled |
| `jobs_pipe_cancel` | one pipeline | **violated**: a pipeline whose left child is gone is not signalled |

Two jobs are enough for every property that relates jobs: only `pruneLocked`
compares jobs with one another, and a limit of one makes every second job
exceed it; what else a property says is about one job, and no step of one job
reads another. A second crash matters only for what the first left on disk,
which one job shows. A storage fault is bounded because the code never retries:
each fault affects one file once. The identifiers are symmetric in `jobs_two`.

Seen in the model and not stated as a property: `Cancel` changes the status at
once but announces and records it only when the child has ended, so a stream
client sees a cancelled job as running for up to the grace period and a crash in
between turns it into an interrupted one; when it comes before the first
announcement (`Run` 209-216) its end is announced twice and its beginning never,
which `ToldEndStands` admits, saying that no other end follows; such a job can
already be removed from the list while its child runs; `finish` then writes the
record of the removed job again (`manager.go` 458; 495-496 says that `Remove`
deletes it), and the job is listed once more after a restart; a child that
survives the service is listed as interrupted while it runs on.

### Fairness

`FairSpec` asks that a goroutine that can take a step takes it (the Go
scheduler), that the ten-second grace period ends, and that the service is
started again after it died (`Restart=on-failure` in
`contrib/dumpstore.service`; on FreeBSD, where `daemon(8)` runs without `-r`,
the administrator does it, and only `StaleRecordIsSettled` depends on it). It
does not ask that a child ends, nor that a client does anything.

### Proofs

`JobManager_proofs` proves `Spec => []IInv` and from it every safety property
and action property of the passing runs, for any finite set of jobs, any limit
and any number of crashes and faults. `IInv` adds to the types, job by job:
`ThreadInv` (what the program counter says of status and snapshot), `FileInv`
(who is listed, what the file holds at each program counter, and that without
faults it equals the entry once `finish` wrote it), `ChildInv` (which children
are known to be gone) and `EventInv` (how many announcements were made).
None of the properties is inductive by itself: that a terminal status stays, for
instance, needs that `finish` only runs on a job that is `running` or `cancelled`,
which needs that no restart brings a supervised job back.

`JobManager_refinement` proves `Spec => ImplementsLifecycle` from the same
invariant: each action of the manager is a step of the life cycle or a stutter.

Only model-checked: the liveness properties (out of the prover's reach).

### Left out

The output tails and their collectors, exit codes, trace spans, and identifiers
(`newID` is taken to be unique). A write is all or nothing because of the
temporary file and the rename. A first child that cannot be started leaves no
trace and is no step. That SIGTERM may end a child is part of `ChildExits`.

## Broker, EventStream and Feed

`Broker.tla` models `internal/broker/broker.go`. A payload is its number on its
topic, so that a gap, a repetition or an exchange is visible. `subs` and `cache`
are the two maps, `buf` and `chan` the channels, `of` the topic of a channel and
`got` what its reader took last; `Publish`, `PublishNoCache`, `Subscribe` and
`Unsubscribe` are one step each because each holds `b.mu`. `Receive` is any
reader. The topics in `Transient` are those that `main.go` and the operation
handlers publish with `PublishNoCache` (`jobs.update`, `ansible.progress`).

`TopicLog.tla` says what a reader may rely on without speaking of buffers: topics
are logs, a reader begins at the present of its topic, takes everything after
that in order, and is cut off only when it is a whole buffer behind. `Log!Spec`
is a property of `Broker`.

`EventStream.tla` puts `getEvents` and the `EventSource` of `loader.js` on top of
the broker. `conn` is the program counter of the handler, `fwd[c][t]` that of the
forwarding goroutine of topic `t`, `merged` the merged channel, `channels` the
handler's map, `cancelled` the context; `tab` is the connection the browser reads
and `delivered` the newest payload that it was given of each topic. A new
connection may be opened while the old one is still unsubscribing. `Recycle`
corresponds to no code: a connection of which nothing runs any more is used for a
later one, so that a run has any number of reconnections.

What the browser shows is more than that: every opening of the stream also runs
`loadAll`, whose answers go to the same keys. That is in `Requests`.

`Feed.tla` looks at one kept topic from the side of those who write it. Each
change of the thing listed raises its version, and its list (`list[v]`, named by
the first version that had it) is a new one or one that there was before: the
poller compares lists. `last` is what it published last, `seen` what it compared
last. The poller, the handlers that publish
after a change and the auto-snapshot runner all list first and publish later. Its
properties are checked by the run `requests`, whose module extends it.

### Runs

| run | instance | shows |
|---|---|---|
| `stream_drop` | two connections, a kept and a transient topic, buffers of one, one break | what the handler subscribed last for a topic does not stay registered after it returned, also where the request names a topic twice; the stream never delivers anything older than before |
| `stream_live` | one connection after the other, the same two topics, one break, fair goroutines | no gaps, refinement of `TopicLog`; the stream comes to deliver the newest payload, also after a drop on one topic, and forwarders end |

Seen in the model and not stated as a property: a request that names one topic
twice (`loader.js` sends none, and `getEvents` does not look) leaves its first
channel registered after the handler has returned, until the broker finds it
full, although `broker.go` 46-47 asks every subscriber to unsubscribe.
`ReturnedIsReleased` is about the last channel of each topic. Such requests are in
`stream_drop` and not in `stream_live`, where the one connection could not be used
again while a channel of it is registered.

The comment at `poller.go` 30 calls `last` the most recently published JSON, which it
is not once a handler has published. So a list that was published late by a
writer that was overtaken stays until the thing changes again; and so does one
that a handler published rightly, when the thing is then restored to what the
poller published before: it finds no change. `StaleOnlyIfOvertaken` and
`BrowserBehind` name both (`overtaken`, `CameBack`) and say that there is no third
way.

Buffers of one make a reader slow after one payload; with the real 64 nothing
else happens, only later, and the proofs hold for any size. Channels meet only in
the list of one topic, where one may be dropped while the other stays: that is
`stream_drop`, in which both connections are subscribed while one of them ends.
Handlers are symmetric, and a stale payload needs one writer that overtakes
another. With the publisher of nil the kept payload of `snapshot.query` may stay
null after a list was published; `StaleOnlyIfOvertaken` counts that as overtaken.

### Fairness

In `EventStream` each goroutine is weakly fair by itself; leaving on
`ctx.Done` is fair apart from the other branches of the main loop because Go's
`select` is fair between ready branches. The browser reconnects (`EventSource`
does, and `startSSE` after five seconds), and the server notices a client that
has left. Publications are not fair.

### Proofs

`EventStream_proofs` begins with the broker: `BrokerSpec => []BrokerIInv` for any
topics, channels and buffer size, and from it that registered channels are open,
that subscribers miss nothing, and that the broker implements `TopicLog`. The
invariant is the conjunction of its parts with the bound of the buffers: none
of them is inductive alone, since who is dropped is read off the buffers, what a
channel holds is counted from what its reader took, and the welcome of a new
subscriber is only right if the cache is.

On top of it stands `Spec => []StreamIInv` for any connections, any requests and
any size of the merged channel. `StreamNeverGoesBack` speaks of what is delivered
alone, but why it holds is spread over the path of a payload: `PathInv` orders
what was delivered, what is merged, what a forwarder has in its hand and what it
took last. When a channel is new, its first payload is the kept one or comes
next, and no tab was given more than was published (`PastInv`). `StageInv` and
`ChannelInv` say that a connection reads its own channels only, and
`ReleaseInv` where in the map an open channel is to be found again by the
deferred calls. The connections call the broker as anybody may
(`StreamUsesBroker`), so that gaplessness and `TopicLog` carry over.
`HandlersRelease` has no hypothesis about requests: the invariant says of each open
channel which place of the request it has, and that the map leads to it if no
later place names its topic.

What is proved of `Feed` is in the section on `Requests`. That registered channels
are open and the parts of the invariants are proved and listed in no run. Only
model-checked: `StreamCatchesUp` and `ForwardersEnd`.

### Left out

Heartbeats, payloads that cannot be marshalled (logged, no effect), unknown topic
names and the flusher check. The REST requests that `loader.js` sends beside the
stream are in `Requests`.

## Scheduler and ReplicationTasks

`Scheduler.tla` models `internal/scheduler/scheduler.go`. A registration is an
object (`*registered`): `tasks` maps an identifier to the object and schedule it
has now, while a tick that collected an older object, or a goroutine that runs
it, still refers to that one. `running[r]` is the flag of the object, `active[r]`
the goroutines that run its function, `due` the slice that `tick` took under the
read lock and `loop` the program counter of the loop. `Collect`, `Fire` and
`ArmTimer` are the parts of one turn; `MinutePasses` is the wall clock, and sets
off the timer if the loop waits for it. `stop`, `started` and `ctxDone` are the
two ways in which the loop ends. A schedule is the set of minutes in which it
matches (`FiresAt`).

`ReplicationTasks.tla` extends it by the store, the handlers and the function
that is registered. `stored` is the table in memory and `file` the JSON file,
both changed in one step because the store saves while it holds its lock and
undoes a change that it could not save, except `AppendRun`, which does not.
`req[c]` is a request between its two steps: `createReplication` and
`updateReplication` store and then register the copy they were given back
(`HandlerRegisters`), `deleteReplication` unregisters and then deletes
(`DeleteStores`). `inside[r]` counts the functions of a registration that found
their task enabled and are executing it (`CallbackRuns`; `CallbackSkips` is the
early return), and `transfers[i]` the runs that `afterJob` waits for. `stray` and
`gone` exist in the model only: requests for the task overlapped or a deletion
failed half way since it was last in order, and its deletion was answered with
success.

### Runs

| run | instance | shows |
|---|---|---|
| `tasks` | one task, two clients, three registration objects, minutes of two kinds | the scheduler has what the store has, deleted tasks stay deleted, no minute is ticked twice |
| `tasks_live` | one task, one client, two objects, fair loop and goroutines | an enabled task runs again and again, `Stop` returns |

One task is enough because tasks meet only in the two tables, in which each has
its own entry, and in the file, which is written as a whole from the table. Two
clients make requests overlap. Three objects are one that is registered, one
that a goroutine runs and one more to register; an object is used again when
nothing refers to it, so a run has any number of registrations. Two kinds of
minutes are those in which a schedule matches and those in which it does not.
Histories and waiting transfers are bounded by one: what `AppendRun` does at the
limit is then its normal case.

`SchedulerMatchesStore` excludes tasks for which requests overlapped, because
then the scheduler may keep the older of two schedules, or run a task that the
store calls disabled; the function that is registered reads the store again, so
that the latter does nothing (`Wanted`). It also excludes a task whose deletion
failed at the save: it is listed as enabled and does not run until it is changed
or the service is restarted. `EnabledTaskKeepsRunning` has the agreement of both
as its hypothesis.

Seen in the model and not stated as a property: the comment on the flag of a
registration (`scheduler.go` 22) says that it "prevents overlapping runs of the same
task", but `Register` replaces the registration of a task that runs by one whose
flag is clear (61). TLC finds two functions of one task executing beside each
other with one client, two objects and one update between two minutes.

### Fairness

Goroutines take their steps and the commands of a run end. The loop leaves its
`select` some time when its channel is closed, although the timer may be ready as
often (strong fairness, because `select` picks at random). A minute of each kind
is not missed for ever: a tick only starts goroutines, so that it does not last
past its minute every time (strong fairness of `Collect` and `ArmTimer` for each
minute). Requests and the end of the context are not fair.

### Proofs

`ReplicationTasks_proofs` proves `Spec => []IInv` and from it the safety and
action properties of `tasks`, for any tasks, schedules, clients and registrations.
`IInv` is the types with `RegInv` (a registration stands under its own identifier,
and its flag says whether it runs), `RequestInv` (scheduler and store agree, or
the one request under way is about to make them) and `FileInv` (the file has the
configuration in memory and no run that memory does not have). Deleted tasks stay
deleted because `used` is never reset, so that nothing but `Create` brings an
entry back. What the flag of a registration guarantees is proved as well and
listed in no run: one registration is run by one goroutine at a time
(`RegistrationsRunOnce`). Only model-checked: the two liveness properties.

### Left out

The clock is never set back: a minute that comes twice would be ticked twice. The
roll-back of `createReplication` is not reached, since the schedule was parsed
before. A save that fails and is undone changes nothing and is no step. `main.go`
does not wait for open requests (`ListenAndServe` returns as soon as `Shutdown` is
called), so that an orderly stop and a crash leave the same behind.

## ReplicationRun

`ReplicationRun.tla` models `execute` and `afterJob` of
`internal/replication/runner.go` over the commands of `snapshot.go`, for one
task and any number of runs at a time. `run[r].pc` says which command comes
next:

| `pc` | code |
|---|---|
| `snapped` | the snapshot exists, `holdSnapshot` is next |
| `held`, `listed` | the two listings of `findLastCommon` |
| `planned` | the arguments are known, `RunPipeline` is next |
| `waiting` | `afterJob` polls the job |
| `pruning`, `destroying` | `pruneTarget` lists, destroys one by one |
| `recording` | `finishRun` |
| `orphan` | no code: the children of a run that is over |

A snapshot is the second in its label. `run[r].job` is the status that the job
manager shows and `run[r].transfer` what the children do, since a cancelled job
or one whose service died may still transfer. `src`, `held` and `dst` are what
the pools have, and `newest` the newest snapshot that the history calls a
success. Three variables exist in the model only: `crowded`, the runs that
overlapped with another; `leaked`, the holds that nobody is going to release;
`lost`, the newest snapshot that a run which was not alone rolled back.

`Receive` is `zfs send -i` into `zfs recv -F`: what is newer than the base goes.
`DestroySource` is any tool that destroys a snapshot without hold, and
`ReleaseHoldsFor` the handler that releases our holds first. `StartUp` is
`releaseOrphanedHolds`.

### Runs

| run | instance | shows |
|---|---|---|
| `repl` | two runs at a time in two seconds after an undisturbed one, one snapshot kept | holds have owners, the target keeps up, an undisturbed roll-back destroys nothing shared |
| `repl_live` | one run at a time in three seconds, one snapshot kept | a hold is released or given up for the next start |

Two runs overlap in every way in which one can be between two commands of the
other. Two seconds give each its label, and a third run of the same second is
refused as `zfs snapshot` refuses it. The undisturbed run before fills the target
up to what is kept, so that every success prunes; keeping two after two
undisturbed runs was checked as well and takes several times as long. `ByHand` is true:
a run by hand may join a scheduled one.

Seen in the model and not stated as a property: the scheduler's running flag
covers the function that `register` gives it, and that returns as soon as the
transfer is dispatched (`runner.go` 263-266), so that also without runs by hand
two transfers of a task may go on at once, where `scheduler.go` 29-31 speaks of
avoiding to stack them up.

### Fairness

A run's goroutine goes on and its commands end; the manager notices that
children have ended. That transfers end is no fairness of the code and stands in
`HoldIsSettled` as a hypothesis. The property does not say that every hold is
released: `afterJob` gives it up when its job has been removed from the list
(`runner.go` 281-283, though 288 says "Release the hold either way") or the release
fails, and it then stays until `releaseOrphanedHolds` at the next start.

### Proofs

`ReplicationRun_proofs` proves `Spec => []IInv`, for any number of runs, any
retention and any clock, and from it that holds have owners and that the
roll-back of an undisturbed run takes nothing that the source still has. The
latter is not inductive: when the transfer is received, the base was chosen
long before, from two listings of different times. `PlanInv` says that for a
run that is alone what it listed is still all there is, and that nothing that
both pools have is newer than the base; `AloneInv` is needed so that no step of
another run is between.

That the target keeps up with the history (`TargetFollowsHistory`) needs a second
invariant on top, `TargetInv`. The history is behind the clock, and a run that is
alone has a snapshot that is no older than the history (`AheadInv`), since whoever
was to record a newer one would still be under way. A job that succeeded has
received (`JobInv`). What was received stays on the target or is followed by
something newer (`ReachInv`): a transfer of a run that is alone puts something
newer there, what another one rolls back is remembered in `lost`, and what is
listed for pruning is older than something that is not pruned, also when two
runs prune at once or a transfer comes between the listing and the command
(`Passed`). That something is to be kept at all is a hypothesis of the property:
a `RetentionCount` of 0, which the API accepts, destroys after each success all
that was received, and no part of the invariant speaks of the target then.

Only model-checked: `HoldIsSettled`.

### Left out

One task is modelled; two tasks on one source ask for one label when they run
in the same second. Raw, recursive and remote transfers are the same steps with
other arguments. Nobody but the runs changes the target. Reading the clock and
creating the snapshot is one step. That the context of a scheduled run ends is
its crash.

## Settings

`Settings.tla` is dumpstore.conf (`file`), the path it is replaced by (`tmp`), the
`Config` in memory (`mem`) and the sessions. A change is a request with a program
counter: `out` has yet to run its playbook, `read` has a copy of the file,
`opened` has truncated the temporary file, `written`, `renamed`; then
`PasswordTakes`, `NameTakes` with `DeleteAll`, or `CertTakes` set the memory, as
the handlers do after `runOp`. `SetPassword` is the command in another process,
with the steps of `SaveConfig`. The playbooks open and rename one fixed path, so
of two changes one may write into a file that the other has already renamed (`fd`,
`Moved`) or over what the other wrote (`Over`). `Dies` loses the memory and may
leave playbooks going on (`orphan`), and so does the runner's timeout
(`TimesOut`), which kills `ansible-playbook` but not the Python that it has begun.
`Fails` is an error at any step, also after the rename. `Starts` reads the file,
and does not happen when the file is not JSON, for `main` then exits.

A configuration is the name, the hash, where the certificate lies, and whether a
domain for its renewal is stored; the last is set in memory only.

| run | instance | shows |
|---|---|---|
| `settings` | two changes at a time, three in all, two names and two hashes, no trusted proxy, any number of deaths and logins | memory is what a restart would read, a change of name ends the sessions, the file is always whole |

Two changes meet in every step, and the third is one that begins after they met.
Three kinds of "otherwise" are counted by variables of the model: `crossed` (two
changes were under way at once), `behind` (the file was replaced without the
memory: by the command, or by a playbook whose handler had died, had given up
waiting or got an error after the rename), and `late` (names of logins checked
before a change of name and stored after it). The properties say that nothing
else goes wrong; what they name does happen.

`Settings_proofs` proves `Spec => []IInv` and the three properties for any
number of requests, users and hashes. The invariant says of a change that is
alone that its copy is the file as it is, that the temporary file is its own,
and that file and memory differ by what is yet to be taken; nothing of that is
visible in the properties, and without it none is preserved by `Rename` or by
the steps that set the memory.

Seen in the model and not stated as a property: the settings of ACME are set in
memory when a certificate is issued (`tls_handlers.go` 233-240) and stored
nowhere, since `tls_set_config.yml` does not know them (`acme` in `Conf`, which
`Stored` does not compare), although `Config` (`config.go` 34-50) has them; after
a restart a renewal is refused. A password that was verified may have been
replaced when the new one is stored, if two changes cross.

Left out: the rate limiter, which counts per address and answers before the
check; the form of requests; expiry as time (`SessionEnds` may happen any time);
renewal, which changes neither file nor memory. `handleLogin` reads the memory
without the lock; that it might see half of a name is not modelled.

## SambaConfig

`SambaConfig.tla` is `smb.conf` (`conf`), what smbd read last (`loaded`), the
directories of shares, the options file of `wsdd`, and what `wsdd` announces. A
request takes `smbMu` (`Locks`), parses the file (`Parsed`: a share named `homes`
is read back as the homes, one named `global` or `printers` as none), changes its
copy (`Changed`), looks at `wsdd` and runs `smb_apply.yml`, one action per task:
`Dirs`, `Deploys`, `Reloads`, `Options`, `Restarts`. `Fails` is a failure at any
task; `TimesOut` and `Restart` leave a playbook that nobody waits for (`orphan`),
and the lock is free. The services tab and the package manager start, stop and
install `wsdd` at any time.

| run | instance | shows |
|---|---|---|
| `samba` | two requests at a time, three in all, two share names of which one is reserved, one path, a workgroup that `wsdd` takes and one that it does not | no deployed change is lost, smbd has the file after a success, so has `wsdd` |

`want` in the model is what the deployed changes make of the file one after the
other. Two requests meet at the lock and at each task; the third finds what an
orphan, a failure or a restart left. The properties exclude a request that began
while an orphan went on (`overlap`) and a restart of `wsdd` that was due and
failed (`missed`).

`SambaConfig_proofs` proves `Spec => []IInv`, the three properties, and that
directories exist before smbd reads a share on them (`DirsComeFirst`), for any
number of requests, names and groups. The invariant ties the lock to who is past
it (`Holds`, `Alone`) and says what each task has brought about (`Follows`); the
`clean` of the properties is true only after the last task, so that a request
which fails earlier does not count.

Seen in the model and not stated as a property: a Time Machine share may be
named `homes`, and the next request makes the homes of it; a restart of `wsdd`
that failed is not made up for by the next request, because the options file has
not changed then; `wsdd` started by hand between the look and the playbook keeps
the old workgroup.

Left out: usershares and Samba users, which have their own files, and all options
of a share but its path.

## Handover and Requests

`Handover.tla` is who takes the auto-snapshots of a Linux host. `enabled` are the
timers of the daemon, `cron` its entry, `record` the file in which takeover keeps
the timers it disables, `registered` dumpstore's buckets, `told` the status
published last. Takeover is `Scans`, `Records`, `Disables`, `RenamesCron` and then
`Registers`; `Release` unregisters first and is then `RestoresCron`, `Reads`,
`Enables`, `Forgets`; both end with `Looks` and `Tells`. Nothing keeps two of them
apart, any task may fail or be left behind by the runner's timeout
(`TimesOut`), and a start of the service registers the buckets where
no daemon is active, while playbooks go on.

`Requests.tla` extends it and `Feed`. Each handler is a plan: the topics whose
lists it changes, those it publishes, and whether it holds `userMu`; the plans
are read off the handlers. A request that is valid, finds what it is about and gets
the lock acts (`Acts`), and publishes (`Succeeds`, `Publishes`) or ends without
(`EndsUnpublished`: a failure after part of the work, or a plan that does not
publish); one that is refused or waits has done nothing and is no step. The
browser takes what the stream delivers (`Delivers`), once more when a connection
begins with it, and stores what it fetched (`LoadsAll`, `Stores`).

One topic is watched, chosen at the start, and other requests make no step. For
`autosnap` only takeover and release move, and for the other topics they do not.
`pool.query` and `poolstatus` are one topic, and so are users and groups, because
they are published together.

| run | instance | shows |
|---|---|---|
| `requests` | two requests at a time and three versions on each topic; two takeovers or releases at a time and three in all, with two timers | a stale payload has been overtaken or the list came back to what the poller had published, the browser is behind only by that or a late answer, every change is published in some version unless the poller finds it undone, lists of accounts come in order; one is in charge, release restores |

Handlers are symmetric and a stale list needs two of them, or one and the poller;
three versions are a list, another one, and the first again or a third. The
configuration leaves out the topics of pools, datasets, services and auto-snapshot
properties, for what the plans do to them is what some plan does to snapshots.
Three calls are a takeover, a repetition that meets it, and a release.

Fairness is the poller's ticker alone: `ChangeIsPublished` holds without any of
the handlers going on. It is what carries the operations that change a list and do
not publish it: `sendSnapshot` and `rewriteDataset`, whose job ends later,
`setACLEntry`, services, `createDataset` and its like for the auto-snapshot
properties, and a batch that failed in part.

Seen in the models and not stated as properties. A takeover that failed after some
timers were disabled and is tried again overwrites the record with those that
are left, so that release does not enable the others; the comment in
`auto_snapshot_takeover.yml` 18-19 speaks of a second takeover that finds nothing
enabled, and then the record is kept indeed. The takeover of a daemon that has
no enabled timer writes no record, and release then enables all installed ones.
`ReleaseRestores` excludes these (`muddled`). A release that fails leaves nobody in
charge until it is tried again, `OneInCharge` is about calls that succeeded.

`Requests_proofs` proves first, for `Feed` alone, `Spec => []FeedIInv` and that at
rest a stale payload has been overtaken or the list has come back, and then
`RequestsSpec => []RequestsIInv` for any number of handlers, calls and timers,
whichever topic is watched. Each step of a request is one of `Feed` or leaves it
alone. `BrowserInv` ties what the browser has to the last payload and the last
answer; `LockInv` says who is inside `userMu` and that only those publish
accounts, and `SentInv`, that nobody has an older list of accounts in hand,
follows from it and is needed for `AccountsInOrder`. `HandoverIInv` is by parts:
what a call that is alone has brought about so far (`AloneInv`), that the record
says what there was while nothing is muddled (`RecordInv`), and what the call
under way knows of it (`UnmuddledInv`). The two properties say nothing of calls
that are not over, so without these none of the tasks of a playbook preserves
them. Only model-checked: `ChangeIsPublished`.

Left out: FreeBSD's periodic.conf, which is one line; the order of the answers to
several fetches under way; operations that change nothing a topic lists (quotas,
ownership, scrub schedules, SSH keys, removal of ACL entries, iSCSI).

## Bounds

Every bound is a constant that is named in its module: `Retain`, `MaxCrashes`,
`MaxFaults`, `Cap`, `MergedCap`, `MaxPublishes`, `MaxBreaks`, `MaxVersion`,
`MaxCalls`, `MaxChanges`, `MaxRequests`, `MaxRunHistory`, `MaxTransfers`,
`MaxClock`. Deadlock is checked in `samba` and `requests`. The other runs set
`CHECK_DEADLOCK FALSE`, because a system whose jobs, publications or seconds are
used up, or whose service cannot start again, stops.

The inductive invariants (`IInv` of `JobManager`, `ReplicationTasks`,
`ReplicationRun`, `Settings` and `SambaConfig`, `TargetInv`, `BrokerIInv`,
`StreamIInv`, `FeedIInv`, `HandoverIInv`, `RequestsIInv`) contain the types of their
modules. They stand in no configuration, since they are proved; TLC checked each
of them on the instance of its run before.

The proofs assume of the constants only what the modules name: limits are
natural numbers, `NoConn`, `NoRecord` and their like are no values of the sets
they are kept apart from, requests are sequences of topics. TLC evaluates these
assumptions in every run.

## Not modelled

- Cron expressions (`scheduler/cron.go`): a pure function of a string; the runs
  use sets of minutes instead. A 7 in the field of the day of the week is
  replaced before steps and ranges are read, which only reading the code shows.
- The ticks of the auto-snapshot buckets, their labels and their pruning: one
  bucket run is a change of the list of snapshots here.
- Usershares, iSCSI, SSH keys, ACL removal, quotas, ownership, scrub schedules:
  each validates its input and runs one command or playbook, and no other part
  keeps state about it.
- Queries of the host, the schema, logging, metrics and tracing, the parsing of
  certificates, password hashing, the rate limiter, and the rendering of pages:
  nothing in them takes more than one step or meets another actor.
- A clock that is set back. Two tasks with one source that fire in the same
  second ask for one label, of which one is refused; the model of replication
  has one task.

The tasks of `smb_apply.yml`, `smb_init.yml`, `auto_snapshot_takeover.yml`,
`auto_snapshot_release.yml`, `auth_set_password.yml`, `auth_set_username.yml` and
`tls_set_config.yml` are modelled; the other playbooks are run by another program
and appear as steps that succeed or fail. Out of the prover's reach and left to
TLC are the liveness properties.
