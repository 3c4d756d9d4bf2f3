---------------------------- MODULE SambaConfig ----------------------------
(***************************************************************************)
(* smb.conf, the options of wsdd, and the daemons that read them.          *)
(*                                                                         *)
(* A request takes smbMu, parses smb.conf, changes its copy and has a      *)
(* playbook deploy all of it and bring the daemons to it (internal/api/    *)
(* smb_handlers.go, internal/smb, playbooks/smb_apply.yml). The playbook   *)
(* is another process: it may fail at any task, and what it has begun may  *)
(* go on after the handler gave up on it or the service died.              *)
(*                                                                         *)
(* Usershares and Samba's users have files of their own and are not here,  *)
(* and neither are refused requests.                                       *)
(***************************************************************************)
EXTENDS Naturals

CONSTANTS
    Requests,    \* requests under way at a time
    Names,       \* names of Time Machine shares
    HomesName,   \* the one of them that Samba gives another meaning
    Reserved,    \* those that are read back as another section, or not at all
    Paths, Groups,
    Unsafe,      \* workgroups that cannot be handed to wsdd
    DefaultGroup,
    None,
    MaxRequests  \* bound: requests started

ASSUME NamesAssumption == HomesName \in Reserved /\ Reserved \subseteq Names
ASSUME GroupsAssumption == DefaultGroup \in Groups /\ Unsafe \subseteq Groups
ASSUME NoneAssumption == None \notin Paths \cup Groups \cup Requests
ASSUME RequestsAssumption == MaxRequests \in Nat

Path == Paths \cup {None}
SMBConfig == [group : Groups, homes : Path, tm : [Names -> Path]]
ASSUME NoFileAssumption == None \notin SMBConfig

VARIABLES
    conf,      \* smb.conf, None where there is none
    loaded,    \* what smbd read last
    dirs,      \* directories that exist
    opts,      \* the workgroup in the options file of wsdd
    wsdd,      \* "none", "off" or "running"
    announced, \* the workgroup wsdd announces while it runs
    lock,      \* the holder of smbMu
    req,       \* the requests
    want,      \* smb.conf, were each deployed change made to what the last one left
    clean,     \* nothing was deployed or installed since a request succeeded
    missed,    \* the last restart of wsdd that was due was not made
    overlap,   \* a request began while a playbook went on that nobody waits for
    started

vars == <<conf, loaded, dirs, opts, wsdd, announced, lock, req, want, clean, missed, overlap,
          started>>
smbVars == <<conf, loaded, dirs>>
wsddVars == <<opts, wsdd, announced>>
ghosts == <<want, clean, missed, overlap>>

Kinds == {"init", "wsdd", "setHomes", "deleteHomes", "createTM", "deleteTM"}
\* "waits" for smbMu, "parses", runs smb_init.yml, "looks" at wsdd, and then the
\* task of smb_apply.yml that comes next.
Tasks == {"dirs", "deploy", "reload", "options", "restart", "done"}
Idle == [pc |-> "idle", kind |-> "wsdd", name |-> HomesName, path |-> None, copy |-> None,
         seen |-> "none", orphan |-> "no"]
Request ==
    [pc : {"idle", "waits", "parses", "inits", "looks"} \cup Tasks, kind : Kinds, name : Names,
     path : Path, copy : SMBConfig \cup {None}, seen : {"none", "off", "running"},
     orphan : {"no", "yes"}]

TypeOK ==
    /\ conf \in SMBConfig \cup {None} /\ loaded \in SMBConfig \cup {None}
    /\ dirs \in SUBSET Paths
    /\ opts \in Groups \cup {None} /\ announced \in Groups \cup {None}
    /\ wsdd \in {"none", "off", "running"}
    /\ lock \in Requests \cup {None}
    /\ req \in [Requests -> Request]
    /\ want \in SMBConfig
    /\ clean \in BOOLEAN /\ missed \in BOOLEAN /\ overlap \in BOOLEAN
    /\ started \in Nat

NoShares == [n \in Names |-> None]
DefaultConfig == [group |-> DefaultGroup, homes |-> None, tm |-> NoShares]

\* Samba may have come with a file, which has homes or not.
Init ==
    /\ conf \in {None} \cup [group : Groups, homes : Path, tm : {NoShares}]
    /\ loaded = conf
    /\ dirs = IF conf = None THEN {} ELSE {conf.homes} \ {None}
    /\ opts = None /\ announced = None /\ wsdd \in {"none", "off"}
    /\ lock = None /\ req = [r \in Requests |-> Idle]
    /\ want = IF conf = None THEN DefaultConfig ELSE conf
    /\ clean = FALSE /\ missed = FALSE /\ overlap = FALSE /\ started = 0

-----------------------------------------------------------------------------
(* Reading and changing the configuration *)

\* parseFromBytes: a share that is named homes is the homes, and one that is
\* named global or printers is none.
Parsed(c) ==
    [group |-> c.group,
     homes |-> IF c.tm[HomesName] # None THEN c.tm[HomesName] ELSE c.homes,
     tm    |-> [n \in Names |-> IF n \in Reserved THEN None ELSE c.tm[n]]]

ParseSMBConfig == IF conf = None THEN DefaultConfig ELSE Parsed(conf)

\* What the request makes of its copy.
Changed(q, c) ==
    [group |-> c.group,
     homes |-> IF q.kind = "setHomes" THEN q.path
               ELSE IF q.kind = "deleteHomes" THEN None ELSE c.homes,
     tm    |-> [n \in Names |->
                  IF n = q.name /\ q.kind = "createTM" THEN q.path
                  ELSE IF n = q.name /\ q.kind = "deleteTM" THEN None ELSE c.tm[n]]]

DirsToCreate(c) == ({c.homes} \cup {c.tm[n] : n \in Names}) \ {None}
WSDDWorkgroup(c) == IF c.group \in Unsafe THEN None ELSE c.group

-----------------------------------------------------------------------------
(* A request under smbMu *)

\* What is asked for: a kind, the share it names and the path it gives.
InitSamba == {<<"init", HomesName, None>>}
ApplyWSDD == {<<"wsdd", HomesName, None>>}
SetSMBHomes == {"setHomes"} \X {HomesName} \X Paths
DeleteSMBHomes == {<<"deleteHomes", HomesName, None>>}
CreateTimeMachineShare == {"createTM"} \X Names \X Paths
DeleteTimeMachineShare == {"deleteTM"} \X Names \X {None}
Asks ==
    InitSamba \cup ApplyWSDD \cup SetSMBHomes \cup DeleteSMBHomes
    \cup CreateTimeMachineShare \cup DeleteTimeMachineShare

\* requireSMBInit looks for the file before the lock is taken, and only init
\* does without.
Begin(r) ==
    /\ req[r].pc = "idle" /\ started < MaxRequests
    /\ started' = started + 1
    /\ \E a \in Asks :
        /\ a[1] # "init" => conf # None
        /\ req' = [req EXCEPT ![r] = [@ EXCEPT !.pc = "waits", !.kind = a[1], !.name = a[2],
                                               !.path = a[3]]]
    /\ UNCHANGED <<smbVars, wsddVars, lock, ghosts>>

Orphans == {r \in Requests : req[r].orphan = "yes"}

LocksUnlocked(r) ==
    /\ req[r].pc = "waits"
    /\ lock' = lock
    /\ req' = [req EXCEPT ![r] = [@ EXCEPT !.pc = "parses"]]
    /\ overlap' = (overlap \/ Orphans # {})
    /\ UNCHANGED <<smbVars, wsddVars, want, clean, missed, started>>
Locks(r) ==
    /\ req[r].pc = "waits" /\ lock = None
    /\ lock' = r
    /\ req' = [req EXCEPT ![r] = [@ EXCEPT !.pc = "parses"]]
    /\ overlap' = (overlap \/ Orphans # {})
    /\ UNCHANGED <<smbVars, wsddVars, want, clean, missed, started>>

\* applyWSDD turns back where there is no wsdd.
Parses(r) ==
    /\ req[r].pc = "parses"
    /\ req[r].kind = "wsdd" => wsdd # "none"
    /\ req' = [req EXCEPT ![r] = [@ EXCEPT !.pc = IF req[r].kind = "init" THEN "inits" ELSE "looks",
                                           !.copy = Changed(req[r], ParseSMBConfig)]]
    /\ UNCHANGED <<smbVars, wsddVars, lock, ghosts, started>>

\* smb_init.yml keeps a copy of the file under another name.
Inits(r) ==
    /\ req[r].pc = "inits"
    /\ req' = [req EXCEPT ![r] = [@ EXCEPT !.pc = "looks"]]
    /\ UNCHANGED <<smbVars, wsddVars, lock, ghosts, started>>

\* applyConfig asks how wsdd is before it starts the playbook.
Looks(r) ==
    /\ req[r].pc = "looks"
    /\ req' = [req EXCEPT ![r] = [@ EXCEPT !.pc = "dirs", !.seen = wsdd]]
    /\ UNCHANGED <<smbVars, wsddVars, lock, ghosts, started>>

-----------------------------------------------------------------------------
(* smb_apply.yml *)

Goto(r, pc) == req' = [req EXCEPT ![r] = [@ EXCEPT !.pc = pc]]

Dirs(r) ==
    /\ req[r].pc = "dirs"
    /\ dirs' = dirs \cup DirsToCreate(req[r].copy)
    /\ Goto(r, "deploy")
    /\ UNCHANGED <<conf, loaded, wsddVars, lock, ghosts, started>>

Deploys(r) ==
    /\ req[r].pc = "deploy"
    /\ conf' = req[r].copy
    /\ want' = Changed(req[r], Parsed(want))
    /\ clean' = FALSE
    /\ Goto(r, "reload")
    /\ UNCHANGED <<loaded, dirs, wsddVars, lock, missed, overlap, started>>

ReloadsOld(r) ==
    /\ req[r].pc = "reload"
    /\ loaded' = IF loaded = None THEN conf ELSE loaded
    /\ Goto(r, IF req[r].seen = "none" THEN "done" ELSE "options")
    /\ UNCHANGED <<conf, dirs, wsddVars, lock, ghosts, started>>
Reloads(r) ==
    /\ req[r].pc = "reload"
    /\ loaded' = conf
    /\ Goto(r, IF req[r].seen = "none" THEN "done" ELSE "options")
    /\ UNCHANGED <<conf, dirs, wsddVars, lock, ghosts, started>>

OptionsAlone(r) ==
    /\ req[r].pc = "options"
    /\ opts' = WSDDWorkgroup(req[r].copy)
    /\ Goto(r, "done")
    /\ UNCHANGED <<smbVars, wsdd, announced, lock, ghosts, started>>

\* A wsdd that runs is restarted when its options changed; whether it runs was
\* asked before.
Options(r) ==
    /\ req[r].pc = "options"
    /\ opts' = WSDDWorkgroup(req[r].copy)
    /\ LET changed == opts' # opts
       IN /\ Goto(r, IF changed /\ req[r].seen = "running" THEN "restart" ELSE "done")
          /\ missed' = (missed \/ (changed /\ wsdd = "running" /\ req[r].seen # "running"))
    /\ UNCHANGED <<smbVars, wsdd, announced, lock, want, clean, overlap, started>>

Restarts(r) ==
    /\ req[r].pc = "restart"
    /\ wsdd' = "running" /\ announced' = opts /\ missed' = FALSE
    /\ Goto(r, "done")
    /\ UNCHANGED <<smbVars, opts, lock, want, clean, overlap, started>>

\* The handler answers, and lets the lock go if it still has it. Where wsdd was
\* installed meanwhile, nobody told it of the workgroup.
Unlocked(r) == IF lock = r THEN None ELSE lock

Ends(r) ==
    /\ req[r].pc = "done"
    /\ req' = [req EXCEPT ![r] = Idle]
    /\ lock' = Unlocked(r)
    /\ clean' = (clean \/ (req[r].orphan = "no" /\ (wsdd = "none" <=> req[r].seen = "none")))
    /\ UNCHANGED <<smbVars, wsddVars, want, missed, overlap, started>>

\* A task fails, or the request is turned back: the rest is not done.
Fails(r) ==
    /\ req[r].pc \in {"parses", "inits", "dirs", "deploy", "reload", "options", "restart"}
    /\ req' = [req EXCEPT ![r] = Idle]
    /\ lock' = Unlocked(r)
    /\ missed' = (missed \/ req[r].pc = "restart")
    /\ UNCHANGED <<smbVars, wsddVars, want, clean, overlap, started>>

\* After the runner's timeout the handler answers with an error; the task that
\* was begun, or more, may still be done.
TimesOut(r) ==
    /\ req[r].pc \in Tasks \ {"done"} /\ req[r].orphan = "no"
    /\ req' = [req EXCEPT ![r] = [@ EXCEPT !.orphan = "yes"]]
    /\ lock' = Unlocked(r)
    /\ UNCHANGED <<smbVars, wsddVars, ghosts, started>>

\* The service dies and is started again, and nobody holds its lock.
Restart ==
    /\ \E r \in Requests : req[r].pc # "idle" /\ req[r].orphan = "no"
    /\ lock' = None
    /\ req' = [r \in Requests |->
                 IF req[r].pc \in Tasks THEN [req[r] EXCEPT !.orphan = "yes"] ELSE Idle]
    /\ UNCHANGED <<smbVars, wsddVars, ghosts, started>>

-----------------------------------------------------------------------------
(* The services tab, and whoever installs a package *)

WsddStarts ==
    /\ wsdd = "off"
    /\ wsdd' = "running" /\ announced' = opts /\ missed' = FALSE
    /\ UNCHANGED <<smbVars, opts, lock, req, want, clean, overlap, started>>
WsddStops ==
    /\ wsdd = "running"
    /\ wsdd' = "off" /\ announced' = None /\ missed' = FALSE
    /\ UNCHANGED <<smbVars, opts, lock, req, want, clean, overlap, started>>
WsddInstalls ==
    /\ wsdd = "none"
    /\ wsdd' = "off" /\ clean' = FALSE
    /\ UNCHANGED <<smbVars, opts, announced, lock, req, want, missed, overlap, started>>

Playbook(r) == Dirs(r) \/ Deploys(r) \/ Reloads(r) \/ Options(r) \/ Restarts(r)
Handles(r) == Parses(r) \/ Inits(r) \/ Looks(r) \/ Playbook(r) \/ Ends(r) \/ Fails(r)

Next ==
    \/ \E r \in Requests : Begin(r) \/ Locks(r) \/ Handles(r) \/ TimesOut(r)
    \/ Restart \/ WsddStarts \/ WsddStops \/ WsddInstalls

Spec == Init /\ [][Next]_vars

-----------------------------------------------------------------------------
(* Properties *)

\* Of two requests neither writes back what the other one changed: smb.conf is
\* what the deployed changes make one after the other, each of what is read back
\* from the last.
NoChangeIsLost == ~overlap /\ conf # None => conf = want

\* After a request has succeeded smbd has what the file says, whatever failed
\* before.
SmbdIsCurrent == clean /\ ~overlap => loaded = conf

\* smbd is never handed a share whose directory was not made first.
DirsComeFirst == loaded # None => DirsToCreate(loaded) \subseteq dirs

\* wsdd, "kept in sync with Samba's workgroup" (README 42): after a request has
\* succeeded it announces another one only if a restart of it failed, or it was
\* started while a request that had seen it stopped was under way.
WsddFollows ==
    clean /\ ~overlap /\ wsdd = "running" /\ ~missed => announced = WSDDWorkgroup(conf)

\* Why: but for an overlap one request at a time is past the lock, with what it
\* makes of the file in hand, and what it has deployed is not yet clean.
Past(r) == req[r].pc \notin {"idle", "waits"}
Deployed(r) == req[r].pc \in {"reload", "options", "restart", "done"}
Holds ==
    \A r \in Requests :
        /\ Past(r) /\ req[r].orphan = "no" => lock = r
        /\ ~Past(r) => req[r].orphan = "no" /\ lock # r
        /\ req[r].orphan = "yes" => lock # r
InHand(r) ==
    /\ req[r].pc \in {"inits", "looks"} \cup Tasks => req[r].copy \in SMBConfig
    /\ req[r].pc \in Tasks \ {"dirs"} => DirsToCreate(req[r].copy) \subseteq dirs
Alone == \A q, r \in Requests : Past(q) /\ Past(r) => q = r
Follows(r) ==
    /\ req[r].pc \in {"inits", "looks", "dirs", "deploy"} =>
        req[r].copy = Changed(req[r], Parsed(want))
    /\ Deployed(r) => ~clean /\ conf = req[r].copy
    /\ req[r].pc \in {"options", "restart", "done"} => loaded = conf
    /\ req[r].pc \in {"restart", "done"} /\ req[r].seen # "none" =>
        conf # None /\ opts = WSDDWorkgroup(conf)
IInv ==
    /\ TypeOK
    /\ Holds
    /\ \A r \in Requests : InHand(r)
    /\ conf # None => DirsToCreate(conf) \subseteq dirs
    /\ DirsComeFirst
    /\ wsdd = "running" /\ ~missed /\ (\A r \in Requests : req[r].pc # "restart") =>
        announced = opts
    /\ conf = None => want = DefaultConfig
    /\ ~overlap =>
        /\ Alone
        /\ conf # None => conf = want
        /\ \A r \in Requests : Follows(r)
        /\ clean => loaded = conf /\ conf # None
        /\ clean /\ wsdd # "none" => opts = WSDDWorkgroup(conf)
=============================================================================
