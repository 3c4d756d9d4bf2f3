------------------------- MODULE SambaConfig_proofs -------------------------
(***************************************************************************)
(* No change of smb.conf is lost, and smbd and wsdd follow it, as long as  *)
(* no request begins while a playbook goes on that nobody waits for; and   *)
(* never is smbd handed a directory that was not made.                     *)
(***************************************************************************)
EXTENDS SambaConfig, TLAPS

USE DEF Path, Kinds, Tasks, smbVars, wsddVars, ghosts, Unlocked

LEMMA ParsedType ==
    ASSUME NEW c \in SMBConfig
    PROVE  Parsed(c) \in SMBConfig
<1>1. c.group \in Groups /\ c.homes \in Path /\ c.tm \in [Names -> Path]
  BY DEF SMBConfig
<1>2. c.tm[HomesName] \in Path
  BY <1>1, NamesAssumption
<1>3. [n \in Names |-> IF n \in Reserved THEN None ELSE c.tm[n]] \in [Names -> Path]
  BY <1>1
<1> QED BY <1>1, <1>2, <1>3 DEF Parsed, SMBConfig

LEMMA ChangedType ==
    ASSUME NEW q \in Request, NEW c \in SMBConfig
    PROVE  Changed(q, c) \in SMBConfig
BY DEF Changed, SMBConfig, Request

LEMMA DefaultType == DefaultConfig \in SMBConfig /\ Parsed(DefaultConfig) = DefaultConfig
BY GroupsAssumption, NamesAssumption DEF DefaultConfig, NoShares, SMBConfig, Parsed

LEMMA IdleType == Idle \in Request /\ Idle.pc = "idle" /\ Idle.orphan = "no"
BY NamesAssumption DEF Idle, Request

LEMMA Typed ==
    ASSUME IInv
    PROVE  TypeOK /\ req \in [Requests -> Request] /\ \A r \in Requests : req[r] \in Request
BY DEF IInv, TypeOK

\* Where one request is past the lock, no other one is.
LEMMA RestIsOutside ==
    ASSUME IInv, ~overlap, NEW r \in Requests, Past(r)
    PROVE  \A q \in Requests \ {r} : ~Past(q)
BY DEF IInv, Alone

\* Who is outside has nothing to follow.
LEMMA OutsideFollows ==
    ASSUME NEW q \in Requests, req'[q].pc \in {"idle", "waits"}
    PROVE  Follows(q)'
BY DEF Follows, Deployed

LEMMA OutsideHolds ==
    ASSUME NEW q \in Requests, req'[q].pc \in {"idle", "waits"}
    PROVE  InHand(q)'
BY DEF InHand

\* A step of r alone, that keeps the directories or adds to them.
LEMMA InHandKept ==
    ASSUME IInv, NEW r \in Requests, NEW new \in Request, req' = [req EXCEPT ![r] = new],
           dirs \subseteq dirs', InHand(r)'
    PROVE  \A q \in Requests : InHand(q)'
<1>1. ASSUME NEW q \in Requests, q # r PROVE InHand(q)'
  <2>1. req'[q] = req[q]
    BY <1>1, Typed
  <2> QED BY <1>1, <2>1 DEF IInv, InHand
<1> QED BY <1>1

\* Of a step of r past the lock, the others have nothing to follow either.
LEMMA FollowsKept ==
    ASSUME IInv, NEW r \in Requests, Past(r), NEW new \in Request,
           req' = [req EXCEPT ![r] = new], ~overlap, Follows(r)'
    PROVE  \A q \in Requests : Follows(q)'
<1>1. ASSUME NEW q \in Requests, q # r PROVE Follows(q)'
  <2>1. req'[q] = req[q] /\ ~Past(q)
    BY <1>1, Typed, RestIsOutside
  <2> QED BY <2>1, OutsideFollows DEF Past
<1> QED BY <1>1

\* A step past the lock to another place past the lock leaves its holders.
LEMMA HoldsKept ==
    ASSUME IInv, NEW r \in Requests, Past(r), NEW new \in Request,
           req' = [req EXCEPT ![r] = new], new.pc \notin {"idle", "waits"},
           new.orphan = req[r].orphan, lock' = lock
    PROVE  Holds' /\ (~overlap => Alone')
<1>1. req'[r] = new /\ \A q \in Requests \ {r} : req'[q] = req[q]
  BY Typed
<1>2. \A q \in Requests : Past(q)' = Past(q) /\ req'[q].orphan = req[q].orphan
  BY <1>1 DEF Past
<1>3. Holds'
  BY <1>2 DEF IInv, Holds
<1>4. ~overlap => Alone'
  BY <1>2 DEF IInv, Alone
<1> QED BY <1>3, <1>4

\* A step of the handler that leaves the files alone: nothing to follow is lost.
LEMMA QuietStep ==
    ASSUME IInv, NEW r \in Requests, NEW new \in Request, Past(r),
           req' = [req EXCEPT ![r] = new], new.pc \notin {"idle", "waits", "restart"},
           req[r].pc # "restart", new.orphan = req[r].orphan,
           UNCHANGED <<conf, loaded, wsddVars, lock, ghosts, started>>,
           dirs' \in SUBSET Paths, dirs \subseteq dirs', InHand(r)', ~overlap => Follows(r)'
    PROVE  IInv'
<1>1. TypeOK'
  BY Typed DEF TypeOK
<1>2. Holds' /\ (~overlap => Alone')
  BY HoldsKept
<1>3. \A q \in Requests : InHand(q)'
  BY InHandKept
<1>4. (conf # None => DirsToCreate(conf) \subseteq dirs)' /\ DirsComeFirst'
  BY DEF IInv, DirsComeFirst
<1>5. (\A q \in Requests : req[q].pc # "restart") <=> (\A q \in Requests : req'[q].pc # "restart")
  BY Typed
<1>6. ~overlap => \A q \in Requests : Follows(q)'
  BY FollowsKept
<1> QED BY <1>1, <1>2, <1>3, <1>4, <1>5, <1>6 DEF IInv
-----------------------------------------------------------------------------
(* Up to the playbook *)

LEMMA BeginStep ==
    ASSUME IInv, NEW r \in Requests, Begin(r)
    PROVE  IInv'
<1>1. PICK a \in Asks :
        req' = [req EXCEPT ![r] = [@ EXCEPT !.pc = "waits", !.kind = a[1], !.name = a[2],
                                            !.path = a[3]]]
  BY DEF Begin
<1> DEFINE new == [req[r] EXCEPT !.pc = "waits", !.kind = a[1], !.name = a[2], !.path = a[3]]
<1>2. a[1] \in Kinds /\ a[2] \in Names /\ a[3] \in Path
  BY NamesAssumption DEF Asks, InitSamba, ApplyWSDD, SetSMBHomes, DeleteSMBHomes,
         CreateTimeMachineShare, DeleteTimeMachineShare
<1>3. new \in Request /\ new.pc = "waits" /\ new.orphan = req[r].orphan
  <2>1. req[r] \in Request
    BY Typed
  <2> QED BY <1>2, <2>1 DEF Request
<1> HIDE DEF new
<1>4. req' = [req EXCEPT ![r] = new] /\ req'[r] = new /\ \A q \in Requests \ {r} : req'[q] = req[q]
  BY <1>1, Typed DEF new
<1>5. UNCHANGED <<conf, loaded, dirs, wsddVars, lock, ghosts>> /\ started' \in Nat
  BY Typed DEF Begin, TypeOK
<1>6. req[r].pc = "idle"
  BY DEF Begin
<1>7. TypeOK'
  BY <1>3, <1>4, <1>5, Typed DEF TypeOK
<1>8. \A q \in Requests : Past(q)' = Past(q) /\ req'[q].orphan = req[q].orphan
  BY <1>3, <1>4, <1>6 DEF Past
<1>9. Holds' /\ (~overlap => Alone')
  BY <1>5, <1>8 DEF IInv, Holds, Alone
<1>10. \A q \in Requests : InHand(q)'
  <2>1. InHand(r)'
    BY <1>3, <1>4, OutsideHolds
  <2> QED BY <1>3, <1>4, <1>5, <2>1, InHandKept
<1>11. ASSUME ~overlap, NEW q \in Requests PROVE Follows(q)'
  <2>1. CASE q = r
    BY <1>3, <1>4, <2>1, OutsideFollows
  <2>2. CASE q # r
    BY <1>4, <1>5, <1>11, <2>2 DEF IInv, Follows, Deployed
  <2> QED BY <2>1, <2>2
<1>12. (\A q \in Requests : req[q].pc # "restart") <=> (\A q \in Requests : req'[q].pc # "restart")
  BY <1>3, <1>4, <1>6
<1> QED BY <1>5, <1>7, <1>9, <1>10, <1>11, <1>12 DEF IInv, DirsComeFirst

LEMMA LocksStep ==
    ASSUME IInv, NEW r \in Requests, Locks(r)
    PROVE  IInv'
<1> DEFINE new == [req[r] EXCEPT !.pc = "parses"]
<1>1. new \in Request /\ new.pc = "parses" /\ new.orphan = req[r].orphan
  <2>1. req[r] \in Request
    BY Typed
  <2> QED BY <2>1 DEF Request
<1>2. req' = [req EXCEPT ![r] = new]
  BY DEF Locks
<1> HIDE DEF new
<1>3. req'[r] = new /\ \A q \in Requests \ {r} : req'[q] = req[q]
  BY <1>2, Typed
<1>4. /\ UNCHANGED <<conf, loaded, dirs, wsddVars, want, clean, missed, started>>
      /\ lock = None /\ lock' = r /\ req[r].pc = "waits" /\ overlap' \in BOOLEAN
  BY DEF Locks
<1>5. TypeOK'
  BY <1>1, <1>2, <1>4, Typed DEF TypeOK
<1>6. Holds'
  BY <1>1, <1>3, <1>4, NoneAssumption DEF IInv, Holds, Past
<1>7. \A q \in Requests : InHand(q)'
  <2>1. InHand(r)'
    BY <1>1, <1>3 DEF InHand
  <2> QED BY <1>1, <1>2, <1>4, <2>1, InHandKept
<1>8. ASSUME ~overlap' PROVE ~overlap /\ \A q \in Requests : ~Past(q)
  <2>1. ~overlap /\ Orphans = {}
    BY <1>8 DEF Locks
  <2>2. \A q \in Requests : req[q].orphan = "no"
    BY <2>1, Typed DEF Orphans, Request
  <2> QED BY <1>4, <2>1, <2>2, NoneAssumption DEF IInv, Holds
<1>9. ASSUME ~overlap' PROVE Alone'
  BY <1>3, <1>8, <1>9 DEF Alone, Past
<1>10. ASSUME ~overlap', NEW q \in Requests PROVE Follows(q)'
  <2>1. CASE q = r
    BY <1>1, <1>3, <2>1 DEF Follows, Deployed
  <2>2. CASE q # r
    BY <1>3, <1>8, <1>10, <2>2, OutsideFollows DEF Past
  <2> QED BY <2>1, <2>2
<1>11. (\A q \in Requests : req[q].pc # "restart") <=> (\A q \in Requests : req'[q].pc # "restart")
  BY <1>1, <1>3, <1>4
<1> QED BY <1>4, <1>5, <1>6, <1>7, <1>8, <1>9, <1>10, <1>11 DEF IInv, DirsComeFirst

LEMMA ParsesStep ==
    ASSUME IInv, NEW r \in Requests, Parses(r)
    PROVE  IInv'
<1> DEFINE copy == Changed(req[r], ParseSMBConfig)
           new == [req[r] EXCEPT !.pc = IF req[r].kind = "init" THEN "inits" ELSE "looks",
                                 !.copy = copy]
<1>1. copy \in SMBConfig
  BY ParsedType, ChangedType, DefaultType, Typed DEF ParseSMBConfig, TypeOK
<1>2. /\ new \in Request /\ new.pc \in {"inits", "looks"} /\ new.orphan = req[r].orphan
      /\ new.copy = copy /\ new.kind = req[r].kind /\ new.name = req[r].name
      /\ new.path = req[r].path
  <2>1. req[r] \in Request
    BY Typed
  <2> HIDE DEF copy
  <2> QED BY <1>1, <2>1 DEF Request
<1>3. req' = [req EXCEPT ![r] = new]
  BY DEF Parses
<1> HIDE DEF new, copy
<1>4. req'[r] = new
  BY <1>3, Typed
<1>5. InHand(r)'
  BY <1>1, <1>2, <1>4 DEF InHand
<1>6. ASSUME ~overlap PROVE Follows(r)'
  <2>1. ParseSMBConfig = Parsed(want)
    BY <1>6, DefaultType DEF ParseSMBConfig, IInv
  <2>2. copy = Changed(req[r], Parsed(want))
    BY <2>1 DEF copy
  <2>3. want' = want
    BY DEF Parses
  <2> QED BY <1>2, <1>4, <2>2, <2>3 DEF Follows, Deployed, Changed
<1> QED BY <1>2, <1>3, <1>5, <1>6, QuietStep, Typed DEF Parses, Past, TypeOK

LEMMA InitsStep ==
    ASSUME IInv, NEW r \in Requests, Inits(r)
    PROVE  IInv'
<1> DEFINE new == [req[r] EXCEPT !.pc = "looks"]
<1>1. /\ new \in Request /\ new.pc = "looks" /\ new.orphan = req[r].orphan
      /\ new.copy = req[r].copy /\ new.kind = req[r].kind /\ new.name = req[r].name
      /\ new.path = req[r].path
  <2>1. req[r] \in Request
    BY Typed
  <2> QED BY <2>1 DEF Request
<1>2. req' = [req EXCEPT ![r] = new]
  BY DEF Inits
<1> HIDE DEF new
<1>3. req'[r] = new /\ want' = want /\ req[r].pc = "inits"
  BY <1>2, Typed DEF Inits
<1>4. InHand(r)'
  BY <1>1, <1>3 DEF InHand, IInv
<1>5. ASSUME ~overlap PROVE Follows(r)'
  BY <1>1, <1>3, <1>5 DEF IInv, Follows, Deployed, Changed
<1> QED BY <1>1, <1>2, <1>3, <1>4, <1>5, QuietStep, Typed DEF Inits, Past, TypeOK

LEMMA LooksStep ==
    ASSUME IInv, NEW r \in Requests, Looks(r)
    PROVE  IInv'
<1> DEFINE new == [req[r] EXCEPT !.pc = "dirs", !.seen = wsdd]
<1>1. /\ new \in Request /\ new.pc = "dirs" /\ new.orphan = req[r].orphan
      /\ new.copy = req[r].copy /\ new.kind = req[r].kind /\ new.name = req[r].name
      /\ new.path = req[r].path
  <2>1. req[r] \in Request /\ wsdd \in {"none", "off", "running"}
    BY Typed DEF TypeOK
  <2> QED BY <2>1 DEF Request
<1>2. req' = [req EXCEPT ![r] = new]
  BY DEF Looks
<1> HIDE DEF new
<1>3. req'[r] = new /\ want' = want /\ req[r].pc = "looks"
  BY <1>2, Typed DEF Looks
<1>4. InHand(r)'
  BY <1>1, <1>3 DEF InHand, IInv
<1>5. ASSUME ~overlap PROVE Follows(r)'
  BY <1>1, <1>3, <1>5 DEF IInv, Follows, Deployed, Changed
<1> QED BY <1>1, <1>2, <1>3, <1>4, <1>5, QuietStep, Typed DEF Looks, Past, TypeOK

LEMMA DirsStep ==
    ASSUME IInv, NEW r \in Requests, Dirs(r)
    PROVE  IInv'
<1> DEFINE new == [req[r] EXCEPT !.pc = "deploy"]
<1>1. /\ new \in Request /\ new.pc = "deploy" /\ new.orphan = req[r].orphan
      /\ new.copy = req[r].copy /\ new.kind = req[r].kind /\ new.name = req[r].name
      /\ new.path = req[r].path
  <2>1. req[r] \in Request
    BY Typed
  <2> QED BY <2>1 DEF Request
<1>2. req' = [req EXCEPT ![r] = new]
  BY DEF Dirs, Goto
<1> HIDE DEF new
<1>3. req'[r] = new /\ want' = want /\ req[r].pc = "dirs"
  BY <1>2, Typed DEF Dirs
<1>4. req[r].copy \in SMBConfig /\ dirs' = dirs \cup DirsToCreate(req[r].copy)
  BY <1>3 DEF Dirs, IInv, InHand
<1>5. DirsToCreate(req[r].copy) \subseteq Paths
  <2>1. req[r].copy.homes \in Path /\ req[r].copy.tm \in [Names -> Path]
    BY <1>4 DEF SMBConfig
  <2> QED BY <2>1 DEF DirsToCreate
<1>6. InHand(r)'
  BY <1>1, <1>3, <1>4 DEF InHand
<1>7. ASSUME ~overlap PROVE Follows(r)'
  BY <1>1, <1>3, <1>7 DEF IInv, Follows, Deployed, Changed
<1>8. dirs' \in SUBSET Paths /\ dirs \subseteq dirs'
  BY <1>4, <1>5, Typed DEF TypeOK
<1> QED BY <1>1, <1>2, <1>3, <1>6, <1>7, <1>8, QuietStep DEF Dirs, Past
-----------------------------------------------------------------------------
(* The tasks of the playbook *)

LEMMA DeploysStep ==
    ASSUME IInv, NEW r \in Requests, Deploys(r)
    PROVE  IInv'
<1> DEFINE new == [req[r] EXCEPT !.pc = "reload"]
<1>1. /\ new \in Request /\ new.pc = "reload" /\ new.orphan = req[r].orphan
      /\ new.copy = req[r].copy /\ new.seen = req[r].seen
  <2>1. req[r] \in Request
    BY Typed
  <2> QED BY <2>1 DEF Request
<1>2. req' = [req EXCEPT ![r] = new]
  BY DEF Deploys, Goto
<1> HIDE DEF new
<1>3. /\ req'[r] = new /\ \A q \in Requests \ {r} : req'[q] = req[q]
      /\ req[r].pc = "deploy" /\ conf' = req[r].copy /\ want' = Changed(req[r], Parsed(want))
      /\ clean' = FALSE
      /\ UNCHANGED <<loaded, dirs, wsddVars, lock, missed, overlap, started>>
  BY <1>2, Typed DEF Deploys
<1>4. req[r].copy \in SMBConfig /\ DirsToCreate(req[r].copy) \subseteq dirs
  BY <1>3 DEF IInv, InHand
<1>5. want' \in SMBConfig
  BY <1>3, ParsedType, ChangedType, Typed DEF TypeOK
<1>6. TypeOK'
  BY <1>1, <1>2, <1>3, <1>4, <1>5, Typed DEF TypeOK
<1>7. Holds' /\ (~overlap => Alone')
  BY <1>1, <1>2, <1>3, HoldsKept DEF Past
<1>8. \A q \in Requests : InHand(q)'
  <2>1. InHand(r)'
    BY <1>1, <1>3, <1>4 DEF InHand
  <2> QED BY <1>1, <1>2, <1>3, <2>1, InHandKept
<1>9. conf' # None
  BY <1>3, <1>4, NoFileAssumption
<1>10. (conf # None => DirsToCreate(conf) \subseteq dirs)' /\ DirsComeFirst'
  BY <1>3, <1>4 DEF IInv, DirsComeFirst
<1>11. (\A q \in Requests : req[q].pc # "restart") <=> (\A q \in Requests : req'[q].pc # "restart")
  BY <1>1, <1>3
<1>12. ASSUME ~overlap PROVE conf' = want' /\ \A q \in Requests : Follows(q)'
  <2>1. req[r].copy = want'
    BY <1>3, <1>12 DEF IInv, Follows
  <2>2. Follows(r)'
    BY <1>1, <1>3 DEF Follows, Deployed
  <2> QED BY <1>1, <1>2, <1>3, <1>12, <2>1, <2>2, FollowsKept DEF Past
<1> QED BY <1>3, <1>6, <1>7, <1>8, <1>9, <1>10, <1>11, <1>12 DEF IInv

LEMMA ReloadsStep ==
    ASSUME IInv, NEW r \in Requests, Reloads(r)
    PROVE  IInv'
<1> DEFINE pc == IF req[r].seen = "none" THEN "done" ELSE "options"
<1> DEFINE new == [req[r] EXCEPT !.pc = pc]
<1>1. /\ pc \in {"done", "options"}
      /\ new \in Request /\ new.pc = pc /\ new.orphan = req[r].orphan
      /\ new.copy = req[r].copy /\ new.seen = req[r].seen
  <2>1. req[r] \in Request
    BY Typed
  <2> QED BY <2>1 DEF Request
<1>2. req' = [req EXCEPT ![r] = new]
  BY DEF Reloads, Goto
<1> HIDE DEF new
<1>3. /\ req'[r] = new /\ \A q \in Requests \ {r} : req'[q] = req[q]
      /\ req[r].pc = "reload" /\ loaded' = conf
      /\ UNCHANGED <<conf, dirs, wsddVars, lock, ghosts, started>>
  BY <1>2, Typed DEF Reloads
<1>4. TypeOK'
  BY <1>1, <1>2, <1>3, Typed DEF TypeOK
<1>5. Holds' /\ (~overlap => Alone')
  BY <1>1, <1>2, <1>3, HoldsKept DEF Past
<1>6. \A q \in Requests : InHand(q)'
  <2>1. InHand(r)'
    BY <1>1, <1>3 DEF IInv, InHand
  <2> QED BY <1>1, <1>2, <1>3, <2>1, InHandKept
<1>7. (conf # None => DirsToCreate(conf) \subseteq dirs)' /\ DirsComeFirst'
  BY <1>3 DEF IInv, DirsComeFirst
<1>8. (\A q \in Requests : req[q].pc # "restart") <=> (\A q \in Requests : req'[q].pc # "restart")
  BY <1>1, <1>3
<1>9. ASSUME ~overlap PROVE ~clean /\ \A q \in Requests : Follows(q)'
  <2>1. ~clean /\ conf = req[r].copy
    BY <1>3, <1>9 DEF IInv, Follows, Deployed
  <2>2. Follows(r)'
    BY <1>1, <1>3, <2>1 DEF Follows, Deployed
  <2> QED BY <1>1, <1>2, <1>3, <1>9, <2>1, <2>2, FollowsKept DEF Past
<1> QED BY <1>3, <1>4, <1>5, <1>6, <1>7, <1>8, <1>9 DEF IInv

LEMMA OptionsStep ==
    ASSUME IInv, NEW r \in Requests, Options(r)
    PROVE  IInv'
<1> DEFINE changed == opts' # opts
           pc == IF changed /\ req[r].seen = "running" THEN "restart" ELSE "done"
<1> DEFINE new == [req[r] EXCEPT !.pc = pc]
<1>1. /\ pc \in {"done", "restart"}
      /\ new \in Request /\ new.pc = pc /\ new.orphan = req[r].orphan
      /\ new.copy = req[r].copy /\ new.seen = req[r].seen
  <2>1. req[r] \in Request
    BY Typed
  <2> QED BY <2>1 DEF Request
<1>2. req' = [req EXCEPT ![r] = new]
  BY DEF Options, Goto
<1> HIDE DEF new
<1>3. /\ req'[r] = new /\ \A q \in Requests \ {r} : req'[q] = req[q]
      /\ req[r].pc = "options" /\ opts' = WSDDWorkgroup(req[r].copy)
      /\ missed' = (missed \/ (changed /\ wsdd = "running" /\ req[r].seen # "running"))
      /\ UNCHANGED <<smbVars, wsdd, announced, lock, want, clean, overlap, started>>
  BY <1>2, Typed DEF Options
<1>4. req[r].copy \in SMBConfig
  BY <1>3 DEF IInv, InHand
<1>5. opts' \in Groups \cup {None}
  BY <1>3, <1>4 DEF WSDDWorkgroup, SMBConfig
<1>6. TypeOK'
  <2>1. missed' \in BOOLEAN
    BY <1>3, Typed DEF TypeOK
  <2> QED BY <1>1, <1>2, <1>3, <1>5, <2>1, Typed DEF TypeOK
<1>7. Holds' /\ (~overlap => Alone')
  BY <1>1, <1>2, <1>3, HoldsKept DEF Past
<1>8. \A q \in Requests : InHand(q)'
  <2>1. InHand(r)'
    BY <1>1, <1>3 DEF IInv, InHand
  <2> QED BY <1>1, <1>2, <1>3, <2>1, InHandKept
<1>9. (conf # None => DirsToCreate(conf) \subseteq dirs)' /\ DirsComeFirst'
  BY <1>3 DEF IInv, DirsComeFirst
<1>10. (wsdd = "running" /\ ~missed /\ (\A q \in Requests : req[q].pc # "restart") =>
          announced = opts)'
  <2> SUFFICES ASSUME wsdd = "running", ~missed', \A q \in Requests : req'[q].pc # "restart"
               PROVE  announced = opts'
    BY <1>3
  <2>1. ~missed /\ ~changed
    BY <1>1, <1>3
  <2>2. \A q \in Requests : req[q].pc # "restart"
    BY <1>3
  <2> QED BY <2>1, <2>2 DEF IInv
<1>11. ASSUME ~overlap PROVE ~clean /\ \A q \in Requests : Follows(q)'
  <2>1. ~clean /\ conf = req[r].copy /\ loaded = conf
    BY <1>3, <1>11 DEF IInv, Follows, Deployed
  <2>2. conf # None /\ opts' = WSDDWorkgroup(conf)
    BY <1>3, <1>4, <2>1, NoFileAssumption
  <2>3. Follows(r)'
    BY <1>1, <1>3, <2>1, <2>2 DEF Follows, Deployed, WSDDWorkgroup
  <2> QED BY <1>1, <1>2, <1>3, <1>11, <2>1, <2>3, FollowsKept DEF Past
<1> QED BY <1>3, <1>6, <1>7, <1>8, <1>9, <1>10, <1>11 DEF IInv

LEMMA RestartsStep ==
    ASSUME IInv, NEW r \in Requests, Restarts(r)
    PROVE  IInv'
<1> DEFINE new == [req[r] EXCEPT !.pc = "done"]
<1>1. /\ new \in Request /\ new.pc = "done" /\ new.orphan = req[r].orphan
      /\ new.copy = req[r].copy /\ new.seen = req[r].seen
  <2>1. req[r] \in Request
    BY Typed
  <2> QED BY <2>1 DEF Request
<1>2. req' = [req EXCEPT ![r] = new]
  BY DEF Restarts, Goto
<1> HIDE DEF new
<1>3. /\ req'[r] = new /\ \A q \in Requests \ {r} : req'[q] = req[q]
      /\ req[r].pc = "restart" /\ wsdd' = "running" /\ announced' = opts /\ missed' = FALSE
      /\ UNCHANGED <<smbVars, opts, lock, want, clean, overlap, started>>
  BY <1>2, Typed DEF Restarts
<1>4. TypeOK'
  BY <1>1, <1>2, <1>3, Typed DEF TypeOK
<1>5. Holds' /\ (~overlap => Alone')
  BY <1>1, <1>2, <1>3, HoldsKept DEF Past
<1>6. \A q \in Requests : InHand(q)'
  <2>1. InHand(r)'
    BY <1>1, <1>3 DEF IInv, InHand
  <2> QED BY <1>1, <1>2, <1>3, <2>1, InHandKept
<1>7. (conf # None => DirsToCreate(conf) \subseteq dirs)' /\ DirsComeFirst'
  BY <1>3 DEF IInv, DirsComeFirst
<1>8. ASSUME ~overlap PROVE ~clean /\ \A q \in Requests : Follows(q)'
  <2>1. Follows(r) /\ ~clean
    BY <1>3, <1>8 DEF IInv, Follows, Deployed
  <2>2. Follows(r)'
    BY <1>1, <1>3, <2>1 DEF Follows, Deployed, WSDDWorkgroup
  <2> QED BY <1>1, <1>2, <1>3, <1>8, <2>1, <2>2, FollowsKept DEF Past
<1> QED BY <1>3, <1>4, <1>5, <1>6, <1>7, <1>8 DEF IInv
-----------------------------------------------------------------------------
(* The end of a request, however it comes *)

\* r is idle again; nothing else was changed but what is said of the daemons.
LEMMA LeavesStep ==
    ASSUME IInv, NEW r \in Requests, Past(r), req' = [req EXCEPT ![r] = Idle],
           lock' = Unlocked(r), clean' \in BOOLEAN, missed' \in BOOLEAN,
           UNCHANGED <<smbVars, wsddVars, want, overlap, started>>,
           missed' = (missed \/ req[r].pc = "restart"),
           ~overlap /\ clean' =>
              /\ loaded = conf /\ conf # None
              /\ wsdd # "none" => opts = WSDDWorkgroup(conf)
              /\ clean \/ \A q \in Requests \ {r} : ~Past(q)
    PROVE  IInv'
<1>1. req'[r] = Idle /\ \A q \in Requests \ {r} : req'[q] = req[q]
  BY Typed
<1>2. TypeOK'
  <2>1. lock' \in Requests \cup {None}
    BY Typed DEF TypeOK
  <2> QED BY <2>1, IdleType, Typed DEF TypeOK
<1>3. \A q \in Requests : Past(q)' => q # r /\ Past(q) /\ req'[q] = req[q]
  BY <1>1, IdleType DEF Past
<1>4. Holds'
  <2>1. lock' # r
    BY NoneAssumption
  <2>2. \A q \in Requests \ {r} : (lock' = q) <=> (lock = q)
    BY NoneAssumption
  <2>3. ~Past(r)' /\ req'[r].orphan = "no"
    BY <1>1, IdleType DEF Past
  <2>4. ASSUME NEW q \in Requests \ {r}
        PROVE  req'[q] = req[q] /\ (Past(q)' <=> Past(q))
    BY <1>1 DEF Past
  <2> QED BY <2>1, <2>2, <2>3, <2>4 DEF IInv, Holds
<1>5. ~overlap => Alone'
  BY <1>3 DEF IInv, Alone
<1>6. \A q \in Requests : InHand(q)'
  <2>1. InHand(r)'
    BY <1>1, IdleType, OutsideHolds
  <2> QED BY <2>1, IdleType, InHandKept
<1>7. DirsComeFirst' /\ (conf # None => DirsToCreate(conf) \subseteq dirs)'
  BY DEF IInv, DirsComeFirst
<1>8. (wsdd = "running" /\ ~missed /\ (\A q \in Requests : req[q].pc # "restart") =>
         announced = opts)'
  BY <1>1 DEF IInv
<1>9. ASSUME ~overlap, NEW q \in Requests PROVE Follows(q)'
  <2>1. CASE q = r
    BY <1>1, <2>1, IdleType, OutsideFollows
  <2>2. CASE q # r
    <3>1. ~Past(q)
      BY <1>9, <2>2, RestIsOutside
    <3> QED BY <1>1, <2>2, <3>1, OutsideFollows DEF Past
  <2> QED BY <2>1, <2>2
<1> QED BY <1>2, <1>4, <1>5, <1>6, <1>7, <1>8, <1>9 DEF IInv

LEMMA EndsStep ==
    ASSUME IInv, NEW r \in Requests, Ends(r)
    PROVE  IInv'
<1>1. /\ req[r].pc = "done" /\ Past(r)
      /\ clean' = (clean \/ (req[r].orphan = "no" /\ (wsdd = "none" <=> req[r].seen = "none")))
  BY DEF Ends, Past
<1>2. missed' \in BOOLEAN /\ clean' \in BOOLEAN
  BY <1>1, Typed DEF Ends, TypeOK
<1>3. missed' = (missed \/ req[r].pc = "restart")
  BY <1>1, Typed DEF Ends, TypeOK
<1>4. ASSUME ~overlap, clean'
      PROVE  /\ loaded = conf /\ conf # None
             /\ wsdd # "none" => opts = WSDDWorkgroup(conf)
             /\ \A q \in Requests \ {r} : ~Past(q)
  <2>1. Follows(r) /\ ~clean /\ conf = req[r].copy /\ loaded = conf
    BY <1>1, <1>4 DEF IInv, Follows, Deployed
  <2>2. req[r].copy \in SMBConfig
    BY <1>1 DEF IInv, InHand
  <2>3. wsdd # "none" => opts = WSDDWorkgroup(conf)
    BY <1>1, <1>4, <2>1 DEF Follows
  <2> QED BY <1>1, <1>4, <2>1, <2>2, <2>3, RestIsOutside, NoFileAssumption
<1> QED BY <1>1, <1>2, <1>3, <1>4, LeavesStep DEF Ends

LEMMA FailsStep ==
    ASSUME IInv, NEW r \in Requests, Fails(r)
    PROVE  IInv'
<1>1. Past(r) /\ clean' = clean /\ missed' = (missed \/ req[r].pc = "restart")
  BY DEF Fails, Past
<1>2. missed' \in BOOLEAN /\ clean' \in BOOLEAN
  BY <1>1, Typed DEF TypeOK
<1>3. ~overlap /\ clean' =>
         /\ loaded = conf /\ conf # None
         /\ wsdd # "none" => opts = WSDDWorkgroup(conf)
         /\ clean
  BY <1>1 DEF IInv
<1> QED BY <1>1, <1>2, <1>3, LeavesStep DEF Fails

\* A playbook nobody waits for goes on with what it has in hand.
LEMMA OrphanedType ==
    ASSUME NEW q \in Request
    PROVE  LET new == [q EXCEPT !.orphan = "yes"]
           IN  /\ new \in Request /\ new.orphan = "yes" /\ new.pc = q.pc /\ new.kind = q.kind
               /\ new.name = q.name /\ new.path = q.path /\ new.copy = q.copy /\ new.seen = q.seen
BY DEF Request

\* What is in hand and followed does not depend on who waits for it.
LEMMA OrphanFollows ==
    ASSUME NEW q \in Requests, req'[q].pc = req[q].pc, req'[q].kind = req[q].kind,
           req'[q].name = req[q].name, req'[q].path = req[q].path, req'[q].copy = req[q].copy,
           req'[q].seen = req[q].seen, UNCHANGED <<smbVars, wsddVars, want, clean>>
    PROVE  (InHand(q) => InHand(q)') /\ (Follows(q) => Follows(q)')
<1>1. InHand(q) => InHand(q)'
  BY DEF InHand
<1>2. Follows(q) => Follows(q)'
  BY DEF Follows, Deployed, Changed
<1> QED BY <1>1, <1>2

LEMMA TimesOutStep ==
    ASSUME IInv, NEW r \in Requests, TimesOut(r)
    PROVE  IInv'
<1> DEFINE new == [req[r] EXCEPT !.orphan = "yes"]
<1>1. /\ new \in Request /\ new.orphan = "yes" /\ new.pc = req[r].pc /\ new.kind = req[r].kind
      /\ new.name = req[r].name /\ new.path = req[r].path /\ new.copy = req[r].copy
      /\ new.seen = req[r].seen
  BY OrphanedType, Typed
<1>2. req' = [req EXCEPT ![r] = new]
  BY DEF TimesOut
<1> HIDE DEF new
<1>3. req'[r] = new /\ \A q \in Requests \ {r} : req'[q] = req[q]
  BY <1>2, Typed
<1>4. Past(r) /\ lock' = Unlocked(r) /\ UNCHANGED <<smbVars, wsddVars, ghosts, started>>
  BY DEF TimesOut, Past
<1>5. TypeOK'
  BY <1>1, <1>2, <1>4, Typed DEF TypeOK
<1>6. \A q \in Requests : Past(q)' = Past(q)
  BY <1>1, <1>3 DEF Past
<1>7. Holds'
  <2>1. lock' # r /\ \A q \in Requests \ {r} : (lock' = q) <=> (lock = q)
    BY <1>4, NoneAssumption
  <2> QED BY <1>1, <1>3, <1>4, <1>6, <2>1 DEF IInv, Holds
<1>8. ~overlap => Alone'
  BY <1>6 DEF IInv, Alone
<1>9. \A q \in Requests : (InHand(q) => InHand(q)') /\ (Follows(q) => Follows(q)')
  BY <1>1, <1>3, <1>4, OrphanFollows
<1>10. \A q \in Requests : req'[q].pc = req[q].pc
  BY <1>1, <1>3
<1> QED BY <1>4, <1>5, <1>7, <1>8, <1>9, <1>10 DEF IInv, DirsComeFirst

LEMMA RestartStep ==
    ASSUME IInv, Restart
    PROVE  IInv'
<1>1. /\ lock' = None /\ UNCHANGED <<smbVars, wsddVars, ghosts, started>>
      /\ req' = [r \in Requests |->
                   IF req[r].pc \in Tasks THEN [req[r] EXCEPT !.orphan = "yes"] ELSE Idle]
  BY DEF Restart
<1>2. ASSUME NEW q \in Requests, req[q].pc \in Tasks
      PROVE  /\ req'[q] \in Request /\ req'[q].orphan = "yes" /\ req'[q].pc = req[q].pc
             /\ (InHand(q) => InHand(q)') /\ (Follows(q) => Follows(q)')
  <2>1. req'[q] = [req[q] EXCEPT !.orphan = "yes"]
    BY <1>1, <1>2
  <2>2. /\ req'[q] \in Request /\ req'[q].orphan = "yes" /\ req'[q].pc = req[q].pc
        /\ req'[q].kind = req[q].kind /\ req'[q].name = req[q].name /\ req'[q].path = req[q].path
        /\ req'[q].copy = req[q].copy /\ req'[q].seen = req[q].seen
    BY <2>1, OrphanedType, Typed
  <2> QED BY <1>1, <2>2, OrphanFollows
<1>3. ASSUME NEW q \in Requests, req[q].pc \notin Tasks
      PROVE  /\ req'[q] = Idle /\ req'[q] \in Request /\ req'[q].pc = "idle"
             /\ req'[q].orphan = "no" /\ InHand(q)' /\ Follows(q)'
  BY <1>1, <1>3, IdleType, OutsideFollows, OutsideHolds
<1>4. TypeOK'
  <2>1. req' \in [Requests -> Request]
    BY <1>1, <1>2, <1>3
  <2> QED BY <1>1, <2>1, Typed DEF TypeOK
<1>5. \A q \in Requests : Past(q)' => Past(q) /\ req'[q].orphan = "yes"
  BY <1>2, <1>3 DEF Past
<1>6. Holds'
  <2>1. \A q \in Requests : ~Past(q)' => req'[q].orphan = "no"
    BY <1>2, <1>3 DEF Past
  <2> QED BY <1>1, <1>5, <2>1, NoneAssumption DEF Holds
<1>7. ~overlap => Alone'
  BY <1>5 DEF IInv, Alone
<1>8. \A q \in Requests : (InHand(q) => InHand(q)') /\ (Follows(q) => Follows(q)')
  BY <1>2, <1>3
<1>9. \A q \in Requests : (req'[q].pc = "restart") <=> (req[q].pc = "restart")
  BY <1>2, <1>3
<1> QED BY <1>1, <1>4, <1>6, <1>7, <1>8, <1>9 DEF IInv, DirsComeFirst
-----------------------------------------------------------------------------
(* wsdd under other hands *)

LEMMA WsddStep ==
    ASSUME IInv, WsddStarts \/ WsddStops \/ WsddInstalls
    PROVE  IInv'
<1>1. /\ UNCHANGED <<smbVars, opts, lock, req, want, overlap, started>>
      /\ clean' => clean /\ clean' = clean /\ wsdd # "none"
      /\ wsdd' = "running" => announced' = opts
  BY DEF WsddStarts, WsddStops, WsddInstalls, IInv
<1>2. TypeOK'
  BY Typed DEF TypeOK, WsddStarts, WsddStops, WsddInstalls
<1>3. Holds' /\ (~overlap => Alone') /\ \A q \in Requests : InHand(q)'
  BY <1>1 DEF IInv, Holds, Alone, Past, InHand
<1>4. ASSUME ~overlap, NEW q \in Requests PROVE Follows(q)'
  <2>1. Deployed(q) => ~clean'
    BY <1>1, <1>4 DEF IInv, Follows
  <2> QED BY <1>1, <1>4, <2>1 DEF IInv, Follows, Deployed, Changed
<1> QED BY <1>1, <1>2, <1>3, <1>4 DEF IInv, DirsComeFirst

-----------------------------------------------------------------------------

LEMMA InitInv ==
    ASSUME Init
    PROVE  IInv
<1>1. conf \in SMBConfig \cup {None} /\ want \in SMBConfig
  BY DefaultType DEF Init, SMBConfig, NoShares
<1>2. ASSUME conf # None PROVE DirsToCreate(conf) \subseteq dirs /\ dirs \subseteq Paths
  BY <1>1, <1>2 DEF Init, DirsToCreate, SMBConfig, NoShares
<1>3. TypeOK
  BY <1>1, <1>2, IdleType DEF Init, TypeOK
<1>4. Holds /\ Alone /\ \A r \in Requests : InHand(r) /\ Follows(r)
  BY IdleType, NoneAssumption DEF Init, Holds, Alone, Past, InHand, Follows, Deployed
<1> QED BY <1>2, <1>3, <1>4 DEF Init, IInv, DirsComeFirst

LEMMA NextInv ==
    ASSUME IInv, [Next]_vars
    PROVE  IInv'
<1>1. CASE UNCHANGED vars
  BY <1>1 DEF vars, IInv, TypeOK, Holds, Past, InHand, DirsComeFirst, Alone, Follows, Deployed,
              DirsToCreate, Changed
<1>2. ASSUME NEW r \in Requests, Begin(r) \/ Locks(r) \/ Handles(r) \/ TimesOut(r)
      PROVE  IInv'
  <2>1. CASE Playbook(r)
    BY <2>1, DirsStep, DeploysStep, ReloadsStep, OptionsStep, RestartsStep DEF Playbook
  <2>2. CASE Parses(r) \/ Inits(r) \/ Looks(r) \/ Ends(r) \/ Fails(r)
    BY <2>2, ParsesStep, InitsStep, LooksStep, EndsStep, FailsStep
  <2> QED BY <1>2, <2>1, <2>2, BeginStep, LocksStep, TimesOutStep DEF Handles
<1> QED BY <1>1, <1>2, RestartStep, WsddStep DEF Next

\* The reason for the rest: of the requests past smbMu none is told of what
\* another one did, so but for an overlap there is one, and what it has in hand is
\* the file of the last one, changed.
THEOREM SambaInvariant == Spec => []IInv
<1>1. Init => IInv
  BY InitInv
<1>2. IInv /\ [Next]_vars => IInv'
  BY NextInv
<1> QED BY <1>1, <1>2, PTL DEF Spec

\* Of two requests neither writes back what the other one changed
\* (applyConfig under smbMu), as long as no playbook goes on unwatched.
THEOREM ChangesAreKept == Spec => []NoChangeIsLost
<1>1. IInv => NoChangeIsLost
  BY DEF IInv, NoChangeIsLost
<1> QED BY <1>1, SambaInvariant, PTL

\* A request that succeeds leaves smbd with the file, whatever failed before it
\* (smb_apply.yml reloads in every run).
THEOREM SmbdFollows == Spec => []SmbdIsCurrent
<1>1. IInv => SmbdIsCurrent
  BY DEF IInv, SmbdIsCurrent
<1> QED BY <1>1, SambaInvariant, PTL

\* smbd is never handed a share before its directory, overlap or not
\* (DirsToCreate and the order of smb_apply.yml).
THEOREM DirectoriesFirst == Spec => []DirsComeFirst
<1>1. IInv => DirsComeFirst
  BY DEF IInv
<1> QED BY <1>1, SambaInvariant, PTL

\* wsdd announces Samba's workgroup after a request that succeeded, but for a
\* restart that was not made (applyConfig and the last tasks of smb_apply.yml).
THEOREM WsddKeepsUp == Spec => []WsddFollows
<1>1. IInv => WsddFollows
  <2> SUFFICES ASSUME IInv, clean, ~overlap, wsdd = "running", ~missed
               PROVE  announced = WSDDWorkgroup(conf)
    BY DEF WsddFollows
  <2>1. \A r \in Requests : req[r].pc # "restart"
    BY DEF IInv, Follows, Deployed
  <2>2. announced = opts /\ opts = WSDDWorkgroup(conf)
    BY <2>1 DEF IInv
  <2> QED BY <2>2
<1> QED BY <1>1, SambaInvariant, PTL
=============================================================================
