-------------------------- MODULE Settings_proofs --------------------------
(***************************************************************************)
(* A change of the settings that is alone leaves file and memory in        *)
(* agreement, and leaves a file that can be read whatever fails, for every *)
(* set of requests, names and passwords.                                   *)
(***************************************************************************)
EXTENDS Settings, TLAPS

USE DEF Kinds, Certs, Conf, NoText, Request, fileVars, loginVars, Nobody

\* What a change makes of a Config is a Config.
LEMMA ChangedType ==
    ASSUME NEW q \in Request, NEW c \in Conf,
           q.kind \in {"password", "command"} => q.hash \in Hashes \cup {NoHash}
    PROVE  Changed(q.kind, q, c) \in Conf
BY DEF Changed

\* Who agrees before a change agrees after it.
LEMMA ChangedStored ==
    ASSUME NEW q \in Request, NEW a \in Conf, NEW b \in Conf, Stored(a, b)
    PROVE  Stored(Changed(q.kind, q, a), Changed(q.kind, q, b))
BY DEF Changed, Stored

LEMMA LoadConfigType ==
    ASSUME TypeOK, file \notin {Empty, Torn}
    PROVE  LoadConfig \in Conf
BY UsersAssumption DEF TypeOK, LoadConfig, DefaultConf

LEMMA Typed ==
    ASSUME IInv
    PROVE  TypeOK
BY DEF IInv

LEMMA RequestTyped ==
    ASSUME IInv
    PROVE  \A q \in Requests : req[q] \in Request
BY Typed DEF TypeOK

LEMMA IdleType == Idle \in Request
BY UsersAssumption DEF Idle

\* A request whose temporary file was replaced or removed is a request.
LEMMA WithFd ==
    ASSUME NEW q \in Request, NEW f \in {"none", "tmp", "file", "gone"}
    PROVE  [q EXCEPT !.fd = f] \in Request
<1> DEFINE moved == [q EXCEPT !.fd = f]
<1>1. moved = [pc |-> q.pc, kind |-> q.kind, user |-> q.user, hash |-> q.hash, seen |-> q.seen,
               copy |-> q.copy, fd |-> f, orphan |-> q.orphan]
  OBVIOUS
<1> HIDE DEF moved
<1>2. moved \in Request
  BY <1>1
<1> QED BY <1>2 DEF moved

LEMMA RenamedType ==
    ASSUME NEW q \in Request
    PROVE  [q EXCEPT !.pc = "renamed", !.fd = "none", !.copy = Empty] \in Request
OBVIOUS

LEMMA RenamedFields ==
    ASSUME NEW q \in Request
    PROVE  LET new == [q EXCEPT !.pc = "renamed", !.fd = "none", !.copy = Empty] IN
           /\ new.pc = "renamed" /\ new.fd = "none" /\ new.copy = Empty /\ new.kind = q.kind
           /\ new.hash = q.hash /\ new.user = q.user /\ new.orphan = q.orphan
OBVIOUS

\* A request begins: the others were over unless this is a crossing.
LEMMA BeginStep ==
    ASSUME IInv, NEW r \in Requests, NEW new \in Request, Begin(r, new),
           new.pc = "out", new.kind # "none", new.kind = "command" => new.orphan = "yes",
           new.orphan = "no" => up,
           new.kind = "password" /\ new.orphan = "no" => new.seen = mem.hash
    PROVE  IInv'
<1> USE DEF Begin
<1>1. TypeOK'
  BY DEF IInv, TypeOK
<1>2. \A q \in Requests : Steps(q)'
  BY DEF IInv, TypeOK, Steps
<1>3. (up \/ (login = Nobody /\ sessions = {}))'
  BY DEF IInv
<1>4. ASSUME ~crossed' PROVE Busy = {} /\ ~crossed
  BY <1>4 DEF IInv, TypeOK
<1>5. ASSUME ~crossed' PROVE Alone' /\ (file \notin {Empty, Torn})'
  BY <1>4, <1>5 DEF IInv, TypeOK, Alone, Busy
<1>6. ASSUME ~crossed', NEW q \in Requests PROVE OwnCopy(q)' /\ ProvenWithCurrent(q)'
  BY <1>4, <1>6 DEF IInv, TypeOK, OwnCopy, ProvenWithCurrent, Busy
<1>7. ASSUME ~crossed', ~behind' PROVE Differs'
  <2>1. \A q \in Requests : req[q].pc # "renamed" /\ req'[q].pc # "renamed"
    BY <1>4, <1>7 DEF IInv, TypeOK, Busy
  <2>2. Stored(mem, LoadConfig)
    BY <1>4, <1>7, <2>1 DEF IInv, Differs
  <2> QED BY <2>1, <2>2 DEF Differs, LoadConfig, Stored
<1> QED BY <1>1, <1>2, <1>3, <1>5, <1>6, <1>7 DEF IInv

LEMMA ChangeStep ==
    ASSUME IInv, NEW r \in Requests, Change(r)
    PROVE  IInv'
<1>1. CASE ChangePassword(r)
  <2>1. PICK p \in Hashes : Begin(r, New("password", Admin, p, mem.hash, "no"))
    BY <1>1 DEF ChangePassword
  <2>2. New("password", Admin, p, mem.hash, "no") \in Request
    BY UsersAssumption DEF IInv, TypeOK, New
  <2> QED BY <1>1, <2>1, <2>2, BeginStep DEF New, Allowed, ChangePassword
<1>2. CASE ChangeUsername(r)
  <2>1. PICK u \in Users : Begin(r, New("username", u, NoHash, NoHash, "no"))
    BY <1>2 DEF ChangeUsername
  <2>2. New("username", u, NoHash, NoHash, "no") \in Request
    BY DEF New
  <2> QED BY <1>2, <2>1, <2>2, BeginStep DEF New, Allowed, ChangeUsername
<1>3. ASSUME NEW k \in {"gencert", "setcert", "issue"}, up,
             Begin(r, New(k, Admin, NoHash, NoHash, "no"))
      PROVE  IInv'
  <2>1. New(k, Admin, NoHash, NoHash, "no") \in Request
    BY UsersAssumption DEF New
  <2> QED BY <1>3, <2>1, BeginStep DEF New
<1>4. CASE SetPassword(r)
  <2>1. PICK p \in Hashes : Begin(r, New("command", Admin, p, NoHash, "yes"))
    BY <1>4 DEF SetPassword
  <2>2. New("command", Admin, p, NoHash, "yes") \in Request
    BY UsersAssumption DEF New
  <2> QED BY <1>4, <2>1, <2>2, BeginStep DEF New, Allowed, SetPassword
<1> QED BY <1>1, <1>2, <1>3, <1>4 DEF Change, TlsGenCert, TlsSetConfig, TlsAcmeIssue, Allowed

-----------------------------------------------------------------------------
(* Steps of a change *)

\* Of a change that is alone, every other one is over.
LEMMA Others ==
    ASSUME IInv, ~crossed, NEW r \in Requests, req[r].pc # "idle"
    PROVE  \A q \in Requests \ {r} : req[q] = Idle
BY DEF IInv, Alone, Busy, Steps

\* Who is over claims nothing.
LEMMA OverClaimsNothing ==
    ASSUME NEW q \in Requests, req'[q] = Idle
    PROVE  OwnCopy(q)' /\ ProvenWithCurrent(q)'
<1>1. req'[q].pc = "idle"
  BY DEF Idle
<1>2. OwnCopy(q)'
  BY <1>1 DEF OwnCopy
<1>3. ProvenWithCurrent(q)'
  BY <1>1 DEF ProvenWithCurrent
<1> QED BY <1>2, <1>3

\* Then it alone can have replaced the file and not yet told the memory.
LEMMA NoneRenamed ==
    ASSUME IInv, ~crossed, NEW r \in Requests, req[r].pc \notin {"idle", "renamed"}
    PROVE  \A q \in Requests : req[q].pc # "renamed"
BY Others DEF Idle

\* A step of r that leaves file and memory, after which it is not renamed.
LEMMA DiffersKept ==
    ASSUME IInv, NEW r \in Requests, req[r].pc \notin {"idle", "renamed"},
           NEW new \in Request, new.pc # "renamed", req' = [req EXCEPT ![r] = new],
           mem' = mem, file' = file, ~crossed, ~behind
    PROVE  Differs'
<1>1. \A q \in Requests : req[q].pc # "renamed" /\ req'[q].pc # "renamed"
  BY NoneRenamed DEF IInv, TypeOK
<1>2. Stored(mem, LoadConfig)
  BY <1>1 DEF IInv, Differs
<1> QED BY <1>1, <1>2 DEF Differs, LoadConfig, Stored

LEMMA ReadFileStep ==
    ASSUME IInv, NEW r \in Requests, ReadFile(r)
    PROVE  IInv'
<1> DEFINE new == [req[r] EXCEPT !.pc = "read", !.copy = LoadConfig]
<1> USE DEF ReadFile
<1>1. LoadConfig \in Conf
  BY LoadConfigType DEF IInv
<1>2. req[r] \in Request /\ new \in Request
  <2>1. req[r] \in Request
    BY Typed DEF TypeOK
  <2>2. new \in Request
    BY <1>1, <2>1
  <2> QED BY <2>1, <2>2
<1>3. TypeOK'
  BY <1>2 DEF IInv, TypeOK
<1>4. \A q \in Requests : Steps(q)'
  BY <1>1, <1>2 DEF IInv, TypeOK, Steps
<1>5. (up \/ (login = Nobody /\ sessions = {}))'
  BY DEF IInv
<1>6. ASSUME ~crossed' PROVE Alone' /\ (file \notin {Empty, Torn})'
  BY <1>6 DEF IInv, TypeOK, Alone, Busy
<1>7. ASSUME ~crossed', NEW q \in Requests PROVE OwnCopy(q)' /\ ProvenWithCurrent(q)'
  BY <1>1, <1>7 DEF IInv, TypeOK, OwnCopy, ProvenWithCurrent, LoadConfig, DefaultConf
<1>8. ASSUME ~crossed', ~behind' PROVE Differs'
  BY <1>2, <1>8, DiffersKept
<1> QED BY <1>3, <1>4, <1>5, <1>6, <1>7, <1>8 DEF IInv

LEMMA OpenTmpStep ==
    ASSUME IInv, NEW r \in Requests, OpenTmp(r)
    PROVE  IInv'
<1> DEFINE new == [req[r] EXCEPT !.pc = "opened", !.fd = "tmp"]
<1> USE DEF OpenTmp
<1>1. req[r] \in Request /\ new \in Request
  <2>1. req[r] \in Request
    BY Typed DEF TypeOK
  <2>2. new \in Request
    BY <2>1
  <2> QED BY <2>1, <2>2
<1>2. TypeOK'
  BY <1>1 DEF IInv, TypeOK
<1>3. \A q \in Requests : Steps(q)'
  BY DEF IInv, TypeOK, Steps
<1>4. (up \/ (login = Nobody /\ sessions = {}))'
  BY DEF IInv
<1>5. ASSUME ~crossed' PROVE Alone' /\ (file \notin {Empty, Torn})'
  BY <1>5 DEF IInv, TypeOK, Alone, Busy
<1>6. ASSUME ~crossed', NEW q \in Requests PROVE OwnCopy(q)' /\ ProvenWithCurrent(q)'
  <2>1. CASE q = r
    <3>1. req'[q].pc = "opened" /\ req'[q].fd = "tmp" /\ req'[q].copy = req[q].copy
      BY <1>1, <2>1 DEF IInv, TypeOK
    <3>2. OwnCopy(q)'
      BY <1>6, <2>1, <3>1 DEF IInv, OwnCopy, LoadConfig
    <3>3. /\ req'[q].kind = req[q].kind /\ req'[q].orphan = req[q].orphan
          /\ req'[q].seen = req[q].seen /\ mem' = mem /\ req[q].pc # "idle"
      BY <1>1, <2>1 DEF IInv, TypeOK
    <3>4. ProvenWithCurrent(q)'
      BY <1>6, <3>3 DEF IInv, ProvenWithCurrent
    <3> QED BY <3>2, <3>4
  <2>2. CASE q # r
    <3>1. req'[q] = Idle
      BY <1>6, <2>2, Others DEF IInv, TypeOK
    <3> QED BY <3>1, OverClaimsNothing
  <2> QED BY <2>1, <2>2
<1>7. ASSUME ~crossed', ~behind' PROVE Differs'
  BY <1>1, <1>7, DiffersKept
<1> QED BY <1>2, <1>3, <1>4, <1>5, <1>6, <1>7 DEF IInv

LEMMA WriteCopyStep ==
    ASSUME IInv, NEW r \in Requests, WriteCopy(r)
    PROVE  IInv'
<1> DEFINE new == [req[r] EXCEPT !.pc = "written"]
           text == Changed(req[r].kind, req[r], req[r].copy)
<1> USE DEF WriteCopy
<1>1. req[r] \in Request /\ new \in Request
  <2>1. req[r] \in Request
    BY Typed DEF TypeOK
  <2>2. new \in Request
    BY <2>1
  <2> QED BY <2>1, <2>2
<1>2. TypeOK'
  <2>1. text \in Conf
    BY <1>1, ChangedType DEF IInv, Steps
  <2> QED BY <1>1, <2>1 DEF IInv, TypeOK, Over
<1>3. \A q \in Requests : Steps(q)'
  BY DEF IInv, TypeOK, Steps
<1>4. (up \/ (login = Nobody /\ sessions = {}))'
  BY DEF IInv
<1>5. ASSUME ~crossed'
      PROVE  file' = file /\ tmp' = Changed(req[r].kind, req[r], LoadConfig)
  BY <1>5 DEF IInv, OwnCopy, Over
<1>6. ASSUME ~crossed' PROVE Alone' /\ (file \notin {Empty, Torn})'
  BY <1>5, <1>6 DEF IInv, TypeOK, Alone, Busy
<1>7. ASSUME ~crossed', NEW q \in Requests PROVE OwnCopy(q)' /\ ProvenWithCurrent(q)'
  <2>1. CASE q = r
    BY <1>1, <1>5, <1>7, <2>1
    DEF IInv, TypeOK, OwnCopy, ProvenWithCurrent, LoadConfig, Changed
  <2>2. CASE q # r
    <3>1. req'[q] = Idle
      BY <1>7, <2>2, Others DEF IInv, TypeOK
    <3> QED BY <3>1, OverClaimsNothing
  <2> QED BY <2>1, <2>2
<1>8. ASSUME ~crossed', ~behind' PROVE Differs'
  BY <1>1, <1>5, <1>8, DiffersKept
<1> QED BY <1>2, <1>3, <1>4, <1>6, <1>7, <1>8 DEF IInv

LEMMA RenameStep ==
    ASSUME IInv, NEW r \in Requests, Rename(r)
    PROVE  IInv'
<1> DEFINE new == IF req[r].orphan = "yes" THEN Idle
                  ELSE [req[r] EXCEPT !.pc = "renamed", !.fd = "none", !.copy = Empty]
           moved(q) == [req[q] EXCEPT !.fd = Moved(req[q].fd)]
<1>0. up' = up /\ req[r].pc = "written"
  BY DEF Rename
<1>1. req[r] \in Request /\ new \in Request
  <2>1. req[r] \in Request
    BY RequestTyped
  <2> HIDE DEF Request
  <2> QED BY <2>1, IdleType, RenamedType
<1>2. ASSUME NEW q \in Requests PROVE moved(q) \in Request
  <2>1. req[q] \in Request
    BY RequestTyped
  <2>2. Moved(req[q].fd) \in {"none", "tmp", "file", "gone"}
    BY <2>1 DEF Moved
  <2> HIDE DEF Request
  <2> QED BY <2>1, <2>2, WithFd
<1> USE DEF Rename
<1>3. /\ req'[r] = new
      /\ \A q \in Requests \ {r} : req'[q] = moved(q)
      /\ req' \in [Requests -> Request]
  BY <1>1, <1>2
<1> HIDE DEF new, moved
<1>4. TypeOK'
  BY <1>3 DEF IInv, TypeOK
<1>5. ASSUME NEW q \in Requests PROVE Steps(q)'
  <2>1. CASE q = r
    <3>1. CASE req[r].orphan = "yes"
      BY <1>3, <2>1, <3>1 DEF Steps, Idle, new
    <3>2. CASE req[r].orphan # "yes"
      <4>1. /\ req'[r].pc = "renamed" /\ req'[r].kind = req[r].kind
            /\ req'[r].orphan = req[r].orphan
        <5> HIDE DEF Rename, Request
        <5> QED BY <1>1, <1>3, <3>2, RenamedFields DEF new
      <4>2. req[r].orphan = "no"
        BY <1>1, <3>2
      <4> QED BY <1>0, <2>1, <4>1, <4>2 DEF IInv, Steps
    <3> QED BY <3>1, <3>2
  <2>2. CASE q # r
    <3>1. CASE req[q].pc = "idle"
      BY <1>3, <2>2, <3>1 DEF IInv, TypeOK, Steps, Idle, Moved, moved
    <3>2. CASE req[q].pc # "idle"
      BY <1>3, <2>2, <3>2 DEF IInv, TypeOK, Steps, moved
    <3> QED BY <3>1, <3>2
  <2> QED BY <2>1, <2>2
<1>6. (up \/ (login = Nobody /\ sessions = {}))'
  BY DEF IInv
<1>7. ASSUME ~crossed PROVE \A q \in Requests \ {r} : req[q] = Idle /\ req'[q] = Idle
  <2> SUFFICES ASSUME NEW q \in Requests \ {r} PROVE req[q] = Idle /\ req'[q] = Idle
    OBVIOUS
  <2> HIDE DEF Rename, Request
  <2>1. req[q] = Idle
    BY <1>0, <1>7, Others
  <2>2. Idle.fd = "none" /\ [Idle EXCEPT !.fd = "none"] = Idle
    BY DEF Idle
  <2>3. req'[q] = moved(q)
    BY <1>3
  <2> HIDE DEF Idle
  <2> QED BY <2>1, <2>2, <2>3 DEF Moved, moved
<1>8. ASSUME ~crossed
      PROVE  /\ file' = Changed(req[r].kind, req[r], LoadConfig) /\ file' \in Conf
             /\ LoadConfig' = file'
  <2>1. file' = Changed(req[r].kind, req[r], LoadConfig)
    BY <1>8 DEF IInv, OwnCopy
  <2>2. LoadConfig \in Conf
    BY <1>8, LoadConfigType DEF IInv
  <2>3. Changed(req[r].kind, req[r], LoadConfig) \in Conf
    BY <1>1, <2>2, ChangedType DEF IInv, Steps
  <2> QED BY <2>1, <2>3, TextAssumption DEF LoadConfig
<1>9. ASSUME ~crossed' PROVE Alone' /\ (file \notin {Empty, Torn})'
  BY <1>7, <1>8, <1>9, TextAssumption DEF Alone, Busy, Idle
<1>10. ASSUME ~crossed', NEW q \in Requests PROVE OwnCopy(q)' /\ ProvenWithCurrent(q)'
  <2>1. CASE q = r
    BY <1>1, <1>3, <1>10, <2>1
    DEF IInv, TypeOK, OwnCopy, ProvenWithCurrent, Idle, new
  <2>2. CASE q # r
    BY <1>7, <1>10, <2>2, OverClaimsNothing
  <2> QED BY <2>1, <2>2
<1>11. ASSUME ~crossed', ~behind' PROVE Differs'
  <2>1. req[r].orphan = "no" /\ req'[r].pc = "renamed"
    BY <1>1, <1>3, <1>11 DEF new
  <2>2. req'[r].kind = req[r].kind /\ req'[r].hash = req[r].hash /\ req'[r].user = req[r].user
    BY <1>1, <1>3, <2>1 DEF new
  <2>3. Stored(mem, LoadConfig)
    BY <1>11, NoneRenamed DEF IInv, Differs
  <2>4. Stored(Changed(req[r].kind, req[r], mem), Changed(req[r].kind, req[r], LoadConfig))
    BY <1>1, <1>11, <2>3, ChangedStored, LoadConfigType DEF IInv, TypeOK
  <2>5. Stored(Changed(req[r].kind, req[r], mem), LoadConfig)'
    BY <1>8, <1>11, <2>2, <2>4 DEF Changed, Stored
  <2>6. \A q \in Requests : req'[q].pc = "renamed" => q = r
    BY <1>7, <1>11 DEF Idle
  <2> QED BY <2>1, <2>5, <2>6 DEF Differs
<1> QED BY <1>4, <1>5, <1>6, <1>9, <1>10, <1>11 DEF IInv

LEMMA FailsStep ==
    ASSUME IInv, NEW r \in Requests, Fails(r)
    PROVE  IInv'
<1> USE DEF Fails
<1>1. Idle \in Request /\ Idle.pc = "idle"
  BY UsersAssumption DEF Idle
<1>2. TypeOK'
  BY <1>1 DEF IInv, TypeOK
<1>3. ASSUME NEW q \in Requests PROVE Steps(q)'
  BY DEF IInv, TypeOK, Steps, Idle
<1>4. (up \/ (login = Nobody /\ sessions = {}))'
  BY DEF IInv
<1>5. ASSUME ~crossed PROVE \A q \in Requests : req'[q] = Idle
  BY <1>5, Others DEF IInv, TypeOK
<1>6. ASSUME ~crossed' PROVE Alone' /\ (file \notin {Empty, Torn})'
  BY <1>1, <1>5, <1>6 DEF IInv, Alone, Busy
<1>7. ASSUME ~crossed', NEW q \in Requests PROVE OwnCopy(q)' /\ ProvenWithCurrent(q)'
  BY <1>5, <1>7, OverClaimsNothing
<1>8. ASSUME ~crossed', ~behind' PROVE Differs'
  <2>1. ~behind /\ req[r].pc # "renamed"
    BY <1>8
  <2>2. ~crossed /\ mem' = mem /\ file' = file /\ req' = [req EXCEPT ![r] = Idle]
    BY <1>8
  <2>3. req[r].pc \notin {"idle", "renamed"}
    BY <2>1
  <2> HIDE DEF Fails
  <2> QED BY <1>1, <2>1, <2>2, <2>3, DiffersKept
<1> QED BY <1>2, <1>3, <1>4, <1>6, <1>7, <1>8 DEF IInv

LEMMA TimesOutStep ==
    ASSUME IInv, NEW r \in Requests, TimesOut(r)
    PROVE  IInv'
<1> DEFINE new == [req[r] EXCEPT !.orphan = "yes"]
<1> USE DEF TimesOut
<1>1. req[r] \in Request /\ new \in Request
  <2>1. req[r] \in Request
    BY Typed DEF TypeOK
  <2>2. new \in Request
    BY <2>1
  <2> QED BY <2>1, <2>2
<1>2. TypeOK'
  BY <1>1 DEF IInv, TypeOK
<1>3. \A q \in Requests : Steps(q)'
  BY DEF IInv, TypeOK, Steps
<1>4. (up \/ (login = Nobody /\ sessions = {}))'
  BY DEF IInv
<1>5. ASSUME ~crossed' PROVE Alone' /\ (file \notin {Empty, Torn})'
  BY <1>5 DEF IInv, TypeOK, Alone, Busy
<1>6. ASSUME ~crossed', NEW q \in Requests PROVE OwnCopy(q)' /\ ProvenWithCurrent(q)'
  <2>1. CASE q = r
    <3>1. /\ req'[q].pc = req[q].pc /\ req'[q].fd = req[q].fd
          /\ req'[q].copy = req[q].copy /\ req'[q].kind = req[q].kind
          /\ req'[q].user = req[q].user /\ req'[q].hash = req[q].hash
          /\ req'[q].orphan = "yes"
      BY <1>1, <2>1 DEF IInv, TypeOK
    <3>2. OwnCopy(q)'
      BY <1>6, <3>1 DEF IInv, OwnCopy, LoadConfig, Changed
    <3>3. ProvenWithCurrent(q)'
      BY <3>1 DEF ProvenWithCurrent
    <3> QED BY <3>2, <3>3
  <2>2. CASE q # r
    <3>1. req'[q] = Idle
      BY <1>6, <2>2, Others DEF IInv, TypeOK
    <3> QED BY <3>1, OverClaimsNothing
  <2> QED BY <2>1, <2>2
<1>7. ASSUME ~crossed', ~behind' PROVE Differs'
  BY <1>1, <1>7, DiffersKept
<1> QED BY <1>2, <1>3, <1>4, <1>5, <1>6, <1>7 DEF IInv

LEMMA CommandFailsStep ==
    ASSUME IInv, NEW r \in Requests, CommandFails(r)
    PROVE  IInv'
<1> DEFINE gone(q) == [req[q] EXCEPT !.fd = IF req[q].fd = "tmp" THEN "gone" ELSE req[q].fd]
<1>1. Idle \in Request /\ Idle.pc = "idle" /\ Idle.fd = "none"
  BY UsersAssumption DEF Idle
<1>2. ASSUME NEW q \in Requests PROVE gone(q) \in Request
  <2>1. req[q] \in Request
    BY RequestTyped
  <2>2. (IF req[q].fd = "tmp" THEN "gone" ELSE req[q].fd) \in {"none", "tmp", "file", "gone"}
    BY <2>1
  <2> HIDE DEF Request
  <2> QED BY <2>1, <2>2, WithFd
<1>3. /\ req'[r] = Idle
      /\ \A q \in Requests \ {r} : req'[q] = gone(q)
      /\ req' \in [Requests -> Request]
  <2>1. req' = [q \in Requests |-> IF q = r THEN Idle ELSE gone(q)]
    BY DEF CommandFails
  <2> HIDE DEF Request, gone
  <2> QED BY <1>1, <1>2, <2>1
<1> HIDE DEF gone
<1> USE DEF CommandFails
<1>4. TypeOK'
  BY <1>3 DEF IInv, TypeOK
<1>5. ASSUME NEW q \in Requests PROVE Steps(q)'
  <2>1. CASE q = r
    BY <1>3, <2>1 DEF Steps, Idle
  <2>2. CASE q # r
    <3>1. CASE req[q].pc = "idle"
      BY <1>3, <2>2, <3>1 DEF IInv, TypeOK, Steps, Idle, gone
    <3>2. CASE req[q].pc # "idle"
      BY <1>3, <2>2, <3>2 DEF IInv, TypeOK, Steps, gone
    <3> QED BY <3>1, <3>2
  <2> QED BY <2>1, <2>2
<1>6. (up \/ (login = Nobody /\ sessions = {}))'
  BY DEF IInv
<1>7. ASSUME ~crossed PROVE \A q \in Requests : req[q].pc # "renamed" /\ req'[q] = Idle
  BY <1>3, <1>7, Others, NoneRenamed DEF Idle, gone
<1>8. ASSUME ~crossed' PROVE Alone' /\ (file \notin {Empty, Torn})'
  BY <1>1, <1>7, <1>8 DEF IInv, Alone, Busy
<1>9. ASSUME ~crossed', NEW q \in Requests PROVE OwnCopy(q)' /\ ProvenWithCurrent(q)'
  BY <1>7, <1>9, OverClaimsNothing
<1>10. ASSUME ~crossed', ~behind' PROVE Differs'
  BY <1>1, <1>7, <1>10 DEF IInv, Differs, LoadConfig, Stored
<1> QED BY <1>4, <1>5, <1>6, <1>8, <1>9, <1>10 DEF IInv

-----------------------------------------------------------------------------
(* The memory follows *)

\* A change that has replaced the file tells the memory, and is over or named.
LEMMA TakesStep ==
    ASSUME IInv, NEW r \in Requests, req[r].pc = "renamed",
           NEW new \in Request, new = Idle \/ (new.pc = "named" /\ req[r].kind = "username"),
           new.pc = "named" => new.kind = req[r].kind /\ new.orphan = req[r].orphan,
           req' = [req EXCEPT ![r] = new],
           mem' \in Conf, Stored(mem', Changed(req[r].kind, req[r], mem)),
           UNCHANGED <<up, fileVars, loginVars, crossed, behind, started>>
    PROVE  IInv'
<1>1. TypeOK'
  BY DEF IInv, TypeOK
<1>2. ASSUME NEW q \in Requests PROVE Steps(q)'
  BY DEF IInv, TypeOK, Steps, Idle
<1>3. (up \/ (login = Nobody /\ sessions = {}))'
  BY DEF IInv
<1>4. ASSUME ~crossed
      PROVE  /\ \A q \in Requests \ {r} : req'[q] = Idle
             /\ \A q \in Requests : req'[q].pc # "renamed"
  BY <1>4, Others DEF IInv, TypeOK, Idle
<1>5. ASSUME ~crossed' PROVE Alone' /\ (file \notin {Empty, Torn})'
  BY <1>4, <1>5 DEF IInv, Alone, Busy, Idle
<1>6. ASSUME ~crossed', NEW q \in Requests PROVE OwnCopy(q)' /\ ProvenWithCurrent(q)'
  <2>1. CASE req'[q] = Idle
    BY <2>1, OverClaimsNothing
  <2>2. CASE q = r /\ new.pc = "named"
    <3>1. req'[q].pc = "named" /\ req'[q].kind = "username"
      BY <2>2 DEF IInv, TypeOK, Steps, Idle
    <3> QED BY <3>1 DEF OwnCopy, ProvenWithCurrent
  <2> QED BY <1>4, <1>6, <2>1, <2>2 DEF IInv, TypeOK
<1>7. ASSUME ~crossed', ~behind' PROVE Differs'
  BY <1>4, <1>7 DEF IInv, Differs, Stored, LoadConfig
<1> QED BY <1>1, <1>2, <1>3, <1>5, <1>6, <1>7 DEF IInv

LEMMA MemoryStep ==
    ASSUME IInv, NEW r \in Requests, PasswordTakes(r) \/ NameTakes(r) \/ CertTakes(r)
    PROVE  IInv'
<1>1. req[r] \in Request /\ mem \in Conf
  BY DEF IInv, TypeOK
<1>2. CASE PasswordTakes(r)
  <2>1. mem' \in Conf /\ Stored(mem', Changed(req[r].kind, req[r], mem))
    BY <1>1, <1>2 DEF PasswordTakes, Stored, Changed
  <2> QED BY <1>2, <2>1, IdleType, TakesStep DEF PasswordTakes, Idle
<1>3. CASE NameTakes(r)
  <2> DEFINE new == [req[r] EXCEPT !.pc = "named"]
  <2>1. mem' \in Conf /\ Stored(mem', Changed(req[r].kind, req[r], mem))
    BY <1>1, <1>3 DEF NameTakes, Stored, Changed
  <2>2. /\ new \in Request /\ new.pc = "named" /\ new.kind = req[r].kind
        /\ new.orphan = req[r].orphan
    BY <1>1
  <2> HIDE DEF new
  <2>3. req' = [req EXCEPT ![r] = new]
    BY <1>3 DEF NameTakes, new
  <2> QED BY <1>3, <2>1, <2>2, <2>3, TakesStep DEF NameTakes
<1>4. CASE CertTakes(r)
  <2>1. mem' \in Conf /\ Stored(mem', Changed(req[r].kind, req[r], mem))
    <3>1. CASE req[r].kind = "issue"
      BY <1>1, <1>4, <3>1 DEF CertTakes, Stored, Changed
    <3>2. CASE req[r].kind # "issue"
      BY <1>1, <1>4, <3>2 DEF CertTakes, Stored, Changed
    <3> QED BY <3>1, <3>2
  <2> QED BY <1>4, <2>1, IdleType, TakesStep DEF CertTakes, Idle
<1> QED BY <1>2, <1>3, <1>4

LEMMA DeleteAllStep ==
    ASSUME IInv, NEW r \in Requests, DeleteAll(r)
    PROVE  IInv'
<1> USE DEF DeleteAll
<1>1. Idle \in Request /\ Idle.pc = "idle"
  BY IdleType DEF Idle
<1>2. TypeOK'
  BY <1>1 DEF IInv, TypeOK
<1>3. ASSUME NEW q \in Requests PROVE Steps(q)'
  BY DEF IInv, TypeOK, Steps, Idle
<1>4. (up \/ (login = Nobody /\ sessions = {}))'
  BY DEF IInv
<1>5. ASSUME ~crossed PROVE \A q \in Requests : req[q].pc # "renamed" /\ req'[q] = Idle
  BY <1>5, Others, NoneRenamed DEF IInv, TypeOK
<1>6. ASSUME ~crossed' PROVE Alone' /\ (file \notin {Empty, Torn})'
  BY <1>1, <1>5, <1>6 DEF IInv, Alone, Busy
<1>7. ASSUME ~crossed', NEW q \in Requests PROVE OwnCopy(q)' /\ ProvenWithCurrent(q)'
  BY <1>5, <1>7, OverClaimsNothing
<1>8. ASSUME ~crossed', ~behind' PROVE Differs'
  BY <1>1, <1>5, <1>8 DEF IInv, Differs, LoadConfig, Stored
<1> QED BY <1>2, <1>3, <1>4, <1>6, <1>7, <1>8 DEF IInv

-----------------------------------------------------------------------------
(* Sessions and the service *)

LEMMA SessionStep ==
    ASSUME IInv, LoginChecks \/ LoginStores \/ \E u \in sessions : SessionEnds(u)
    PROVE  IInv'
<1> USE DEF LoginChecks, LoginStores, SessionEnds
<1>1. UNCHANGED <<up, mem, fileVars, req, late, crossed, behind, started>>
  OBVIOUS
<1>2. TypeOK'
  BY DEF IInv, TypeOK
<1>3. \A q \in Requests : Steps(q)'
  BY <1>1 DEF IInv, Steps
<1>4. (up \/ (login = Nobody /\ sessions = {}))'
  BY DEF IInv
<1>5. Busy' = Busy /\ LoadConfig' = LoadConfig
  BY <1>1 DEF Busy, LoadConfig
<1>6. (~crossed => /\ Alone
                   /\ file \notin {Empty, Torn}
                   /\ \A r \in Requests : OwnCopy(r) /\ ProvenWithCurrent(r)
                   /\ ~behind => Differs)'
  BY <1>1, <1>5 DEF IInv, Alone, OwnCopy, ProvenWithCurrent, Differs
<1> QED BY <1>2, <1>3, <1>4, <1>6 DEF IInv

LEMMA DiesStep ==
    ASSUME IInv, Dies
    PROVE  IInv'
<1> DEFINE orphaned(q) == [req[q] EXCEPT !.orphan = "yes"]
<1>1. PICK survivors \in SUBSET {r \in Busy : req[r].pc \in {"out", "read", "opened", "written"}} :
        req' = [r \in Requests |-> IF r \in survivors THEN orphaned(r) ELSE Idle]
  BY DEF Dies
<1>2. \A q \in Requests : orphaned(q) \in Request
  BY Typed DEF TypeOK
<1>3. ASSUME NEW q \in Requests PROVE req'[q] = IF q \in survivors THEN orphaned(q) ELSE Idle
  BY <1>1
<1>4. ASSUME NEW q \in survivors
      PROVE  /\ q \in Requests /\ req[q].pc \in {"out", "read", "opened", "written"}
             /\ req'[q].pc = req[q].pc /\ req'[q].kind = req[q].kind
             /\ req'[q].copy = req[q].copy /\ req'[q].fd = req[q].fd
             /\ req'[q].orphan = "yes" /\ req'[q].user = req[q].user
             /\ req'[q].hash = req[q].hash
  BY <1>3 DEF IInv, TypeOK, Busy
<1>5. TypeOK'
  <2>1. req' \in [Requests -> Request]
    BY <1>1, <1>2, IdleType
  <2>2. behind' \in BOOLEAN /\ up' \in BOOLEAN
    BY DEF Dies
  <2>3. UNCHANGED <<mem, file, tmp, crossed, started>>
    BY DEF Dies
  <2>4. login' = Nobody /\ sessions' = {} /\ late' = {}
    BY DEF Dies
  <2> QED BY <2>1, <2>2, <2>3, <2>4, Typed DEF TypeOK
<1> HIDE DEF orphaned
<1>6. ASSUME NEW q \in Requests PROVE Steps(q)'
  <2>1. CASE q \in survivors
    BY <1>4, <2>1 DEF IInv, Steps
  <2>2. CASE q \notin survivors
    BY <1>3, <2>2 DEF Steps, Idle
  <2> QED BY <2>1, <2>2
<1>7. (up \/ (login = Nobody /\ sessions = {}))'
  BY DEF Dies
<1>8. UNCHANGED <<mem, fileVars, crossed>> /\ LoadConfig' = LoadConfig
  BY DEF Dies, LoadConfig
<1>9. ASSUME ~crossed' PROVE Alone' /\ (file \notin {Empty, Torn})'
  BY <1>3, <1>4, <1>8, <1>9 DEF IInv, Alone, Busy, Idle
<1>10. ASSUME ~crossed', NEW q \in Requests PROVE OwnCopy(q)' /\ ProvenWithCurrent(q)'
  <2>1. CASE q \in survivors
    <3>1. OwnCopy(q)'
      BY <1>4, <1>8, <1>10, <2>1 DEF IInv, OwnCopy, Changed
    <3>2. ProvenWithCurrent(q)'
      BY <1>4, <2>1 DEF ProvenWithCurrent
    <3> QED BY <3>1, <3>2
  <2>2. CASE q \notin survivors
    BY <1>3, <2>2, OverClaimsNothing
  <2> QED BY <2>1, <2>2
<1>11. ASSUME ~crossed', ~behind' PROVE Differs'
  <2>1. \A q \in Requests : req[q].pc # "renamed"
    BY <1>11 DEF Dies, Busy
  <2>2. \A q \in Requests : req'[q].pc # "renamed"
    BY <1>3, <1>4 DEF Idle
  <2>3. ~behind
    BY <1>11 DEF Dies
  <2>4. Stored(mem, LoadConfig)
    BY <1>8, <1>11, <2>1, <2>3 DEF IInv, Differs
  <2> QED BY <1>8, <2>2, <2>4 DEF Differs, Stored
<1> QED BY <1>5, <1>6, <1>7, <1>9, <1>10, <1>11 DEF IInv

LEMMA StartsStep ==
    ASSUME IInv, Starts
    PROVE  IInv'
<1> USE DEF Starts
<1>1. LoadConfig \in Conf /\ LoadConfig' = LoadConfig
  BY LoadConfigType DEF IInv, LoadConfig
<1>2. TypeOK'
  <2>1. crossed' \in BOOLEAN /\ behind' \in BOOLEAN /\ up' \in BOOLEAN
    OBVIOUS
  <2>2. UNCHANGED <<file, tmp, req, login, sessions, late, started>> /\ mem' \in Conf
    BY <1>1
  <2> QED BY <2>1, <2>2, Typed DEF TypeOK
<1>3. \A q \in Requests : Steps(q)'
  BY DEF IInv, Steps
<1>4. (up \/ (login = Nobody /\ sessions = {}))'
  OBVIOUS
<1>5. \A q \in Requests : req[q].pc = "idle" \/ req[q].orphan = "yes"
  BY DEF IInv, TypeOK, Steps
<1>6. ASSUME ~crossed' PROVE Alone' /\ (file \notin {Empty, Torn})'
  BY <1>6 DEF IInv, Alone, Busy
<1>7. ASSUME ~crossed', NEW q \in Requests PROVE OwnCopy(q)' /\ ProvenWithCurrent(q)'
  <2>1. ProvenWithCurrent(q)'
    BY <1>5 DEF ProvenWithCurrent
  <2>2. CASE ~crossed
    BY <1>1, <2>1, <2>2 DEF IInv, OwnCopy
  <2>3. CASE crossed
    BY <1>7, <2>1, <2>3 DEF OwnCopy, Busy
  <2> QED BY <2>1, <2>2, <2>3
<1>8. Differs'
  BY <1>1, <1>5 DEF IInv, Steps, Differs, Stored
<1> QED BY <1>2, <1>3, <1>4, <1>6, <1>7, <1>8 DEF IInv

-----------------------------------------------------------------------------
(* The theorems *)

LEMMA InitInv ==
    ASSUME Init
    PROVE  IInv
<1> USE DEF Init
<1>1. Idle \in Request /\ Idle.pc = "idle"
  BY IdleType DEF Idle
<1>2. file \in Conf \cup {Missing} /\ LoadConfig \in Conf
  BY UsersAssumption, TextAssumption DEF LoadConfig, DefaultConf
<1>3. TypeOK
  <2>1. req \in [Requests -> Request] /\ mem \in Conf /\ file \in Conf \cup NoText
    BY <1>1, <1>2
  <2>2. up \in BOOLEAN /\ crossed \in BOOLEAN /\ behind \in BOOLEAN
    OBVIOUS
  <2> QED BY <2>1, <2>2 DEF TypeOK
<1>4. \A r \in Requests : Steps(r) /\ OwnCopy(r) /\ ProvenWithCurrent(r)
  <2>1. \A r \in Requests : req[r] = Idle /\ req[r].pc = "idle"
    BY <1>1
  <2>2. \A r \in Requests : req[r].kind = "none"
    BY DEF Idle
  <2> QED BY <2>1, <2>2 DEF Steps, OwnCopy, ProvenWithCurrent
<1>5. Alone
  BY <1>1 DEF Alone, Busy
<1>6. file \notin {Empty, Torn}
  BY <1>2, TextAssumption
<1>7. Differs
  BY <1>1 DEF Differs, Stored
<1> QED BY <1>3, <1>4, <1>5, <1>6, <1>7 DEF IInv

LEMMA NextInv ==
    ASSUME IInv, [Next]_vars
    PROVE  IInv'
<1>1. ASSUME NEW r \in Requests, Step(r) PROVE IInv'
  BY <1>1, ReadFileStep, OpenTmpStep, WriteCopyStep, RenameStep, FailsStep, TimesOutStep,
     CommandFailsStep, MemoryStep, DeleteAllStep DEF Step
<1>2. CASE UNCHANGED vars
  BY <1>2 DEF vars, fileVars, loginVars, IInv, TypeOK, Steps, Alone, Busy, OwnCopy, Differs,
              ProvenWithCurrent, LoadConfig, Stored
<1> QED BY <1>1, <1>2, ChangeStep, SessionStep, DiesStep, StartsStep DEF Next

\* In every state a change that is alone works on the file as it is, its text
\* alone is under the temporary name, what it has yet to tell the memory is all
\* that parts it from the file, and the password it was proven with still
\* holds (auth_handlers.go, tls_handlers.go, setpassword.go).
THEOREM SettingsInvariant == Spec => []IInv
<1>1. Init => IInv
  BY InitInv
<1>2. IInv /\ [Next]_vars => IInv'
  BY NextInv
<1> QED BY <1>1, <1>2, PTL DEF Spec

\* When no change is under way, the Config in memory is what a restart would
\* read: the playbooks write what the handlers then take. Exceptions are a
\* crossing of two changes, and a file that, since the last start, the command
\* replaced, or a playbook whose handler had died, had given up waiting at the
\* runner's timeout, or got an error that came after the rename.
THEOREM MemoryAgrees == Spec => []MemoryIsStored
<1>1. IInv => MemoryIsStored
  BY DEF IInv, MemoryIsStored, Differs, AtRest, Busy
<1> QED BY <1>1, SettingsInvariant, PTL

\* Whichever step fails, and whenever the service dies, a change that is alone
\* never leaves a file that cannot be read, nor none where there was one
\* (SaveConfig writes "atomically", auth/config.go 87).
THEOREM FileStaysWhole == Spec => FileIsWhole
<1>1. ASSUME IInv, [Next]_vars, ~crossed'
      PROVE  file' \notin {Empty, Torn} /\ (file # Missing => file' # Missing)
  <2>1. file' \notin {Empty, Torn}
    BY <1>1, NextInv DEF IInv
  <2>2. CASE file' = file
    BY <2>1, <2>2
  <2>3. ASSUME NEW r \in Requests, Rename(r) PROVE file' # Missing
    BY <2>3 DEF Rename
  <2>4. ASSUME NEW r \in Requests, WriteCopy(r) PROVE file' = file
    <3>1. ~crossed
      BY <1>1, <2>4 DEF WriteCopy
    <3> QED BY <1>1, <2>4, <3>1 DEF WriteCopy, IInv, OwnCopy
  <2> QED
    BY <1>1, <2>1, <2>2, <2>3, <2>4
    DEF Next, Change, Step, Begin, ChangePassword, ChangeUsername, TlsGenCert, TlsSetConfig,
        TlsAcmeIssue, SetPassword, ReadFile, OpenTmp, Fails, TimesOut, CommandFails,
        PasswordTakes, NameTakes, DeleteAll, CertTakes, LoginChecks, LoginStores, SessionEnds, Dies, Starts, vars
<1>2. IInv /\ [Next]_vars =>
        [~crossed' => file' \notin {Empty, Torn} /\ (file # Missing => file' # Missing)]_vars
  BY <1>1
<1> QED BY <1>2, SettingsInvariant, PTL DEF Spec, FileIsWhole

\* Who is let in, or about to be, logged in under the name as it is.
SessionInv ==
    /\ Unnamed => sessions \cup {u \in Users : login = u} \subseteq {mem.user} \cup late
    /\ up \/ (login = Nobody /\ sessions = {})

\* A step that names nobody and unnames nobody.
LEMMA SessionInvKept ==
    ASSUME SessionInv, UNCHANGED <<sessions, login, late, up>>, mem'.user = mem.user,
           \A r \in Requests : req[r].pc = "named" => req'[r].pc = "named"
    PROVE  SessionInv'
BY DEF SessionInv, Unnamed

LEMMA SessionInvStep ==
    ASSUME IInv, SessionInv, [Next]_vars
    PROVE  SessionInv'
<1>1. req \in [Requests -> Request] /\ Idle.pc = "idle"
  BY Typed DEF TypeOK, Idle
<1>2. ASSUME NEW r \in Requests, Change(r) PROVE SessionInv'
  <2>1. PICK new : Begin(r, new)
    BY <1>2 DEF Change, ChangePassword, ChangeUsername, TlsGenCert, TlsSetConfig, TlsAcmeIssue,
                SetPassword
  <2>2. req[r].pc = "idle"
    BY <1>1, <2>1 DEF Begin
  <2>3. \A q \in Requests : req[q].pc = "named" => req'[q].pc = "named"
    BY <1>1, <2>1, <2>2 DEF Begin
  <2> QED BY <2>1, <2>3, SessionInvKept DEF Begin
<1>3. ASSUME NEW r \in Requests,
             ReadFile(r) \/ OpenTmp(r) \/ WriteCopy(r) \/ Fails(r) \/ TimesOut(r)
      PROVE  SessionInv'
  <2>1. req[r].pc # "named" /\ \A q \in Requests \ {r} : req'[q] = req[q]
    BY <1>1, <1>3 DEF ReadFile, OpenTmp, WriteCopy, Fails, TimesOut
  <2>2. UNCHANGED <<sessions, login, late, up, mem>>
    BY <1>3 DEF ReadFile, OpenTmp, WriteCopy, Fails, TimesOut
  <2> QED BY <2>1, <2>2, SessionInvKept
<1>4. ASSUME NEW r \in Requests, Rename(r) \/ CommandFails(r) PROVE SessionInv'
  <2>1. req[r].pc # "named" /\ \A q \in Requests \ {r} : req'[q].pc = req[q].pc
    BY <1>1, <1>4 DEF Rename, CommandFails
  <2>2. UNCHANGED <<sessions, login, late, up, mem>>
    BY <1>4 DEF Rename, CommandFails
  <2> QED BY <2>1, <2>2, SessionInvKept
<1>5. ASSUME NEW r \in Requests, PasswordTakes(r) \/ CertTakes(r) PROVE SessionInv'
  <2>1. req[r].pc # "named" /\ \A q \in Requests \ {r} : req'[q] = req[q]
    BY <1>1, <1>5 DEF PasswordTakes, CertTakes
  <2>2. mem'.user = mem.user
    BY <1>5, Typed DEF PasswordTakes, CertTakes, TypeOK
  <2>3. UNCHANGED <<sessions, login, late, up>>
    BY <1>5 DEF PasswordTakes, CertTakes
  <2> QED BY <2>1, <2>2, <2>3, SessionInvKept
<1>6. ASSUME NEW r \in Requests, NameTakes(r) PROVE SessionInv'
  <2>1. req'[r].pc = "named"
    BY <1>1, <1>6 DEF NameTakes
  <2> QED BY <1>6, <2>1 DEF NameTakes, SessionInv, Unnamed
<1>7. ASSUME NEW r \in Requests, DeleteAll(r) PROVE SessionInv'
  BY <1>7, TextAssumption DEF DeleteAll, SessionInv
<1>8. CASE LoginChecks \/ LoginStores \/ \E u \in sessions : SessionEnds(u)
  <2>1. Unnamed' = Unnamed
    BY <1>8 DEF LoginChecks, LoginStores, SessionEnds, Unnamed
  <2>2. mem' = mem /\ late' = late /\ up' = up
    BY <1>8 DEF LoginChecks, LoginStores, SessionEnds
  <2>3. CASE LoginChecks
    BY <2>1, <2>2, <2>3 DEF LoginChecks, SessionInv
  <2>4. CASE LoginStores
    <3>1. sessions' \cup {u \in Users : login' = u} = sessions \cup {u \in Users : login = u}
      BY <2>4, Typed, TextAssumption DEF LoginStores, TypeOK
    <3>2. up
      BY <2>4 DEF LoginStores, SessionInv
    <3> QED BY <2>1, <2>2, <3>1, <3>2 DEF SessionInv
  <2>5. CASE \E u \in sessions : SessionEnds(u)
    BY <2>1, <2>2, <2>5 DEF SessionEnds, SessionInv
  <2> QED BY <1>8, <2>3, <2>4, <2>5
<1>9. CASE Dies
  BY <1>9, TextAssumption DEF Dies, SessionInv
<1>10. CASE Starts
  BY <1>10, TextAssumption DEF Starts, SessionInv
<1>11. CASE UNCHANGED vars
  BY <1>11 DEF vars, loginVars, SessionInv, Unnamed
<1> QED
  BY <1>2, <1>3, <1>4, <1>5, <1>6, <1>7, <1>8, <1>9, <1>10, <1>11 DEF Next, Step

\* Everyone whose session lives logged in under the name as it is, once a change
\* of name has run its course, but for who was being logged in meanwhile
\* (changeUsername: "so everyone must re-login", auth_handlers.go 86).
THEOREM NamesAgree == Spec => []EveryoneLogsInAgain
<1>1. Init => SessionInv
  BY TextAssumption DEF Init, SessionInv
<1>2. IInv /\ SessionInv /\ [Next]_vars => SessionInv'
  BY SessionInvStep
<1>3. SessionInv => EveryoneLogsInAgain
  BY DEF SessionInv, EveryoneLogsInAgain
<1> QED BY <1>1, <1>2, <1>3, SettingsInvariant, PTL DEF Spec
=============================================================================
