------------------------------ MODULE Settings ------------------------------
(***************************************************************************)
(* dumpstore.conf and its copies: the file, the temporary file it is       *)
(* replaced by, the Config in the memory of the service, and the sessions. *)
(*                                                                         *)
(* A change of the credentials or of the certificate is a request that     *)
(* runs a playbook, which reads the file, changes its copy, writes all of  *)
(* it to one temporary path and renames that; only then does the handler   *)
(* change the memory (internal/api/auth_handlers.go, tls_handlers.go). The *)
(* command dumpstore --set-password does the same to the file from another *)
(* process (internal/auth/setpassword.go). No lock is held over a change,  *)
(* and the service may die at any point while the playbook goes on.        *)
(*                                                                         *)
(* A request that is refused for its form changes nothing and is no step.  *)
(***************************************************************************)
EXTENDS Naturals

CONSTANTS
    Requests,  \* changes that may be under way at a time
    Users,     \* names of the one account
    Admin,     \* the name used when none is stored
    Hashes,    \* password hashes
    NoHash,    \* no password is set
    Missing,   \* no file
    Empty,     \* a file that was truncated and not yet written
    Torn,      \* text that is not JSON
    Proxy,     \* TRUE where a trusted proxy vouches for users
    MaxChanges \* bound: requests started

ASSUME UsersAssumption == Admin \in Users
ASSUME HashesAssumption == NoHash \notin Hashes
ASSUME ChangesAssumption == MaxChanges \in Nat

\* Where the certificate lies: none, one the operator named or had generated,
\* or one that lego fetched; and whether a domain is stored for its renewal.
Certs == {"off", "own", "acme"}
Conf == [user : Users, hash : Hashes \cup {NoHash}, cert : Certs, acme : {"unset", "domain"}]
NoText == {Missing, Empty, Torn}
ASSUME TextAssumption ==
    /\ NoText \cap Conf = {} /\ NoText \cap Users = {}
    /\ Missing # Empty /\ Missing # Torn /\ Empty # Torn
ASSUME ProxyAssumption == Proxy \in BOOLEAN

VARIABLES
    up,       \* the service runs
    mem,      \* its Config; what it was when it died while it is down
    file,     \* dumpstore.conf
    tmp,      \* dumpstore.conf.tmp
    req,      \* the requests
    login,    \* a login between its check and its session: the name, or Nobody
    sessions, \* names under which the holders of live sessions logged in
    late,     \* names checked before the last change of name, stored after it
    crossed,  \* two changes have been under way at once
    behind,   \* a change replaced the file that the handler did not take into memory
    started   \* requests started

vars == <<up, mem, file, tmp, req, login, sessions, late, crossed, behind, started>>
fileVars == <<file, tmp>>
loginVars == <<login, sessions, late>>

Nobody == Missing
Kinds == {"password", "username", "gencert", "setcert", "issue", "command"}

\* "out" has yet to run its playbook, "read" has a copy of the file, "opened"
\* has truncated the temporary file, "written", "renamed" has replaced the
\* file, "named" has the new name in memory. fd is where the opened file is
\* found now; orphan tells that no handler waits for the playbook: it timed out,
\* or the service died meanwhile.
Idle == [pc |-> "idle", kind |-> "none", user |-> Admin, hash |-> NoHash, seen |-> NoHash,
         copy |-> Empty, fd |-> "none", orphan |-> "no"]
Request ==
    [pc : {"idle", "out", "read", "opened", "written", "renamed", "named"},
     kind : Kinds \cup {"none"}, user : Users, hash : Hashes \cup {NoHash},
     seen : Hashes \cup {NoHash}, copy : Conf \cup {Empty},
     fd : {"none", "tmp", "file", "gone"}, orphan : {"no", "yes"}]

TypeOK ==
    /\ up \in BOOLEAN
    /\ mem \in Conf
    /\ file \in Conf \cup NoText /\ tmp \in Conf \cup NoText
    /\ req \in [Requests -> Request]
    /\ login \in Users \cup {Nobody}
    /\ sessions \in SUBSET Users /\ late \in SUBSET Users
    /\ crossed \in BOOLEAN /\ behind \in BOOLEAN
    /\ started \in Nat

\* LoadConfig of a file that is not there, after defaults.
DefaultConf == [user |-> Admin, hash |-> NoHash, cert |-> "off", acme |-> "unset"]
LoadConfig == IF file = Missing THEN DefaultConf ELSE file

\* A host where the command or the installer may have set a password already.
Init ==
    /\ up = TRUE
    /\ file \in {Missing} \cup {[DefaultConf EXCEPT !.hash = p] : p \in Hashes}
    /\ mem = LoadConfig
    /\ tmp = Missing
    /\ req = [r \in Requests |-> Idle]
    /\ login = Nobody /\ sessions = {} /\ late = {}
    /\ crossed = FALSE /\ behind = FALSE /\ started = 0

Busy == {r \in Requests : req[r].pc # "idle"}

New(kind, user, hash, seen, orphan) ==
    [pc |-> "out", kind |-> kind, user |-> user, hash |-> hash, seen |-> seen,
     copy |-> Empty, fd |-> "none", orphan |-> orphan]
-----------------------------------------------------------------------------
(* What a change begins with *)

\* Wrap lets a request pass that has a live session, or a trusted proxy's word.
Allowed == up /\ (Proxy \/ sessions # {})

Begin(r, new) ==
    /\ req[r] = Idle /\ started < MaxChanges
    /\ started' = started + 1
    /\ req' = [req EXCEPT ![r] = new]
    /\ crossed' = (crossed \/ Busy # {})
    /\ UNCHANGED <<up, mem, fileVars, loginVars, behind>>

\* changePassword checks the current password against the hash in memory, which
\* it reads under authMu and then lets go.
ChangePassword(r) ==
    /\ Allowed /\ mem.hash # NoHash
    /\ \E p \in Hashes : Begin(r, New("password", Admin, p, mem.hash, "no"))

ChangeUsername(r) ==
    /\ Allowed
    /\ \E u \in Users : Begin(r, New("username", u, NoHash, NoHash, "no"))

\* The playbook that makes or fetches the certificate has succeeded, or the
\* named pair was loaded; when not, the request ends here and is no step.
TlsGenCert(r) == Allowed /\ Begin(r, New("gencert", Admin, NoHash, NoHash, "no"))
TlsSetConfig(r) == Allowed /\ Begin(r, New("setcert", Admin, NoHash, NoHash, "no"))
TlsAcmeIssue(r) == Allowed /\ Begin(r, New("issue", Admin, NoHash, NoHash, "no"))

\* The command asks for a password twice; it is no part of the service.
SetPassword(r) == \E p \in Hashes : Begin(r, New("command", Admin, p, NoHash, "yes"))

-----------------------------------------------------------------------------
(* The file *)

\* What a change makes of the copy. tls_set_config.yml knows the paths and the
\* enabled flag, and nothing of ACME.
Changed(k, q, c) ==
    [user |-> IF k = "username" THEN q.user ELSE c.user,
     hash |-> IF k \in {"password", "command"} THEN q.hash ELSE c.hash,
     cert |-> IF k \in {"gencert", "setcert"} THEN "own"
              ELSE IF k = "issue" THEN "acme" ELSE c.cert,
     acme |-> c.acme]

ReadNothing(r) ==
    /\ req[r].pc = "out"
    /\ file \notin {Empty, Torn}
    /\ req[r].kind \in {"password", "username"} => file # Missing
    /\ req' = [req EXCEPT ![r] = [@ EXCEPT !.pc = "read", !.copy = DefaultConf]]
    /\ UNCHANGED <<up, mem, fileVars, loginVars, crossed, behind, started>>

\* The playbooks of the credentials want a file; the others begin with {}, and
\* so does the command.
ReadFile(r) ==
    /\ req[r].pc = "out"
    /\ file \notin {Empty, Torn}
    /\ req[r].kind \in {"password", "username"} => file # Missing
    /\ req' = [req EXCEPT ![r] = [@ EXCEPT !.pc = "read", !.copy = LoadConfig]]
    /\ UNCHANGED <<up, mem, fileVars, loginVars, crossed, behind, started>>

OpenInPlace(r) ==
    /\ req[r].pc = "read"
    /\ req' = [req EXCEPT ![r] = [@ EXCEPT !.pc = "opened", !.fd = "file"]]
    /\ file' = Empty
    /\ UNCHANGED <<up, mem, tmp, loginVars, crossed, behind, started>>

\* open for writing truncates; who has the same file open shares it.
OpenTmp(r) ==
    /\ req[r].pc = "read"
    /\ req' = [req EXCEPT ![r] = [@ EXCEPT !.pc = "opened", !.fd = "tmp"]]
    /\ tmp' = Empty
    /\ UNCHANGED <<up, mem, file, loginVars, crossed, behind, started>>

\* Writing from the start over what another one wrote may leave its tail.
Over(c, new) == IF c = Empty THEN {new} ELSE {new, Torn}

\* What is open under the temporary name may have become the file meanwhile.
WriteCopy(r) ==
    LET new == Changed(req[r].kind, req[r], req[r].copy)
    IN /\ req[r].pc = "opened"
       /\ req' = [req EXCEPT ![r] = [@ EXCEPT !.pc = "written"]]
       /\ \/ req[r].fd = "tmp" /\ tmp' \in Over(tmp, new) /\ file' = file
          \/ req[r].fd = "file" /\ file' \in Over(file, new) /\ tmp' = tmp
          \/ req[r].fd = "gone" /\ UNCHANGED <<file, tmp>>
       /\ UNCHANGED <<up, mem, loginVars, crossed, behind, started>>

\* Where an opened file is found after the temporary one took the place of the
\* file.
Moved(fd) == IF fd = "tmp" THEN "file" ELSE IF fd = "file" THEN "gone" ELSE fd

Rename(r) ==
    /\ req[r].pc = "written" /\ tmp # Missing
    /\ file' = tmp /\ tmp' = Missing
    /\ req' = [q \in Requests |->
                 IF q = r
                 THEN IF req[r].orphan = "yes" THEN Idle
                      ELSE [req[r] EXCEPT !.pc = "renamed", !.fd = "none", !.copy = Empty]
                 ELSE [req[q] EXCEPT !.fd = Moved(req[q].fd)]]
    /\ behind' = (behind \/ req[r].orphan = "yes")
    /\ UNCHANGED <<up, mem, loginVars, crossed, started>>

\* A playbook may fail or be stopped at every step, and must where there is no
\* file, where it is not JSON, or where the temporary file is gone. The handler
\* answers with the error. What it leaves under the temporary name stays, and so
\* does the file when the error comes after the rename, without the memory
\* (runCore 183-208).
Fails(r) ==
    /\ req[r].pc \in {"out", "read", "opened", "written", "renamed"}
    /\ req' = [req EXCEPT ![r] = Idle]
    /\ behind' = (behind \/ req[r].pc = "renamed")
    /\ UNCHANGED <<up, mem, fileVars, loginVars, crossed, started>>

\* After the runner's timeout, which kills ansible-playbook and not the Python
\* that it had begun, the handler answers with an error.
TimesOut(r) ==
    /\ req[r].pc \in {"out", "read", "opened", "written"} /\ req[r].orphan = "no"
    /\ req' = [req EXCEPT ![r] = [@ EXCEPT !.orphan = "yes"]]
    /\ UNCHANGED <<up, mem, fileVars, loginVars, crossed, behind, started>>

\* SaveConfig takes the temporary file away when it fails.
CommandFails(r) ==
    /\ req[r].kind = "command" /\ req[r].pc \in {"opened", "written"}
    /\ tmp' = Missing
    /\ req' = [q \in Requests |->
                 IF q = r THEN Idle
                 ELSE [req[q] EXCEPT !.fd = IF @ = "tmp" THEN "gone" ELSE @]]
    /\ UNCHANGED <<up, mem, file, loginVars, crossed, behind, started>>

-----------------------------------------------------------------------------
(* The memory, after the playbook *)

PasswordTakes(r) ==
    /\ req[r].pc = "renamed" /\ req[r].kind = "password"
    /\ mem' = [mem EXCEPT !.hash = req[r].hash]
    /\ req' = [req EXCEPT ![r] = Idle]
    /\ UNCHANGED <<up, fileVars, loginVars, crossed, behind, started>>

\* The new name is in place before the sessions go.
NameTakes(r) ==
    /\ req[r].pc = "renamed" /\ req[r].kind = "username"
    /\ mem' = [mem EXCEPT !.user = req[r].user]
    /\ req' = [req EXCEPT ![r] = [@ EXCEPT !.pc = "named"]]
    /\ UNCHANGED <<up, fileVars, loginVars, crossed, behind, started>>

DeleteNone(r) ==
    /\ req[r].pc = "named"
    /\ late' = IF login = Nobody THEN {} ELSE {login}
    /\ req' = [req EXCEPT ![r] = Idle]
    /\ UNCHANGED <<up, mem, fileVars, login, sessions, crossed, behind, started>>
DeleteAll(r) ==
    /\ req[r].pc = "named"
    /\ sessions' = {}
    /\ late' = IF login = Nobody THEN {} ELSE {login}
    /\ req' = [req EXCEPT ![r] = Idle]
    /\ UNCHANGED <<up, mem, fileVars, login, crossed, behind, started>>

CertTakes(r) ==
    /\ req[r].pc = "renamed" /\ req[r].kind \in {"gencert", "setcert", "issue"}
    /\ mem' = IF req[r].kind = "issue" THEN [mem EXCEPT !.cert = "acme", !.acme = "domain"]
              ELSE [mem EXCEPT !.cert = "own"]
    /\ req' = [req EXCEPT ![r] = Idle]
    /\ UNCHANGED <<up, fileVars, loginVars, crossed, behind, started>>

-----------------------------------------------------------------------------
(* Sessions *)

\* handleLogin compares with the memory without a lock ...
LoginChecks ==
    /\ up /\ login = Nobody /\ mem.hash # NoHash
    /\ login' = mem.user
    /\ UNCHANGED <<up, mem, fileVars, req, sessions, late, crossed, behind, started>>

\* ... and then stores a session.
LoginStores ==
    /\ login # Nobody
    /\ sessions' = sessions \cup {login}
    /\ login' = Nobody
    /\ UNCHANGED <<up, mem, fileVars, req, late, crossed, behind, started>>

\* Logout, expiry seen by Valid, or by cleanup: one session fewer, and maybe not
\* the last of its name.
SessionEnds(u) ==
    /\ u \in sessions
    /\ sessions' = sessions \ {u}
    /\ UNCHANGED <<up, mem, fileVars, req, login, late, crossed, behind, started>>

-----------------------------------------------------------------------------
(* The service *)

\* Shutdown is no gentler: main returns when the listener is closed. Playbooks
\* may survive, and so does the command.
Dies ==
    /\ up
    /\ up' = FALSE
    /\ \E survivors \in SUBSET {r \in Busy : req[r].pc \in {"out", "read", "opened", "written"}} :
        /\ {r \in Busy : req[r].orphan = "yes"} \subseteq survivors
        /\ req' = [r \in Requests |->
                     IF r \in survivors THEN [req[r] EXCEPT !.orphan = "yes"] ELSE Idle]
    /\ behind' = (behind \/ \E r \in Busy : req[r].pc = "renamed")
    /\ login' = Nobody /\ sessions' = {} /\ late' = {}
    /\ UNCHANGED <<mem, fileVars, crossed, started>>

\* main reads the file, and gives up when it cannot.
Starts ==
    /\ ~up /\ file \notin {Empty, Torn}
    /\ up' = TRUE
    /\ mem' = LoadConfig
    /\ behind' = FALSE
    /\ crossed' = (crossed /\ Busy # {})
    /\ UNCHANGED <<fileVars, req, loginVars, started>>

Change(r) ==
    \/ ChangePassword(r) \/ ChangeUsername(r) \/ TlsGenCert(r) \/ TlsSetConfig(r)
    \/ TlsAcmeIssue(r) \/ SetPassword(r)
Step(r) ==
    \/ ReadFile(r) \/ OpenTmp(r) \/ WriteCopy(r) \/ Rename(r) \/ Fails(r) \/ TimesOut(r)
    \/ CommandFails(r)
    \/ PasswordTakes(r) \/ NameTakes(r) \/ DeleteAll(r) \/ CertTakes(r)

Next ==
    \/ \E r \in Requests : Change(r) \/ Step(r)
    \/ LoginChecks \/ LoginStores
    \/ \E u \in sessions : SessionEnds(u)
    \/ Dies \/ Starts

Spec == Init /\ [][Next]_vars

-----------------------------------------------------------------------------
(* Properties *)

AtRest == Busy = {}

\* The file is always one that can be read, and never lost, unless two changes
\* were under way at once: whoever fails or dies leaves the old one or the new.
FileIsWhole ==
    [][~crossed' => file' \notin {Empty, Torn} /\ (file # Missing => file' # Missing)]_vars

\* What a restart would bring is what the memory has, but for the domain, unless
\* changes crossed, or since the last start the file was replaced by the command or
\* by a playbook whose handler had died, had given up waiting or got an error.
Stored(a, b) == a.user = b.user /\ a.hash = b.hash /\ a.cert = b.cert
MemoryIsStored == AtRest /\ ~crossed /\ ~behind => Stored(mem, LoadConfig)

\* After a change of name everyone logs in again (auth_handlers.go 86), but for
\* who was being logged in at that moment.
Unnamed == \A r \in Requests : req[r].pc # "named"
EveryoneLogsInAgain == Unnamed => sessions \subseteq {mem.user} \cup late

\* Why: a change that is alone finds what it left. Its copy is of the file as it
\* is, the temporary file is its own, the file differs from the memory by what
\* is yet to be taken, and the password it was proven with is still the one.
Steps(r) ==
    /\ req[r].pc = "idle" => req[r] = Idle
    /\ req[r].pc # "idle" => req[r].kind # "none"
    /\ req[r].pc \in {"read", "opened", "written"} => req[r].copy \in Conf
    /\ req[r].pc # "idle" /\ req[r].orphan = "no" => up
    /\ req[r].pc \in {"renamed", "named"} => req[r].orphan = "no"
    /\ req[r].pc = "renamed" => req[r].kind # "command"
    /\ req[r].kind = "command" => req[r].orphan = "yes"
    /\ req[r].pc = "named" => req[r].kind = "username"
Alone == \A q, r \in Busy : q = r
OwnCopy(r) ==
    /\ req[r].pc \in {"read", "opened", "written"} => req[r].copy = LoadConfig
    /\ req[r].pc \in {"opened", "written"} => req[r].fd = "tmp"
    /\ req[r].pc = "opened" => tmp = Empty
    /\ req[r].pc = "written" => tmp = Changed(req[r].kind, req[r], LoadConfig)
Differs ==
    IF \E r \in Requests : req[r].pc = "renamed"
    THEN \A r \in Requests : req[r].pc = "renamed" =>
            Stored(Changed(req[r].kind, req[r], mem), LoadConfig)
    ELSE Stored(mem, LoadConfig)
ProvenWithCurrent(r) ==
    req[r].pc # "idle" /\ req[r].kind = "password" /\ req[r].orphan = "no" =>
        req[r].seen = mem.hash
IInv ==
    /\ TypeOK
    /\ \A r \in Requests : Steps(r)
    /\ up \/ (login = Nobody /\ sessions = {})
    /\ ~crossed =>
        /\ Alone
        /\ file \notin {Empty, Torn}
        /\ \A r \in Requests : OwnCopy(r) /\ ProvenWithCurrent(r)
        /\ ~behind => Differs
=============================================================================
