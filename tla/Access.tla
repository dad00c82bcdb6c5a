------------------------------- MODULE Access -------------------------------
(***************************************************************************)
(* Who may do what in a secured installation: the access file and the      *)
(* command that changes it (security/accounts.py), identification of a     *)
(* request by key, cookie or signed token, roles and grants                *)
(* (security/server.py, oidc.py), login and logout, streams, which check   *)
(* again between batches of events, and restores (operations/backup.py).   *)
(*                                                                         *)
(* A key stands for its token and its digest.  One run, one identity of    *)
(* the token issuer.  A signed token is its issue: the restores before it. *)
(* Left out: the limit on logins a minute, hosts and origins, and edits of *)
(* the access file by hand.                                                *)
(***************************************************************************)
EXTENDS Naturals, FiniteSets

CONSTANTS
    Keys,           \* those of the first file and those that issue_key makes
    FirstKeys,
    Revocations,    \* runs of issue_key with --revoke
    Subject, Role,  \* of keys; Subject also of revocations
    Clients,        \* requests
    Kinds,          \* what each request may ask for
    Tokens,         \* signed tokens, all of the subject Sso
    Creator,        \* the subject that made the run
    Grantees,       \* (bound) whose grants an administrator changes
    Sso, Nobody, NoSnapshot,
    MaxRestores     \* (bound)

Issues == Keys \ FirstKeys
Changes == Issues \cup Revocations
Users == [key : Keys, on : BOOLEAN]
Subjects == {Subject[k] : k \in Keys} \cup {Sso}
Credentials ==
    [by : {"key"}, id : Keys] \cup [by : {"cookie"}, id : Clients] \cup [by : {"token"}, id : Tokens]

VARIABLES
    file,       \* the users of the access file
    config,     \* ServerAccess.config
    lock,       \* the issue_key that holds the lock file, or Nobody
    change, base,   \* where each issue_key is, and the users it read
    wanted,     \* (history) the changes made, one after the other
    issued,     \* restores before the issue of each token; MaxRestores + 1: not yet
    expired,    \* tokens and cookies past their time
    db,         \* the tables: sessions, revoked, grants, met, boundary
    snapshot, restores,
    req,        \* requests
    held,       \* (history) what each request was entitled to since it came
    closed      \* (history) credentials logged out or older than a restore

vars == <<file, config, lock, change, base, wanted, issued, expired, db, snapshot,
          restores, req, held, closed>>
fileVars == <<file, lock, change, base, wanted>>
tokenVars == <<issued, expired, snapshot, restores>>

Facts == {"credential", "account", "right"}
InFlight(c) == req[c].at \in {"sent", "found", "known", "allowed", "batch", "following"}

TypeOK ==
    /\ file \in SUBSET Users /\ config \in SUBSET Users
    /\ lock \in Changes \cup {Nobody}
    /\ change \in [Changes -> {"new", "written", "done", "refused", "killed"}]
    /\ issued \in [Tokens -> 0..(MaxRestores + 1)]
    /\ db.sessions \subseteq [id : Clients, key : Keys]
    /\ db.revoked \subseteq Tokens /\ db.met \in BOOLEAN /\ db.boundary \in 0..MaxRestores
    /\ db.grants \in [Subjects -> {"none", "read", "write"}]
    /\ \A c \in Clients : req[c].at \in
         {"new", "sent", "found", "known", "allowed", "batch", "following", "done",
          "refused", "gone"}
    /\ held \in [Clients -> SUBSET Facts] /\ closed \subseteq Credentials

FirstFile == {[key |-> k, on |-> TRUE] : k \in FirstKeys}

Init ==
    /\ file = FirstFile /\ config = file /\ wanted = file
    /\ lock = Nobody
    /\ change = [o \in Changes |-> "new"] /\ base = [o \in Changes |-> {}]
    /\ issued = [t \in Tokens |-> MaxRestores + 1] /\ expired = {} /\ closed = {}
    /\ db = [sessions |-> {}, revoked |-> {}, met |-> FALSE, boundary |-> 0,
             grants |-> [s \in Subjects |-> IF s = Creator THEN "write" ELSE "none"]]
    /\ snapshot = NoSnapshot /\ restores = 0
    /\ req = [c \in Clients |-> [at |-> "new", kind |-> "none"]]
    /\ held = [c \in Clients |-> {}]
-----------------------------------------------------------------------------
(* The command that changes the access file *)

Of(users, s) == {u \in users : Subject[u.key] = s}
AdminsOn(users) == {u \in users : u.on /\ Role[u.key] = "admin"}

Updated(users, o) ==
    (users \ Of(users, Subject[o])) \cup
    (IF o \in Revocations THEN {[u EXCEPT !.on = FALSE] : u \in Of(users, Subject[o])}
     ELSE {[key |-> o, on |-> TRUE]})

\* AccessConfig.validate_config, and the subject of a revocation is known.
Accepted(users, o) ==
    /\ o \in Revocations => Of(users, Subject[o]) # {}
    /\ AdminsOn(Updated(users, o)) # {}

\* (mutant of LockFree) The lock is taken only to write.
LockAnyway == TRUE
LockFree == lock = Nobody

\* The file is read and checked, and a new key goes to its private file.
ReadFile(o) ==
    /\ change[o] = "new" /\ LockFree
    /\ base' = [base EXCEPT ![o] = file]
    /\ IF Accepted(file, o)
         THEN change' = [change EXCEPT ![o] = "written"] /\ lock' = o
         ELSE change' = [change EXCEPT ![o] = "refused"] /\ UNCHANGED lock
    /\ UNCHANGED <<file, wanted>>

\* tmp.replace(path); the lock ends with the process.
Replace(o) ==
    /\ change[o] = "written"
    /\ file' = Updated(base[o], o)
    /\ wanted' = Updated(wanted, o)
    /\ change' = [change EXCEPT ![o] = "done"]
    /\ lock' = Nobody
    /\ UNCHANGED base

KillChange(o) ==
    /\ change[o] = "written"
    /\ change' = [change EXCEPT ![o] = "killed"]
    /\ lock' = Nobody
    /\ UNCHANGED <<file, base, wanted>>

ChangeFile(o) == ReadFile(o) \/ Replace(o) \/ KillChange(o)
-----------------------------------------------------------------------------
(* Identification *)

Moved(c, at) == req' = [req EXCEPT ![c].at = at]

\* A cookie is named after the login that made it, which had a key.
Who(cred) ==
    CASE cred.by = "key" -> cred.id
      [] cred.by = "cookie" -> req[cred.id].cred.id
      [] cred.by = "token" -> Sso
SubjectOf(w) == IF w = Sso THEN Sso ELSE Subject[w]
RoleOf(w) == IF w = Sso THEN "operator" ELSE Role[w]

Presentable ==
    {cred \in Credentials :
        \/ cred.by = "key" /\ (cred.id \in Issues => change[cred.id] \in {"written", "done"})
        \/ cred.by = "token" /\ issued[cred.id] <= restores
        \/ /\ cred.by = "cookie" /\ req[cred.id].at = "done"
           /\ req[cred.id].kind = "login"}

Enabled(users, key) == [key |-> key, on |-> TRUE] \in users

\* authenticate reads the file first; by_token then needs no await.
\* (mutant of Reloaded) The file is read at the start only.
ReloadedNever == config
Reloaded == file
Identified(cred) ==
    CASE cred.by # "key" -> "sent"
      [] cred.by = "key" /\ Enabled(Reloaded, cred.id) -> "known"
      [] OTHER -> "refused"

Send(c) ==
    /\ req[c].at = "new"
    /\ \E cred \in Presentable, kind \in Kinds[c] :
         /\ kind = "login" => cred.by = "key"
         /\ req' = [req EXCEPT ![c] = [at |-> Identified(cred), cred |-> cred, kind |-> kind,
                                       who |-> Who(cred), with |-> {}]]
    /\ config' = Reloaded
    /\ UNCHANGED <<fileVars, tokenVars, db, closed>>

\* The row of the session, or that the token is not revoked.
Lookup(c) ==
    LET cred == req[c].cred
        rows == {r \in db.sessions : r.id = cred.id /\ cred \notin expired}
    IN
    /\ req[c].at = "sent"
    /\ \/ /\ cred.by = "cookie" /\ rows # {}
          /\ \E r \in rows : req' = [req EXCEPT ![c].at = "found", ![c].who = r.key]
       \/ cred.by = "token" /\ cred.id \notin db.revoked /\ Moved(c, "found")
       \/ cred.by = "cookie" /\ rows = {} /\ Moved(c, "refused")
       \/ cred.by = "token" /\ cred.id \in db.revoked /\ Moved(c, "refused")
    /\ UNCHANGED <<fileVars, tokenVars, config, db, closed>>

\* The account of the row in the configuration now in force; for a token its
\* signature and times, and that it is younger than the last restore.
\* (mutants of KeyHolds and YoungEnough)
KeyHoldsForSubject(key) == \E u \in config : u.on /\ Subject[u.key] = Subject[key]
KeyHolds(key) == Enabled(config, key)
YoungEnoughAlways(t) == TRUE
YoungEnough(t) == issued[t] >= db.boundary
Valid(cred, who) ==
    IF cred.by = "cookie" THEN KeyHolds(who) ELSE cred \notin expired /\ YoungEnough(cred.id)

Identify(c) ==
    LET ok == Valid(req[c].cred, req[c].who) IN
    /\ req[c].at = "found"
    /\ Moved(c, IF ok THEN "known" ELSE "refused")
    /\ db' = [db EXCEPT !.met = @ \/ (ok /\ req[c].who = Sso)]
    /\ UNCHANGED <<fileVars, tokenVars, config, closed>>
-----------------------------------------------------------------------------
(* Authorization *)

MayAsk(role, kind) ==
    CASE kind = "logout" -> TRUE
      [] kind \in {"read", "stream"} -> role # "auditor"
      [] kind \in {"write", "create"} -> role \in {"admin", "operator"}
      [] kind = "grant" -> role = "admin"

\* can_access: the run of the request is there for its subject.
\* (mutant of CanAccess) A grant to read is enough to write.
CanAccessAny(w, kind, grants) == RoleOf(w) = "admin" \/ grants[SubjectOf(w)] # "none"
CanAccess(w, kind, grants) ==
    RoleOf(w) = "admin" \/ grants[SubjectOf(w)] \in (IF kind = "write" THEN {"write"} ELSE {"read", "write"})

Permitted(w, kind, grants) ==
    MayAsk(RoleOf(w), kind) /\ (kind \in {"read", "write", "stream"} => CanAccess(w, kind, grants))

\* The answer is recorded in the audit log before the handler comes.
Authorize(c) ==
    LET r == req[c]
        ok == Permitted(r.who, r.kind, db.grants)
    IN
    /\ r.at = "known" /\ r.kind # "login"
    /\ Moved(c, IF ok THEN "allowed" ELSE "refused")
    /\ UNCHANGED <<fileVars, tokenVars, config, db, closed>>

Ready(c) == req[c].at = IF req[c].kind = "login" THEN "known" ELSE "allowed"

\* grant_access knows the users in force and the identities that have been here.
Known(s) == (s = Sso /\ db.met) \/ \E u \in config : u.on /\ Subject[u.key] = s

Effect(c) ==
    LET r == req[c] IN
    CASE r.kind = "login" ->
           db' = [db EXCEPT !.sessions = @ \cup {[id |-> c, key |-> r.who]}]
      [] r.kind = "create" -> db' = [db EXCEPT !.grants[SubjectOf(r.who)] = "write"]
      [] r.kind = "grant" ->
           \E s \in Grantees, p \in {"none", "read", "write"} :
              Known(s) /\ db' = [db EXCEPT !.grants[s] = p]
      [] r.kind = "logout" /\ r.cred.by = "cookie" ->
           db' = [db EXCEPT !.sessions = {row \in @ : row.id # r.cred.id}]
      [] r.kind = "logout" /\ r.cred.by = "token" ->
           db' = [db EXCEPT !.revoked = {t \in @ : [by |-> "token", id |-> t] \notin expired}
                                        \cup {r.cred.id}]
      [] OTHER -> db' = db

\* The handler.  A stream begins a batch: its replay, one live event, or the events
\* of its last flush.  It delivers them one by one, for as long as its client takes.
Act(c) ==
    /\ Ready(c)
    /\ Effect(c)
    /\ req' = [req EXCEPT ![c].at = IF req[c].kind = "stream" THEN "batch" ELSE "done",
                          ![c].with = held[c]]
    /\ closed' = closed \cup IF req[c].kind = "logout" /\ req[c].cred.by # "key"
                              THEN {req[c].cred} ELSE {}
    /\ UNCHANGED <<fileVars, tokenVars, config>>

\* After the last flush the stream is over.
BatchEnds(c) ==
    /\ req[c].at = "batch"
    /\ Moved(c, "following") \/ Moved(c, "done")
    /\ UNCHANGED <<fileVars, tokenVars, config, db, closed>>

\* (mutant of Recheck) A stream is authorized when it starts.
RecheckNever(c) ==
    /\ req[c].at = "following" /\ Moved(c, "allowed")
    /\ UNCHANGED <<fileVars, tokenVars, config, db, closed>>
Recheck(c) ==
    /\ req[c].at = "following"
    /\ config' = Reloaded
    /\ Moved(c, Identified(req[c].cred))
    /\ UNCHANGED <<fileVars, tokenVars, db, closed>>

Disconnect(c) ==
    /\ req[c].at \in {"batch", "following"} /\ Moved(c, "gone")
    /\ UNCHANGED <<fileVars, tokenVars, config, db, closed>>

Handle(c) ==
    \/ Send(c) \/ Lookup(c) \/ Identify(c) \/ Authorize(c) \/ Act(c)
    \/ BatchEnds(c) \/ Recheck(c) \/ Disconnect(c)
-----------------------------------------------------------------------------
(* Tokens, time and restores *)

IssueToken(t) ==
    /\ issued[t] > MaxRestores
    /\ issued' = [issued EXCEPT ![t] = restores]
    /\ UNCHANGED <<fileVars, expired, snapshot, restores, config, db, req, closed>>

Expire(cred) ==
    /\ cred.by # "key" /\ cred \in Presentable \ expired
    /\ expired' = expired \cup {cred}
    /\ UNCHANGED <<fileVars, issued, snapshot, restores, config, db, req, closed>>

\* Both need the service stopped, which ends its requests.
Stopped == [c \in Clients |-> IF InFlight(c) THEN [req[c] EXCEPT !.at = "gone"] ELSE req[c]]

Backup ==
    /\ snapshot = NoSnapshot /\ snapshot' = db
    /\ req' = Stopped
    /\ UNCHANGED <<fileVars, issued, expired, restores, config, db, closed>>

\* (mutant of Cleared) Restored as it was.
ClearedNothing(old) == old
Cleared(old) == [old EXCEPT !.sessions = {}, !.boundary = restores + 1]

Restore ==
    /\ snapshot # NoSnapshot /\ restores < MaxRestores
    /\ db' = Cleared(snapshot)
    /\ restores' = restores + 1
    /\ closed' = closed \cup {cred \in Presentable : cred.by # "key"}
    /\ req' = Stopped /\ config' = file
    /\ UNCHANGED <<fileVars, issued, expired, snapshot>>

\* What a request is entitled to at one moment.
Open(cred) ==
    cred.by # "key" =>
        /\ cred \notin closed \cup expired
        /\ cred.by = "cookie" => \E r \in db.sessions : r.id = cred.id
MayDo(w, kind) ==
    LET role == RoleOf(w)
        grant == db.grants[SubjectOf(w)]
    IN
    \/ kind \in {"login", "logout"} \/ role = "admin"
    \/ kind = "create" /\ role = "operator"
    \/ kind = "write" /\ role = "operator" /\ grant = "write"
    \/ kind \in {"read", "stream"} /\ role # "auditor" /\ grant # "none"
Entitled(c) ==
    LET r == req[c]
        w == Who(r.cred)
    IN {f \in Facts :
        \/ f = "credential" /\ Open(r.cred)
        \/ f = "account" /\ (w = Sso \/ Enabled(file, w))
        \/ f = "right" /\ MayDo(w, r.kind)}

Observe ==
    held' = [c \in Clients |->
        IF ~InFlight(c)' THEN {}
        ELSE (IF req'[c].at = "following" /\ req[c].at # "following" THEN {} ELSE held[c])
             \cup Entitled(c)']

Next ==
    /\ \/ \E o \in Changes : ChangeFile(o) /\ UNCHANGED <<config, tokenVars, db, req, closed>>
       \/ \E c \in Clients : Handle(c)
       \/ \E t \in Tokens : IssueToken(t)
       \/ \E cred \in Credentials : Expire(cred)
       \/ Backup \/ Restore
    /\ Observe

Spec == Init /\ [][Next]_vars
-----------------------------------------------------------------------------
(* Properties *)

\* Whatever acts for a request, be it the handler or a batch of a stream's events, does
\* so for the subject of its credential; and since the request came, or since the batch
\* before, there was a moment at which its credential was open, one at which its account
\* was enabled, and one at which its role and grants allowed it: keys replaced or
\* revoked, logouts, grants taken back and restores of an old snapshot all end what was
\* possible before.  They do not end a batch: what a stream replays, or flushes at its
\* end, goes out to the last event on the one check before it.
ActsWithAuthority ==
    \A c \in Clients : req[c].at \in {"done", "batch", "following"} =>
        /\ req[c].with = Facts
        /\ req[c].who = Who(req[c].cred)

\* However runs of issue_key interleave or die, the file is what their completed
\* changes make one after the other, and some administrator can always log in.
AccountsKept == file = wanted /\ AdminsOn(file) # {}
=============================================================================
