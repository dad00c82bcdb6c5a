--------------------------- MODULE AccessProofs ----------------------------
(***************************************************************************)
(* The access file keeps every change and an administrator, and what is    *)
(* done for a request was allowed while it ran: for any number of keys,    *)
(* revocations, clients, tokens and restores, however runs of issue_key    *)
(* interleave or die and requests wait between their checks and their act. *)
(***************************************************************************)
EXTENDS ServicesProofs

\* What ties a run of issue_key to the file: between its reading and its writing it
\* holds the lock, the file is the one it read, and its result is acceptable.
AccountInv ==
    /\ change \in [Access!Changes -> {"new", "written", "done", "refused", "killed"}]
    /\ DOMAIN users = Access!Changes
    /\ \A o \in Access!Changes : change[o] = "written" =>
         writer = o /\ users[o] = file /\ Access!AdminsOn(Access!Updated(file, o)) # {}
    /\ Access!AccountsKept

\* The first file has an administrator that is on (AccessConfig.validate_config).
LEMMA AccountInit ==
    ASSUME Access!AdminsOn(Access!FirstFile) # {}, Access!Init
    PROVE  AccountInv
  BY DEF Access!Init, AccountInv, Access!AccountsKept

\* A run that reads the file finds the lock free, so none other is half-way.
LEMMA ReadKeepsAccounts ==
    ASSUME AccountInv, Nobody \notin Access!Changes, NEW o \in Access!Changes, Access!ReadFile(o)
    PROVE  AccountInv'
  <1>1. \A x \in Access!Changes : change[x] # "written"
    BY DEF Access!ReadFile, Access!LockFree, AccountInv
  <1>2. file' = file /\ wanted' = wanted
    BY DEF Access!ReadFile
  <1>3. /\ change' \in [Access!Changes -> {"new", "written", "done", "refused", "killed"}]
        /\ DOMAIN users' = Access!Changes
    BY DEF Access!ReadFile, AccountInv
  <1>4. ASSUME NEW x \in Access!Changes, change'[x] = "written"
        PROVE  x = o /\ writer' = o /\ users'[o] = file
                  /\ Access!AdminsOn(Access!Updated(file, o)) # {}
    BY <1>1, <1>4 DEF Access!ReadFile, AccountInv, Access!Accepted
  <1>5. Access!AccountsKept'
    BY <1>2 DEF AccountInv, Access!AccountsKept, Access!AdminsOn
  <1>6. \A x \in Access!Changes : change'[x] = "written" =>
          writer' = x /\ users'[x] = file' /\ Access!AdminsOn(Access!Updated(file', x)) # {}
    BY <1>2, <1>4
  <1>7. (\A x \in Access!Changes : change[x] = "written" =>
          writer = x /\ users[x] = file /\ Access!AdminsOn(Access!Updated(file, x)) # {})'
    BY <1>6 DEF Access!AdminsOn, Access!Updated, Access!Of
  <1> QED BY <1>3, <1>5, <1>7 DEF AccountInv

\* The run that writes is the one that holds the lock: what it writes is its change
\* of the present file.
LEMMA WriteKeepsAccounts ==
    ASSUME AccountInv, NEW o \in Access!Changes, Access!Replace(o) \/ Access!KillChange(o)
    PROVE  AccountInv'
  <1>1. /\ change[o] = "written" /\ writer = o /\ users[o] = file
        /\ Access!AdminsOn(Access!Updated(file, o)) # {}
    BY DEF Access!Replace, Access!KillChange, AccountInv
  <1>2. \A x \in Access!Changes \ {o} : change[x] # "written"
    BY <1>1 DEF AccountInv
  <1>3. \A x \in Access!Changes : change'[x] # "written"
    BY <1>2 DEF Access!Replace, Access!KillChange, AccountInv
  <1>4. /\ change' \in [Access!Changes -> {"new", "written", "done", "refused", "killed"}]
        /\ DOMAIN users' = Access!Changes
    BY DEF Access!Replace, Access!KillChange, AccountInv
  <1>5. Access!AccountsKept'
    <2>1. CASE Access!Replace(o)
      <3>1. file' = Access!Updated(file, o) /\ wanted' = Access!Updated(file, o)
        BY <1>1, <2>1 DEF Access!Replace, AccountInv, Access!AccountsKept
      <3> QED BY <1>1, <3>1 DEF Access!AccountsKept, Access!AdminsOn
    <2>2. CASE Access!KillChange(o)
      BY <2>2 DEF Access!KillChange, AccountInv, Access!AccountsKept, Access!AdminsOn
    <2> QED BY <2>1, <2>2
  <1> QED BY <1>3, <1>4, <1>5 DEF AccountInv

\* Nothing else writes the access file.
LEMMA OthersKeepAccounts ==
    ASSUME AccountInv, UNCHANGED Access!fileVars
    PROVE  AccountInv'
  BY DEF AccountInv, Access!AccountsKept, Access!fileVars, Access!AdminsOn, Access!Updated,
     Access!Of

\* No step loses a change of the access file.
LEMMA StepKeepsAccounts ==
    ASSUME AccountInv, Nobody \notin Access!Changes, [Access!Next]_(Access!vars)
    PROVE  AccountInv'
  <1>1. CASE \E o \in Access!Changes : Access!ChangeFile(o)
    BY <1>1, ReadKeepsAccounts, WriteKeepsAccounts DEF Access!ChangeFile
  <1>2. CASE \E c \in Clients : Access!Handle(c)
    <2>1. UNCHANGED Access!fileVars
      BY <1>2 DEF Access!Handle, Access!Send, Access!Lookup, Access!Identify, Access!Authorize,
         Access!Act, Access!BatchEnds, Access!Recheck, Access!Disconnect, Access!Moved
    <2> QED BY <2>1, OthersKeepAccounts
  <1>3. CASE (\E t \in Tokens : Access!IssueToken(t)) \/ (\E cred
                 \in Access!Credentials : Access!Expire(cred))
    BY <1>3, OthersKeepAccounts DEF Access!IssueToken, Access!Expire
  <1>4. CASE Access!Backup \/ Access!Restore
    BY <1>4, OthersKeepAccounts DEF Access!Backup, Access!Restore
  <1>5. CASE UNCHANGED Access!vars
    BY <1>5, OthersKeepAccounts DEF Access!vars, Access!fileVars
  <1> QED BY <1>1, <1>2, <1>3, <1>4, <1>5 DEF Access!Next

\* The tables of the installation and of a snapshot.
AccessTables == [sessions : SUBSET [id : Clients, key : ApiKeys], revoked : SUBSET Tokens,
  met : BOOLEAN,
           boundary : 0..MaxRestores, grants : [Access!Subjects -> {"none", "read", "write"}]]

\* A request that came.
Requested(c) ==
    [at : {"sent", "found", "known", "allowed", "batch", "following", "done", "refused", "gone"},
     cred : Access!Credentials, kind : Wishes[c], who : ApiKeys \cup {Sso},
       with : SUBSET Access!Facts]

AccessShapes ==
    /\ loaded \in SUBSET Access!Users
    /\ issued \in [Tokens -> 0..(MaxRestores + 1)]
    /\ tables \in AccessTables /\ copied \in AccessTables \cup {NotTaken}
    /\ returns \in 0..MaxRestores /\ tables.boundary = returns
    /\ req = [c \in Clients |-> req[c]]
    /\ \A c \in Clients : req[c].at = "new" \/ req[c] \in Requested(c)
    /\ entitled \in [Clients -> SUBSET Access!Facts]
    /\ closed \subseteq Access!Credentials

LoggedIn(c) == req[c].at = "done" /\ req[c].kind = "login"

\* A request is its credential's, and a cookie that of a login that is over.
RequestOK(c) ==
    LET r == req[c] IN
    r.at # "new" =>
        /\ r.who = Access!Who(r.cred)
        /\ r.kind = "login" => r.cred.by = "key"
        /\ r.cred.by = "cookie" => LoggedIn(r.cred.id)
        /\ r.cred.by = "token" => issued[r.cred.id] <= returns

\* What a request has been entitled to when it is half-way.  A token that is out of
\* date where its row is found does not come further.
Backed(c) ==
    LET r == req[c] IN
    /\ r.at \in {"sent", "found"} =>
         /\ r.cred.by # "key"
         /\ Access!Who(r.cred) = Sso \/ Access!Enabled(loaded, Access!Who(r.cred))
                => "account" \in entitled[c]
    /\ r.at = "found" =>
         \/ "credential" \in entitled[c]
         \/ r.cred.by = "token" /\ (r.cred \in expired \/ issued[r.cred.id] < tables.boundary)
    /\ r.at \in {"known", "allowed"} => {"credential", "account"} \subseteq entitled[c]
    /\ (r.at = "known" /\ r.kind = "login") \/ r.at = "allowed" => "right" \in entitled[c]
    /\ r.at \in {"done", "batch", "following"} => r.with = Access!Facts

\* Sessions are those of logins, and what is closed does not open again.
SessionRowsOK ==
    \A row \in tables.sessions : LoggedIn(row.id) /\ row.key = req[row.id].cred.id
ClosedOK ==
    /\ \A k \in Clients : [by |-> "cookie", id |-> k] \in closed =>
         LoggedIn(k) /\ \A row \in tables.sessions : row.id # k
    /\ \A t \in Tokens : [by |-> "token", id |-> t] \in closed =>
         /\ issued[t] <= returns
         /\ t \in tables.revoked \/ [by |-> "token",
            id |-> t] \in expired \/ issued[t] < tables.boundary

AuthInv ==
    /\ AccessShapes /\ SessionRowsOK /\ ClosedOK
    /\ \A c \in Clients : RequestOK(c) /\ Backed(c)

AccessGiven ==
    /\ MaxRestores \in Nat /\ FirstKeys \subseteq ApiKeys
    /\ \A c \in Clients :
         Wishes[c] \subseteq {"login", "logout", "read", "write", "create", "grant", "stream"}

\* At first nobody has asked for anything.
LEMMA AuthInit == AccessGiven /\ Access!Init => AuthInv
  <1> SUFFICES ASSUME AccessGiven, Access!Init PROVE AuthInv
    OBVIOUS
  <1>1. AccessShapes
    <2>1. ASSUME NEW u \in Access!FirstFile PROVE u \in Access!Users
      <3>1. PICK k \in FirstKeys : u = [key |-> k, on |-> TRUE]
        BY DEF Access!FirstFile
      <3>2. k \in ApiKeys
        BY DEF AccessGiven
      <3> QED BY <3>1, <3>2 DEF Access!Users
    <2>2. loaded \in SUBSET Access!Users
      BY <2>1 DEF Access!Init
    <2>3. tables \in AccessTables /\ returns \in 0..MaxRestores /\ tables.boundary = returns
      BY DEF Access!Init, AccessTables, AccessGiven
    <2>4. /\ issued \in [Tokens -> 0..(MaxRestores + 1)] /\ copied
                 \in AccessTables \cup {NotTaken}
          /\ req = [c \in Clients |-> req[c]] /\ entitled \in [Clients -> SUBSET Access!Facts]
          /\ \A c \in Clients : req[c].at = "new"
          /\ closed \subseteq Access!Credentials
      BY DEF Access!Init, AccessGiven
    <2> QED BY <2>1, <2>2, <2>3, <2>4 DEF AccessShapes
  <1>2. SessionRowsOK /\ ClosedOK
    BY DEF Access!Init, SessionRowsOK, ClosedOK
  <1>3. \A c \in Clients : RequestOK(c) /\ Backed(c)
    BY DEF Access!Init, RequestOK, Backed
  <1> QED BY <1>1, <1>2, <1>3 DEF AuthInv

\* Whose a credential is does not change: a login that is over stays so.
LEMMA WhoStays ==
    ASSUME \A k \in Clients : LoggedIn(k) => req'[k] = req[k],
           NEW cred \in Access!Credentials, cred.by = "cookie" => LoggedIn(cred.id)
    PROVE  /\ Access!Who(cred)' = Access!Who(cred)
           /\ cred.by = "cookie" => LoggedIn(cred.id)'
  <1>1. cred.by \in {"key", "cookie", "token"}
    BY DEF Access!Credentials
  <1>2. cred.by = "cookie" => cred.id \in Clients
    BY DEF Access!Credentials
  <1> QED BY <1>1, <1>2 DEF LoggedIn, Access!Who

\* What a request that is half-way is entitled to adds to what it was.
LEMMA Observed ==
    ASSUME AccessShapes, Access!Observe, NEW c \in Clients, Access!InFlight(c)',
           req'[c].at = "following" => req[c].at = "following"
    PROVE  entitled'[c] = entitled[c] \cup Access!Entitled(c)' /\ entitled'
              \in [Clients -> SUBSET Access!Facts]
  <1>1. \A k \in Clients : Access!Entitled(k)' \subseteq Access!Facts
    BY DEF Access!Entitled
  <1>2. entitled' \in [Clients -> SUBSET Access!Facts]
    BY <1>1 DEF Access!Observe, AccessShapes
  <1> QED BY <1>2 DEF Access!Observe

\* What any step but that of the request itself leaves of it.
Beside ==
    /\ \A k \in Clients : LoggedIn(k) => req'[k] = req[k]
    /\ \A t \in Tokens : issued[t] <= returns => issued'[t] = issued[t]
    /\ returns \in Nat /\ returns' \in Nat /\ returns <= returns'
    /\ expired \subseteq expired'
    /\ loaded' = loaded \/ loaded' = file'
\* What does not touch a request, the tables it rests on or its credential keeps it backed.
LEMMA OthersStayBacked ==
    ASSUME AuthInv, Beside, tables'.boundary = tables.boundary, Access!Observe,
           NEW c \in Clients, req'[c] = req[c]
    PROVE  RequestOK(c)' /\ Backed(c)'
  <1>1. CASE req[c].at = "new"
    BY <1>1 DEF RequestOK, Backed
  <1>2. CASE req[c].at # "new"
    <2> DEFINE cred == req[c].cred
    <2>1. RequestOK(c) /\ Backed(c) /\ AccessShapes /\ cred \in Access!Credentials
      BY <1>2 DEF AuthInv, AccessShapes, Requested
    <2>2. /\ Access!Who(cred)' = Access!Who(cred) /\ cred' = cred
          /\ cred.by = "cookie" => LoggedIn(cred.id)'
      <3>1. cred.by = "cookie" => LoggedIn(cred.id)
        BY <1>2, <2>1 DEF RequestOK
      <3> QED BY <2>1, <3>1, WhoStays DEF Beside
    <2>3. cred.by = "token" => issued[cred.id] <= returns /\ issued'[cred.id] = issued[cred.id]
                                /\ issued'[cred.id] <= returns'
      BY <1>2, <2>1 DEF RequestOK, Beside, AccessShapes, Access!Credentials
    <2>4. RequestOK(c)'
      BY <1>2, <2>1, <2>2, <2>3 DEF RequestOK
    <2>5. CASE ~Access!InFlight(c)
      BY <2>1, <2>4, <2>5 DEF Backed, Access!InFlight
    <2>6. CASE Access!InFlight(c)
      <3>1. entitled'[c] = entitled[c] \cup Access!Entitled(c)'
        BY <2>1, <2>6, Observed DEF Access!InFlight
      <3>2. Access!Who(cred)' = Sso \/ Access!Enabled(file, Access!Who(cred))' => "account"
                \in Access!Entitled(c)'
        BY <2>2 DEF Access!Entitled, Access!Facts
      <3> QED BY <2>1, <2>2, <2>3, <2>4, <2>6, <3>1, <3>2 DEF Backed, Beside, Access!Enabled
    <2> QED BY <2>4, <2>5, <2>6
  <1> QED BY <1>1, <1>2

\* A change of the access file takes nothing from a request that was allowed before.
LEMMA AccountsKeepAuth ==
    ASSUME AuthInv, Access!Observe, UNCHANGED <<loaded, Access!tokenVars, tables, req, closed>>
    PROVE  AuthInv'
  <1> USE DEF Access!tokenVars
  <1>1. AccessShapes'
    <2>1. \A c \in Clients : Access!Entitled(c)' \subseteq Access!Facts
      BY DEF Access!Entitled
    <2>2. entitled' \in [Clients -> SUBSET Access!Facts]
      BY <2>1 DEF Access!Observe, AuthInv, AccessShapes
    <2> QED BY <2>2 DEF AuthInv, AccessShapes, Requested
  <1>2. SessionRowsOK' /\ ClosedOK'
    BY DEF AuthInv, SessionRowsOK, ClosedOK, LoggedIn
  <1>3. Beside
    BY DEF Beside, AuthInv, AccessShapes
  <1> QED BY <1>1, <1>2, <1>3, OthersStayBacked DEF AuthInv

\* A token is issued or something expires.
LEMMA TimeKeepsAuth ==
    ASSUME AccessGiven, AuthInv, Access!Observe,
           (\E t \in Tokens : Access!IssueToken(t)) \/ \E cred
                 \in Access!Credentials : Access!Expire(cred)
    PROVE  AuthInv'
  <1>1. /\ UNCHANGED <<loaded, copied, returns, tables, req,
           closed>> /\ expired \subseteq expired'
        /\ issued' \in [Tokens -> 0..(MaxRestores + 1)]
        /\ \A t \in Tokens : issued[t] <= returns => issued'[t] = issued[t]
    <2>1. CASE \E t \in Tokens : Access!IssueToken(t)
      BY <2>1 DEF Access!IssueToken, AuthInv, AccessShapes, AccessGiven
    <2>2. CASE \E cred \in Access!Credentials : Access!Expire(cred)
      BY <2>2 DEF Access!Expire, AuthInv, AccessShapes
    <2> QED BY <2>1, <2>2
  <1>2. AccessShapes'
    <2>1. \A c \in Clients : Access!Entitled(c)' \subseteq Access!Facts
      BY DEF Access!Entitled
    <2>2. entitled' \in [Clients -> SUBSET Access!Facts]
      BY <2>1 DEF Access!Observe, AuthInv, AccessShapes
    <2> QED BY <1>1, <2>2 DEF AuthInv, AccessShapes, Requested
  <1>3. SessionRowsOK' /\ ClosedOK'
    BY <1>1 DEF AuthInv, SessionRowsOK, ClosedOK, LoggedIn
  <1>4. Beside
    BY <1>1 DEF Beside, AuthInv, AccessShapes, AccessGiven
  <1> QED BY <1>1, <1>2, <1>3, <1>4, OthersStayBacked DEF AuthInv

\* The service stops, which ends what is half-way.
LEMMA StoppedKeepsRequests ==
    ASSUME AuthInv, req' = Access!Stopped, returns' \in Nat, returns <= returns',
           issued' = issued, expired \subseteq expired', returns \in Nat
    PROVE  /\ req' = [c \in Clients |-> req'[c]]
           /\ \A c \in Clients : LoggedIn(c) => req'[c] = req[c]
           /\ \A c \in Clients : req'[c].at = "new" \/ (req'[c] \in Requested(c)
                  /\ ~Access!InFlight(c)')
           /\ \A c \in Clients : RequestOK(c)' /\ Backed(c)'
  <1>1. req' = [c \in Clients |-> req'[c]] /\ \A c \in Clients : LoggedIn(c) => req'[c] = req[c]
    BY DEF Access!Stopped, LoggedIn, Access!InFlight
  <1>2. ASSUME NEW c \in Clients
        PROVE  /\ req'[c].at = "new" \/ (req'[c] \in Requested(c) /\ ~Access!InFlight(c)')
               /\ RequestOK(c)' /\ Backed(c)'
    <2>1. CASE req[c].at = "new"
      <3>1. req'[c] = req[c]
        BY <2>1 DEF Access!Stopped, Access!InFlight
      <3> QED BY <2>1, <3>1 DEF RequestOK, Backed
    <2>2. CASE req[c].at # "new"
      <3>0. req[c] \in Requested(c) /\ RequestOK(c) /\ Backed(c)
        BY <2>2 DEF AuthInv, AccessShapes
      <3>1. PICK cred \in Access!Credentials : cred = req[c].cred
        BY <3>0 DEF Requested
      <3>2. /\ req'[c] \in Requested(c) /\ req'[c].cred = cred /\ req'[c].kind = req[c].kind
            /\ req'[c].who = req[c].who /\ req'[c].with = req[c].with
            /\ req'[c].at = IF Access!InFlight(c) THEN "gone" ELSE req[c].at
        BY <3>0, <3>1 DEF Access!Stopped, Requested
      <3>3. Access!Who(cred)' = Access!Who(cred) /\ (cred.by = "cookie" => LoggedIn(cred.id)')
        BY <1>1, <2>2, <3>0, <3>1, WhoStays DEF RequestOK
      <3>4. RequestOK(c)'
        BY <2>2, <3>0, <3>1, <3>2, <3>3 DEF RequestOK, AuthInv, AccessShapes, Access!Credentials
      <3>5. req'[c].at \in {"done", "refused", "gone"} /\ (req'[c].at = "done" => req[c].at
                = "done")
        BY <2>2, <3>0, <3>2 DEF Access!InFlight, Requested
      <3>6. Backed(c)' /\ ~Access!InFlight(c)'
        BY <3>0, <3>2, <3>5 DEF Backed, Access!InFlight
      <3> QED BY <3>2, <3>4, <3>6
    <2> QED BY <2>1, <2>2
  <1> QED BY <1>1, <1>2

\* Restoring an old snapshot closes the sessions it would bring back.
LEMMA RestoresKeepAuth ==
    ASSUME AccessGiven, AccountInv, file \in SUBSET Access!Users, AuthInv, Access!Observe,
           Access!Backup \/ Access!Restore
    PROVE  AuthInv'
  <1>1. /\ req' = Access!Stopped /\ issued' = issued /\ expired' = expired
        /\ returns' \in 0..MaxRestores /\ returns <= returns'
        /\ returns \in Nat /\ returns' \in Nat
    BY DEF Access!Backup, Access!Restore, AuthInv, AccessShapes, AccessGiven
  <1>2. /\ req' = [c \in Clients |-> req'[c]]
        /\ \A c \in Clients : LoggedIn(c) => req'[c] = req[c]
        /\ \A c \in Clients : req'[c].at = "new" \/ (req'[c] \in Requested(c)
               /\ ~Access!InFlight(c)')
        /\ \A c \in Clients : RequestOK(c)' /\ Backed(c)'
    BY <1>1, StoppedKeepsRequests
  <1>3. /\ tables' \in AccessTables /\ copied' \in AccessTables \cup {NotTaken} /\ loaded'
               \in SUBSET Access!Users
        /\ tables'.boundary = returns'
        /\ closed' \subseteq Access!Credentials
    <2>1. CASE Access!Backup
      BY <2>1 DEF Access!Backup, AuthInv, AccessShapes
    <2>2. CASE Access!Restore
      <3>1. copied \in AccessTables /\ UNCHANGED copied /\ tables' = Access!Cleared(copied)
                /\ loaded' = file
        BY <2>2 DEF Access!Restore, AuthInv, AccessShapes
      <3>2. returns' = returns + 1 /\ returns' \in 0..MaxRestores
        BY <1>1, <2>2 DEF Access!Restore
      <3>3. closed' \subseteq Access!Credentials
        BY <2>2 DEF Access!Restore, AuthInv, AccessShapes, Access!Presentable
      <3> QED BY <3>1, <3>2, <3>3 DEF Access!Cleared, AccessTables
    <2> QED BY <2>1, <2>2
  <1>4. AccessShapes'
    <2>1. \A c \in Clients : Access!Entitled(c)' \subseteq Access!Facts
      BY DEF Access!Entitled
    <2>2. entitled' \in [Clients -> SUBSET Access!Facts]
      BY <2>1 DEF Access!Observe, AuthInv, AccessShapes
    <2>3. (\A c \in Clients : req[c].at = "new" \/ req[c] \in Requested(c))'
      BY <1>2 DEF Requested
    <2> QED BY <1>1, <1>2, <1>3, <2>2, <2>3 DEF AuthInv, AccessShapes
  <1>5. SessionRowsOK' /\ ClosedOK'
    <2>1. CASE Access!Backup
      <3>1. UNCHANGED <<tables, closed, returns>>
        BY <2>1 DEF Access!Backup
      <3> QED BY <1>1, <1>2, <3>1 DEF AuthInv, AccessShapes, AccessTables, SessionRowsOK,
                 ClosedOK, LoggedIn
    <2>2. CASE Access!Restore
      <3>1. tables'.sessions = {} /\ tables'.boundary = returns + 1 /\ returns' = returns + 1
        BY <2>2 DEF Access!Restore, AuthInv, AccessShapes, Access!Cleared, AccessTables
      <3>2. ASSUME NEW k \in Clients, [by |-> "cookie", id |-> k] \in closed' PROVE LoggedIn(k)'
        <4>1. LoggedIn(k)
          BY <2>2, <3>2 DEF Access!Restore, AuthInv, ClosedOK, Access!Presentable, LoggedIn
        <4> QED BY <1>2, <4>1 DEF LoggedIn
      <3>3. ASSUME NEW t \in Tokens, [by |-> "token", id |-> t] \in closed'
            PROVE  issued[t] <= returns
        BY <2>2, <3>3 DEF Access!Restore, AuthInv, ClosedOK, Access!Presentable
      <3> QED BY <1>1, <3>1, <3>2, <3>3 DEF SessionRowsOK, ClosedOK, AuthInv, AccessShapes
    <2> QED BY <2>1, <2>2
  <1> QED BY <1>2, <1>4, <1>5 DEF AuthInv

\* The steps of a request leave the rest of the service as it is, but for what a
\* handler does.
LEMMA HandleFrame ==
    ASSUME NEW c \in Clients, Access!Handle(c)
    PROVE  UNCHANGED <<file, issued, expired, copied, returns>>
  BY DEF Access!Handle, Access!Send, Access!Lookup, Access!Identify, Access!Authorize,
     Access!Act, Access!BatchEnds, Access!Recheck, Access!Disconnect, Access!fileVars, Access!tokenVars

\* A request that comes.
LEMMA SendKeepsAuth ==
    ASSUME AccessGiven, AuthInv, file \in SUBSET Access!Users, Access!Observe,
           NEW c \in Clients, Access!Send(c)
    PROVE  AuthInv'
  <1>1. /\ req[c].at = "new" /\ loaded' = file
        /\ UNCHANGED <<file, issued, expired, copied, returns, tables, closed>>
    BY DEF Access!Send, Access!fileVars, Access!tokenVars, Access!Reloaded
  <1>2. PICK cred \in Access!Presentable, kind \in Wishes[c] :
          /\ kind = "login" => cred.by = "key"
          /\ req' = [req EXCEPT ![c] = [at |-> Access!Identified(cred), cred |-> cred,
             kind |-> kind,
                                        who |-> Access!Who(cred), with |-> {}]]
    BY DEF Access!Send
  <1>3. /\ cred \in Access!Credentials /\ cred.by \in {"key", "cookie", "token"}
        /\ cred.by = "cookie" => cred.id \in Clients /\ LoggedIn(cred.id) /\ cred.id # c
        /\ cred.by = "token" => cred.id \in Tokens /\ issued[cred.id] <= returns
        /\ cred.by = "key" => cred.id \in ApiKeys
    BY <1>1 DEF Access!Presentable, Access!Credentials, LoggedIn
  <1>4. Access!Who(cred) \in ApiKeys \cup {Sso}
    <2>1. CASE cred.by = "cookie"
      <3>1. RequestOK(cred.id) /\ req[cred.id].cred \in Access!Credentials
                /\ req[cred.id].cred.by = "key"
        BY <1>3, <2>1 DEF AuthInv, AccessShapes, Requested, RequestOK, LoggedIn
      <3> QED BY <2>1, <3>1 DEF Access!Who, Access!Credentials
    <2> QED BY <1>3, <2>1 DEF Access!Who
  <1>5. \A k \in Clients \ {c} : req'[k] = req[k]
    BY <1>2 DEF AuthInv, AccessShapes
  <1>6. /\ req'[c] = [at |-> Access!Identified(cred), cred |-> cred, kind |-> kind,
                      who |-> Access!Who(cred), with |-> {}]
        /\ req' = [k \in Clients |-> req'[k]]
    BY <1>2 DEF AuthInv, AccessShapes
  <1>7. Access!Identified(cred) \in {"sent", "known", "refused"}
    BY <1>3 DEF Access!Identified
  <1>8. \A k \in Clients : LoggedIn(k) => k # c /\ req'[k] = req[k]
    BY <1>1, <1>5 DEF LoggedIn
  <1>9. Beside
    BY <1>1, <1>8 DEF Beside, AuthInv, AccessShapes, AccessGiven
  <1>10. AccessShapes'
    <2>1. \A k \in Clients : Access!Entitled(k)' \subseteq Access!Facts
      BY DEF Access!Entitled
    <2>2. entitled' \in [Clients -> SUBSET Access!Facts]
      BY <2>1 DEF Access!Observe, AuthInv, AccessShapes
    <2>3. req'[c] \in Requested(c)
      BY <1>3, <1>4, <1>6, <1>7 DEF Requested
    <2>4. (\A k \in Clients : req[k].at = "new" \/ req[k] \in Requested(k))'
      BY <1>5, <2>3 DEF AuthInv, AccessShapes, Requested
    <2> QED BY <1>1, <1>6, <2>2, <2>4 DEF AuthInv, AccessShapes
  <1>11. SessionRowsOK' /\ ClosedOK'
    BY <1>1, <1>8 DEF AuthInv, AccessShapes, AccessTables, SessionRowsOK, ClosedOK, LoggedIn
  <1>12. Access!Who(cred)' = Access!Who(cred) /\ (cred.by = "cookie" => LoggedIn(cred.id)')
    BY <1>3, <1>8, WhoStays
  <1>13. RequestOK(c)'
    BY <1>1, <1>2, <1>3, <1>6, <1>12 DEF RequestOK
  <1>14. Backed(c)'
    <2>1. CASE Access!Identified(cred) = "refused"
      BY <1>6, <2>1 DEF Backed
    <2>2. CASE Access!Identified(cred) # "refused"
      <3>1. entitled'[c] = entitled[c] \cup Access!Entitled(c)'
        BY <1>6, <1>7, <2>2, Observed DEF AuthInv, Access!InFlight
      <3>2. Access!Who(cred)' = Sso \/ Access!Enabled(file, Access!Who(cred))' => "account"
                \in entitled'[c]
        BY <1>6, <3>1 DEF Access!Entitled, Access!Facts
      <3>3. cred.by = "key" => "credential" \in entitled'[c]
        BY <1>6, <3>1 DEF Access!Entitled, Access!Facts, Access!Open
      <3>4. kind = "login" => "right" \in entitled'[c]
        BY <1>6, <3>1 DEF Access!Entitled, Access!Facts, Access!MayDo
      <3>5. CASE Access!Identified(cred) = "sent"
        <4>1. cred.by # "key"
          BY <1>3, <3>5 DEF Access!Identified
        <4> QED BY <1>1, <1>6, <3>2, <3>5, <4>1 DEF Backed, Access!Enabled
      <3>6. CASE Access!Identified(cred) = "known"
        <4>1. cred.by = "key" /\ Access!Enabled(file, cred.id) /\ Access!Who(cred) = cred.id
          BY <1>3, <3>6 DEF Access!Identified, Access!Reloaded, Access!Who
        <4>2. "account" \in entitled'[c]
          BY <1>1, <1>12, <3>2, <4>1 DEF Access!Enabled
        <4> QED BY <1>6, <3>3, <3>4, <3>6, <4>1, <4>2 DEF Backed
      <3> QED BY <1>7, <2>2, <3>5, <3>6
    <2> QED BY <2>1, <2>2
  <1>15. \A k \in Clients \ {c} : RequestOK(k)' /\ Backed(k)'
    BY <1>1, <1>5, <1>9, OthersStayBacked
  <1> QED BY <1>10, <1>11, <1>13, <1>14, <1>15 DEF AuthInv

\* The steps of a request that came, and what they leave of it and of the others.
Moves(c) == Access!Lookup(c) \/ Access!Identify(c) \/ Access!Authorize(c) \/ Access!Act(c)
      \/ Access!BatchEnds(c) \/ Access!Recheck(c) \/ Access!Disconnect(c)
IsRefused(c) ==
    /\ req[c] \in Requested(c) /\ RequestOK(c) /\ Backed(c) /\ Access!InFlight(c)
    /\ req' = [k \in Clients |-> req'[k]]
    /\ \A k \in Clients : LoggedIn(k) => k # c /\ req'[k] = req[k]
    /\ \A k \in Clients \ {c} : req'[k] = req[k]
    /\ req'[c].cred = req[c].cred /\ req'[c].kind = req[c].kind
    /\ req'[c] \in Requested(c) /\ req'[c].who = Access!Who(req[c].cred)
    /\ req'[c].with = req[c].with \/ req'[c].with = entitled[c]

\* A request that moves has moved as its handler says.
LEMMA GoesOn ==
    ASSUME AuthInv, NEW c \in Clients, Moves(c)
    PROVE  IsRefused(c)
  <1>1. req[c].at \in {"sent", "found", "known", "allowed", "batch", "following"}
    BY DEF Moves, Access!Lookup, Access!Identify, Access!Authorize, Access!Act, Access!Ready,
       Access!BatchEnds, Access!Recheck, Access!Disconnect
  <1>2. req[c] \in Requested(c) /\ RequestOK(c) /\ Backed(c) /\ Access!InFlight(c)
    BY <1>1 DEF AuthInv, AccessShapes, Access!InFlight
  <1>3. req[c].who = Access!Who(req[c].cred) /\ req[c].cred \in Access!Credentials
    BY <1>1, <1>2 DEF RequestOK, Requested
  <1>4. entitled[c] \subseteq Access!Facts /\ req = [k \in Clients |-> req[k]]
    BY DEF AuthInv, AccessShapes
  <1> DEFINE Next1(r) == /\ r.at \in {"found", "known", "allowed", "batch", "following", "done",
                                      "refused", "sent", "gone"}
                         /\ r.cred = req[c].cred /\ r.kind = req[c].kind
                         /\ r.who = req[c].who
                         /\ r.with = req[c].with \/ r.with = entitled[c]
                         /\ r \in Requested(c)
  <1>5. ASSUME NEW to \in {"found", "known", "allowed", "batch", "following", "done", "refused",
               "sent", "gone"},
               req' = [req EXCEPT ![c].at = to]
        PROVE  Next1(req'[c]) /\ \A k \in Clients \ {c} : req'[k] = req[k]
    BY <1>2, <1>4, <1>5 DEF Requested
  <1>6. /\ Next1(req'[c]) /\ \A k \in Clients \ {c} : req'[k] = req[k]
        /\ req' = [k \in Clients |-> req'[k]]
    <2>1. CASE Access!Lookup(c)
      <3>1. CASE \E r \in tables.sessions : r.id = req[c].cred.id
                   /\ req' = [req EXCEPT ![c].at = "found", ![c].who = r.key]
                   /\ req[c].cred.by = "cookie"
        <4>1. PICK r \in tables.sessions : r.id = req[c].cred.id
                   /\ req' = [req EXCEPT ![c].at = "found", ![c].who = r.key]
          BY <3>1
        <4>2. r.key = req[r.id].cred.id /\ LoggedIn(r.id) /\ r.key \in ApiKeys
          BY <4>1 DEF AuthInv, SessionRowsOK, AccessShapes, AccessTables
        <4>3. req[c].who = req[req[c].cred.id].cred.id
          BY <1>3, <3>1 DEF Access!Who
        <4>4. r.key = req[c].who
          BY <4>1, <4>2, <4>3
        <4>5. req' = [req EXCEPT ![c].at = "found"]
          BY <1>2, <4>1, <4>4 DEF Requested
        <4> QED BY <1>4, <1>5, <4>5
      <3>2. CASE Access!Moved(c, "found") \/ Access!Moved(c, "refused")
        BY <1>4, <1>5, <3>2 DEF Access!Moved
      <3> QED BY <2>1, <3>1, <3>2 DEF Access!Lookup
    <2>2. CASE Access!Identify(c)
      BY <1>4, <1>5, <2>2 DEF Access!Identify, Access!Moved
    <2>3. CASE Access!Authorize(c)
      BY <1>4, <1>5, <2>3 DEF Access!Authorize, Access!Moved
    <2>4. CASE Access!Act(c)
      BY <1>2, <1>4, <2>4 DEF Access!Act, Requested
    <2>5. CASE Access!Recheck(c)
      <3>1. req[c].cred.by \in {"key", "cookie", "token"}
        BY <1>3 DEF Access!Credentials
      <3>2. Access!Identified(req[c].cred) \in {"sent", "known", "refused"}
        BY <3>1 DEF Access!Identified
      <3> QED BY <1>4, <1>5, <2>5, <3>2 DEF Access!Recheck, Access!Moved
    <2>6. CASE Access!Disconnect(c)
      BY <1>4, <1>5, <2>6 DEF Access!Disconnect, Access!Moved
    <2>7. CASE Access!BatchEnds(c)
      BY <1>4, <1>5, <2>7 DEF Access!BatchEnds, Access!Moved
    <2> QED BY <2>1, <2>2, <2>3, <2>4, <2>5, <2>6, <2>7 DEF Moves
  <1>7. ~LoggedIn(c)
    BY <1>1 DEF LoggedIn
  <1> QED BY <1>2, <1>3, <1>6, <1>7 DEF IsRefused

\* What follows for the other requests and for the one that goes on.
LEMMA GoesOnKeeps ==
    ASSUME AccessGiven, AuthInv, file \in SUBSET Access!Users, Access!Observe,
           NEW c \in Clients, Moves(c),
           loaded' = loaded \/ loaded' = file,
           tables' \in AccessTables, tables'.boundary = tables.boundary,
             closed' \subseteq Access!Credentials,
           (Access!InFlight(c)' /\ (req'[c].at = "following" => req[c].at = "following")
              => entitled'[c] = entitled[c] \cup Access!Entitled(c)')
           => Backed(c)',
           SessionRowsOK', ClosedOK'
    PROVE  AuthInv'
  <1>1. IsRefused(c) /\ UNCHANGED <<file, issued, expired, copied, returns>>
    BY GoesOn, HandleFrame DEF Moves, Access!Handle
  <1>2. Beside
    BY <1>1 DEF IsRefused, Beside, AuthInv, AccessShapes, AccessGiven
  <1>3. AccessShapes'
    <2>1. \A k \in Clients : Access!Entitled(k)' \subseteq Access!Facts
      BY DEF Access!Entitled
    <2>2. entitled' \in [Clients -> SUBSET Access!Facts]
      BY <2>1 DEF Access!Observe, AuthInv, AccessShapes
    <2>3. (\A k \in Clients : req[k].at = "new" \/ req[k] \in Requested(k))'
      BY <1>1 DEF IsRefused, AuthInv, AccessShapes, Requested
    <2> QED BY <1>1, <2>2, <2>3 DEF AuthInv, AccessShapes, IsRefused
  <1>4. RequestOK(c)'
    <2>1. PICK cred \in Access!Credentials : cred = req[c].cred
      BY <1>1 DEF IsRefused, Requested
    <2>2. req[c].at # "new"
      BY <1>1 DEF IsRefused, Access!InFlight
    <2>3. Access!Who(cred)' = Access!Who(cred) /\ (cred.by = "cookie" => LoggedIn(cred.id)')
      BY <1>1, <2>1, <2>2, WhoStays DEF IsRefused, RequestOK
    <2> QED BY <1>1, <2>1, <2>2, <2>3 DEF IsRefused, RequestOK
  <1>5. Backed(c)'
    BY Observed DEF AuthInv
  <1>6. \A k \in Clients \ {c} : RequestOK(k)' /\ Backed(k)'
    BY <1>1, <1>2, OthersStayBacked DEF IsRefused
  <1> QED BY <1>3, <1>4, <1>5, <1>6 DEF AuthInv

\* A step that neither closes a credential nor makes or ends a session.
LEMMA SameSessions ==
    ASSUME AuthInv, NEW c \in Clients, Moves(c), tables'.sessions = tables.sessions,
           tables'.revoked = tables.revoked, tables'.boundary = tables.boundary, closed' = closed
    PROVE  SessionRowsOK' /\ ClosedOK' /\ closed' \subseteq Access!Credentials
  <1>1. IsRefused(c) /\ UNCHANGED <<issued, expired, returns>>
    BY GoesOn, HandleFrame DEF Moves, Access!Handle
  <1>2. SessionRowsOK'
    BY <1>1 DEF AuthInv, AccessShapes, AccessTables, SessionRowsOK, LoggedIn, IsRefused
  <1>3. ClosedOK'
    BY <1>1 DEF AuthInv, ClosedOK, LoggedIn, IsRefused
  <1> QED BY <1>2, <1>3 DEF AuthInv, AccessShapes

\* The session of a request is looked up.
LEMMA LookupKeepsAuth ==
    ASSUME AccessGiven, AuthInv, file \in SUBSET Access!Users, Access!Observe,
           NEW c \in Clients, Access!Lookup(c)
    PROVE  AuthInv'
  <1>1. IsRefused(c) /\ Moves(c) /\ req[c].at = "sent"
    BY GoesOn DEF Moves, Access!Lookup
  <1>2. UNCHANGED <<file, issued, expired, returns, loaded, tables, closed>>
    BY DEF Access!Lookup, Access!fileVars, Access!tokenVars
  <1>3. SessionRowsOK' /\ ClosedOK' /\ closed' \subseteq Access!Credentials
    BY <1>1, <1>2, SameSessions
  <1>4. ASSUME Access!InFlight(c)' /\ (req'[c].at = "following" => req[c].at = "following")
                 => entitled'[c] = entitled[c] \cup Access!Entitled(c)'
        PROVE  Backed(c)'
    <2>1. req'[c].at \in {"found", "refused"}
      BY <1>1 DEF Access!Lookup, Access!Moved, IsRefused, Requested
    <2>2. CASE req'[c].at = "refused"
      BY <2>2 DEF Backed
    <2>3. CASE req'[c].at = "found"
      <3>1. entitled'[c] = entitled[c] \cup Access!Entitled(c)'
        BY <1>4, <2>3 DEF Access!InFlight
      <3>2. PICK cred \in Access!Credentials : cred = req[c].cred
        BY <1>1 DEF IsRefused, Requested
      <3>3. cred.by # "key" /\ req'[c].cred = cred /\ Access!Who(cred)' = Access!Who(cred)
        <4>1. cred.by # "key" /\ req'[c].cred = cred
          BY <1>1, <3>2 DEF IsRefused, Backed
        <4> QED BY <1>1, <3>2, <4>1, WhoStays DEF IsRefused, RequestOK
      <3>4. Access!Who(cred) = Sso \/ Access!Enabled(loaded, Access!Who(cred))' => "account"
                \in entitled'[c]
        BY <1>1, <1>2, <3>1, <3>2, <3>3 DEF IsRefused, Backed, Access!Enabled
      <3>6. \/ /\ req[c].cred.by = "cookie" /\ req[c].cred \notin expired
               /\ \E r \in tables.sessions : r.id = req[c].cred.id
            \/ req[c].cred.by = "token" /\ req[c].cred.id \notin tables.revoked
        <4>1. ~Access!Moved(c, "refused")
          BY <1>1, <2>3 DEF Access!Moved, AuthInv, AccessShapes, IsRefused, Requested
        <4>2. \/ /\ req[c].cred.by = "cookie"
                 /\ {r \in tables.sessions : r.id = req[c].cred.id
                        /\ req[c].cred \notin expired} # {}
              \/ req[c].cred.by = "token" /\ req[c].cred.id \notin tables.revoked
          BY <4>1 DEF Access!Lookup
        <4> QED BY <4>2
      <3>5. \/ "credential" \in entitled'[c]
            \/ cred.by = "token" /\ (cred \in expired \/ issued[cred.id] < tables.boundary)
        <4>1. CASE cred.by = "cookie"
          <5>1. /\ cred = [by |-> "cookie", id |-> cred.id] /\ cred.id \in Clients
                /\ cred \notin expired /\ \E r \in tables.sessions : r.id = cred.id
            <6>1. cred = [by |-> "cookie", id |-> cred.id] /\ cred.id \in Clients
              BY <4>1 DEF Access!Credentials
            <6>2. cred \notin expired /\ \E r \in tables.sessions : r.id = cred.id
              BY <3>2, <3>6, <4>1
            <6> QED BY <6>1, <6>2
          <5>2. cred \notin closed
            BY <5>1 DEF AuthInv, ClosedOK
          <5>3. Access!Open(cred)'
            BY <1>2, <5>1, <5>2 DEF Access!Open
          <5> QED BY <3>1, <3>3, <5>3 DEF Access!Entitled, Access!Facts
        <4>2. CASE cred.by = "token"
          <5>1. /\ cred = [by |-> "token", id |-> cred.id] /\ cred.id \in Tokens
                /\ cred.id \notin tables.revoked
            <6>1. cred = [by |-> "token", id |-> cred.id] /\ cred.id \in Tokens
              BY <4>2 DEF Access!Credentials
            <6> QED BY <3>2, <3>6, <4>2, <6>1
          <5>2. CASE cred \in closed
            BY <4>2, <5>1, <5>2 DEF AuthInv, ClosedOK
          <5>3. CASE cred \notin closed \cup expired
            <6>1. Access!Open(cred)'
              BY <1>2, <4>2, <5>3 DEF Access!Open
            <6> QED BY <3>1, <3>3, <6>1 DEF Access!Entitled, Access!Facts
          <5> QED BY <4>2, <5>2, <5>3
        <4> QED BY <3>3, <4>1, <4>2 DEF Access!Credentials
      <3> QED BY <1>2, <2>3, <3>3, <3>4, <3>5 DEF Backed
    <2> QED BY <2>1, <2>2, <2>3
  <1>5. tables' \in AccessTables
    BY <1>2 DEF AuthInv, AccessShapes
  <1> QED BY <1>1, <1>2, <1>3, <1>4, <1>5, GoesOnKeeps

\* Its credential is looked up.
LEMMA IdentifyKeepsAuth ==
    ASSUME AccessGiven, AuthInv, file \in SUBSET Access!Users, Access!Observe,
           NEW c \in Clients, Access!Identify(c)
    PROVE  AuthInv'
  <1>1. IsRefused(c) /\ Moves(c) /\ req[c].at = "found"
    BY GoesOn DEF Moves, Access!Identify
  <1>2. UNCHANGED <<file, issued, expired, returns, loaded, closed>>
    BY DEF Access!Identify, Access!fileVars, Access!tokenVars
  <1>3. /\ tables' \in AccessTables /\ tables'.sessions = tables.sessions /\ tables'.revoked
               = tables.revoked
        /\ tables'.boundary = tables.boundary
    BY DEF Access!Identify, AuthInv, AccessShapes, AccessTables
  <1>4. SessionRowsOK' /\ ClosedOK' /\ closed' \subseteq Access!Credentials
    BY <1>1, <1>2, <1>3, SameSessions
  <1>5. ASSUME Access!InFlight(c)' /\ (req'[c].at = "following" => req[c].at = "following")
                 => entitled'[c] = entitled[c] \cup Access!Entitled(c)'
        PROVE  Backed(c)'
    <2>1. req'[c].at = IF Access!Valid(req[c].cred, req[c].who) THEN "known" ELSE "refused"
      BY <1>1 DEF Access!Identify, Access!Moved, IsRefused, Requested
    <2>2. CASE req'[c].at = "refused"
      BY <2>2 DEF Backed
    <2>3. CASE req'[c].at = "known" /\ Access!Valid(req[c].cred, req[c].who)
      <3>1. entitled'[c] = entitled[c] \cup Access!Entitled(c)'
        BY <1>5, <2>3 DEF Access!InFlight
      <3>2. PICK cred \in Access!Credentials : cred = req[c].cred
        BY <1>1 DEF IsRefused, Requested
      <3>3. cred.by # "key" /\ req[c].who = Access!Who(cred) /\ req'[c].kind # "login"
        BY <1>1, <3>2 DEF IsRefused, Backed, RequestOK
      <3>4. CASE cred.by = "cookie"
        <4>1. Access!Enabled(loaded, Access!Who(cred))
          BY <2>3, <3>2, <3>3, <3>4 DEF Access!Valid, Access!KeyHolds
        <4>2. {"credential", "account"} \subseteq entitled[c]
          BY <1>1, <3>2, <3>4, <4>1 DEF IsRefused, Backed
        <4> QED BY <2>3, <3>1, <3>3, <4>2 DEF Backed
      <3>5. CASE cred.by = "token"
        <4>1. cred \notin expired /\ issued[cred.id] >= tables.boundary /\ Access!Who(cred) = Sso
          BY <2>3, <3>2, <3>5 DEF Access!Valid, Access!YoungEnough, Access!Who
        <4>2. cred.id \in Tokens /\ issued[cred.id] \in Nat /\ tables.boundary \in Nat
          BY <3>5 DEF Access!Credentials, AuthInv, AccessShapes, AccessGiven
        <4>3. {"credential", "account"} \subseteq entitled[c]
          BY <1>1, <3>2, <4>1, <4>2 DEF IsRefused, Backed
        <4> QED BY <2>3, <3>1, <3>3, <4>3 DEF Backed
      <3> QED BY <3>3, <3>4, <3>5 DEF Access!Credentials
    <2> QED BY <2>1, <2>2, <2>3
  <1> QED BY <1>1, <1>2, <1>3, <1>4, <1>5, GoesOnKeeps

\* Whatever is permitted a request may do at that moment.
LEMMA PermittedMayDo ==
    ASSUME NEW w, NEW kind \in {"logout", "read", "write", "create", "grant", "stream"},
           Access!Permitted(w, kind, tables.grants)
    PROVE  Access!MayDo(w, kind)
  BY DEF Access!Permitted, Access!MayAsk, Access!CanAccess, Access!MayDo

\* It is allowed or refused, and a stream is checked again.
LEMMA AuthorizeKeepsAuth ==
    ASSUME AccessGiven, AuthInv, file \in SUBSET Access!Users, Access!Observe, NEW c \in Clients,
           \/ Access!Authorize(c) \/ Access!BatchEnds(c)
           \/ Access!Disconnect(c) \/ Access!Recheck(c)
    PROVE  AuthInv'
  <1>1. IsRefused(c) /\ Moves(c)
    BY GoesOn DEF Moves
  <1>2. UNCHANGED <<file, issued, expired, returns, tables,
        closed>> /\ (loaded' = loaded \/ loaded' = file)
    BY DEF Access!Authorize, Access!BatchEnds, Access!Disconnect, Access!Recheck,
       Access!fileVars, Access!tokenVars, Access!Reloaded
  <1>3. SessionRowsOK' /\ ClosedOK' /\ closed' \subseteq Access!Credentials
    BY <1>1, <1>2, SameSessions
  <1>4. tables' \in AccessTables
    BY <1>2 DEF AuthInv, AccessShapes
  <1>5. ASSUME Access!InFlight(c)' /\ (req'[c].at = "following" => req[c].at = "following")
                 => entitled'[c] = entitled[c] \cup Access!Entitled(c)'
        PROVE  Backed(c)'
    <2> DEFINE Enters == entitled'[c] = entitled[c] \cup Access!Entitled(c)'
    <2>1. PICK cred \in Access!Credentials : cred = req[c].cred
      BY <1>1 DEF IsRefused, Requested
    <2>2. req'[c].cred = cred /\ req[c].who = Access!Who(cred) /\ Access!Who(cred)'
              = Access!Who(cred)
      BY <1>1, <2>1, WhoStays DEF IsRefused, RequestOK, Access!InFlight
    <2>3. CASE Access!Authorize(c)
      <3>1. /\ req[c].at = "known" /\ req[c].kind # "login"
            /\ req'[c].at = IF Access!Permitted(req[c].who, req[c].kind,
               tables.grants) THEN "allowed" ELSE "refused"
        BY <1>1, <2>3 DEF Access!Authorize, Access!Moved, IsRefused, Requested
      <3>2. CASE req'[c].at = "refused"
        BY <3>2 DEF Backed
      <3>3. CASE req'[c].at = "allowed"
                     /\ Access!Permitted(Access!Who(cred), req[c].kind, tables.grants)
        <4>1. Enters
          BY <1>5, <3>3 DEF Access!InFlight
        <4>2. req[c].kind \in {"logout", "read", "write", "create", "grant", "stream"}
          BY <1>1, <3>1 DEF IsRefused, Requested, AccessGiven
        <4>3. PICK kind : kind = req[c].kind
          OBVIOUS
        <4>4. Access!MayDo(Access!Who(cred), kind)
          BY <3>3, <4>2, <4>3, PermittedMayDo
        <4>5. Access!MayDo(Access!Who(cred), kind)'
          BY <1>2, <2>2, <4>4 DEF Access!MayDo, Access!RoleOf, Access!SubjectOf
        <4>6. "right" \in Access!Entitled(c)'
          BY <1>1, <2>2, <4>3, <4>5 DEF Access!Entitled, Access!Facts, IsRefused
        <4>7. {"credential", "account"} \subseteq entitled[c]
          BY <1>1, <3>1 DEF IsRefused, Backed
        <4> QED BY <3>3, <4>1, <4>6, <4>7 DEF Backed
      <3> QED BY <2>2, <3>1, <3>2, <3>3
    <2>4. CASE Access!Disconnect(c)
      <3>1. req'[c].at = "gone"
        BY <1>1, <2>4 DEF Access!Disconnect, Access!Moved, IsRefused, Requested
      <3> QED BY <3>1 DEF Backed
    <2>5. CASE Access!Recheck(c)
      <3>1. req'[c].at = Access!Identified(cred) /\ req[c].at = "following" /\ loaded' = file
        BY <1>1, <2>1, <2>5 DEF Access!Recheck, Access!Moved, IsRefused, Requested,
           Access!Reloaded
      <3>2. Access!Identified(cred) \in {"sent", "known", "refused"}
        BY DEF Access!Identified, Access!Credentials
      <3>3. CASE Access!Identified(cred) = "refused"
        BY <3>1, <3>3 DEF Backed
      <3>4. CASE Access!Identified(cred) # "refused"
        <4>1. Enters
          BY <1>5, <3>1, <3>2, <3>4 DEF Access!InFlight
        <4>2. Access!Who(cred) = Sso \/ Access!Enabled(file, Access!Who(cred))' => "account"
                  \in entitled'[c]
          BY <2>2, <4>1 DEF Access!Entitled, Access!Facts
        <4>3. CASE Access!Identified(cred) = "sent"
          <5>1. cred.by # "key"
            BY <4>3 DEF Access!Identified
          <5> QED BY <1>2, <2>2, <3>1, <4>2, <4>3, <5>1 DEF Backed, Access!Enabled
        <4>4. CASE Access!Identified(cred) = "known"
          <5>1. cred.by = "key" /\ Access!Enabled(file, cred.id) /\ Access!Who(cred) = cred.id
            BY <4>4 DEF Access!Identified, Access!Reloaded, Access!Who
          <5>2. "credential" \in entitled'[c] /\ "account" \in entitled'[c]
            BY <1>2, <2>2, <4>1, <4>2, <5>1 DEF Access!Entitled, Access!Facts, Access!Open,
               Access!Enabled
          <5>3. req'[c].kind = "login" => "right" \in entitled'[c]
            BY <4>1 DEF Access!Entitled, Access!Facts, Access!MayDo
          <5> QED BY <3>1, <4>4, <5>2, <5>3 DEF Backed
        <4> QED BY <3>2, <3>4, <4>3, <4>4
      <3> QED BY <3>3, <3>4
    <2>6. CASE Access!BatchEnds(c)
      <3>1. req[c].at = "batch" /\ req'[c].at \in {"following", "done"} /\ req'[c].with = req[c].with
        BY <1>1, <2>6 DEF Access!BatchEnds, Access!Moved, IsRefused, Requested, AuthInv,
           AccessShapes
      <3>2. req[c].with = Access!Facts
        BY <1>1, <3>1 DEF IsRefused, Backed
      <3> QED BY <3>1, <3>2 DEF Backed
    <2> QED BY <2>3, <2>4, <2>5, <2>6
  <1> QED BY <1>1, <1>2, <1>3, <1>4, <1>5, GoesOnKeeps

\* What a handler does: a login makes its session, a logout closes what it came with.
LEMMA ActKeepsSessions ==
    ASSUME AccessGiven, AuthInv, NEW c \in Clients, Access!Act(c)
    PROVE  /\ tables' \in AccessTables /\ tables'.boundary = tables.boundary
           /\ SessionRowsOK' /\ ClosedOK' /\ closed' \subseteq Access!Credentials
  <1>1. IsRefused(c) /\ UNCHANGED <<file, issued, expired, returns>>
    BY GoesOn, HandleFrame DEF Moves, Access!Handle
  <1>2. PICK cred \in Access!Credentials : cred = req[c].cred
    BY <1>1 DEF IsRefused, Requested
  <1>3. PICK kind \in Wishes[c] : kind = req[c].kind
    BY <1>1 DEF IsRefused, Requested
  <1>4. PICK who \in ApiKeys \cup {Sso} : who = req[c].who /\ who = Access!Who(cred)
    BY <1>1, <1>2 DEF IsRefused, Requested, RequestOK, Access!InFlight
  <1>5. /\ req'[c].at = (IF kind = "stream" THEN "batch" ELSE "done")
        /\ req'[c].kind = kind /\ req'[c].cred = cred
    BY <1>1, <1>2, <1>3 DEF Access!Act, IsRefused, Requested, AuthInv, AccessShapes
  <1>6. closed' = closed \cup IF kind = "logout" /\ cred.by # "key" THEN {cred} ELSE {}
    BY <1>2, <1>3 DEF Access!Act
  <1>7. \A k \in Clients : LoggedIn(k) => LoggedIn(k)' /\ req'[k] = req[k] /\ k # c
    BY <1>1 DEF IsRefused, LoggedIn
  <1>8. tables \in AccessTables /\ closed \subseteq Access!Credentials
    BY DEF AuthInv, AccessShapes
  <1>9. kind = "login" => cred.by = "key" /\ LoggedIn(c)'
    BY <1>1, <1>2, <1>3, <1>5 DEF IsRefused, RequestOK, Access!InFlight, LoggedIn
  <1>10. cred.by \in {"key", "cookie", "token"}
    BY DEF Access!Credentials
  <1>11. CASE kind = "login"
    <2>1. tables' = [tables EXCEPT !.sessions = @ \cup {[id |-> c, key |-> who]}]
      BY <1>3, <1>4, <1>11 DEF Access!Act, Access!Effect
    <2>2. who \in ApiKeys /\ who = cred.id
      BY <1>4, <1>9, <1>11 DEF Access!Who, Access!Credentials
    <2>3. /\ tables' \in AccessTables /\ tables'.boundary = tables.boundary /\ tables'.revoked
                 = tables.revoked
          /\ tables'.sessions = tables.sessions \cup {[id |-> c, key |-> who]} /\ closed' = closed
      BY <1>6, <1>8, <1>11, <2>1, <2>2 DEF AccessTables
    <2>4. SessionRowsOK'
      <3>1. ASSUME NEW row \in tables'.sessions PROVE LoggedIn(row.id)' /\ row.key
                       = req'[row.id].cred.id
        <4>1. CASE row = [id |-> c, key |-> who]
          BY <1>5, <1>9, <1>11, <2>2, <4>1
        <4>2. CASE row \in tables.sessions
          <5>1. row.id \in Clients /\ LoggedIn(row.id) /\ row.key = req[row.id].cred.id
            BY <1>8, <4>2 DEF AuthInv, SessionRowsOK, AccessTables
          <5> QED BY <1>7, <5>1
        <4> QED BY <2>3, <4>1, <4>2
      <3> QED BY <3>1 DEF SessionRowsOK
    <2>5. ClosedOK'
      BY <1>1, <1>7, <2>3 DEF AuthInv, ClosedOK
    <2> QED BY <1>8, <2>3, <2>4, <2>5
  <1>12. CASE kind # "login"
    <2>1. /\ tables' \in AccessTables /\ tables'.boundary = tables.boundary
          /\ tables'.sessions = (IF kind = "logout" /\ cred.by = "cookie"
                              THEN {row \in tables.sessions : row.id # cred.id} ELSE tables.sessions)
          /\ tables'.revoked = (IF kind = "logout" /\ cred.by = "token"
                             THEN {t \in tables.revoked : [by |-> "token",
                               id |-> t] \notin expired}
                                  \cup {cred.id}
                             ELSE tables.revoked)
      <3>1. CASE kind = "create"
        <4>1. tables' = [tables EXCEPT !.grants[Access!SubjectOf(who)] = "write"]
          BY <1>3, <1>4, <3>1 DEF Access!Act, Access!Effect
        <4> QED BY <1>8, <3>1, <4>1 DEF AccessTables
      <3>2. CASE kind = "grant"
        <4>1. \E s \in Grantees, p \in {"none", "read", "write"} : tables'
                  = [tables EXCEPT !.grants[s] = p]
          BY <1>3, <3>2 DEF Access!Act, Access!Effect
        <4> QED BY <1>8, <3>2, <4>1 DEF AccessTables
      <3>3. CASE kind = "logout" /\ cred.by = "cookie"
        <4>1. tables' = [tables EXCEPT !.sessions = {row \in @ : row.id # cred.id}]
          BY <1>2, <1>3, <3>3 DEF Access!Act, Access!Effect
        <4> QED BY <1>8, <3>3, <4>1 DEF AccessTables
      <3>4. CASE kind = "logout" /\ cred.by = "token"
        <4>1. tables' = [tables EXCEPT !.revoked = {t
                  \in @ : [by |-> "token", id |-> t] \notin expired}
                                           \cup {cred.id}]
          BY <1>2, <1>3, <3>4 DEF Access!Act, Access!Effect
        <4>2. cred.id \in Tokens
          BY <3>4 DEF Access!Credentials
        <4> QED BY <1>8, <3>4, <4>1, <4>2 DEF AccessTables
      <3>5. CASE kind \in {"read", "write", "stream"} \/ (kind = "logout" /\ cred.by = "key")
        <4>1. tables' = tables
          BY <1>2, <1>3, <3>5 DEF Access!Act, Access!Effect
        <4> QED BY <1>8, <3>5, <4>1
      <3> QED BY <1>10, <1>12, <3>1, <3>2, <3>3, <3>4, <3>5 DEF AccessGiven
    <2>2. tables'.sessions \subseteq tables.sessions
      BY <2>1
    <2>3. SessionRowsOK'
      BY <1>7, <1>8, <2>2 DEF AuthInv, SessionRowsOK, AccessTables
    <2>4. ASSUME NEW k \in Clients, [by |-> "cookie", id |-> k] \in closed'
          PROVE  LoggedIn(k)' /\ \A row \in tables'.sessions : row.id # k
      <3>1. CASE [by |-> "cookie", id |-> k] \in closed
        BY <1>7, <2>2, <3>1 DEF AuthInv, ClosedOK
      <3>2. CASE cred = [by |-> "cookie", id |-> k] /\ kind = "logout"
        <4>1. LoggedIn(k)
          BY <1>1, <1>2, <3>2 DEF IsRefused, RequestOK, Access!InFlight
        <4> QED BY <1>7, <2>1, <3>2, <4>1
      <3> QED BY <1>6, <2>4, <3>1, <3>2
    <2>5. ASSUME NEW t \in Tokens, [by |-> "token", id |-> t] \in closed'
          PROVE  /\ issued[t] <= returns
                 /\ t \in tables'.revoked \/ [by |-> "token", id |-> t] \in expired
                    \/ issued[t] < tables.boundary
      <3>1. CASE [by |-> "token", id |-> t] \in closed
        <4>1. /\ issued[t] <= returns
              /\ t \in tables.revoked \/ [by |-> "token",
                 id |-> t] \in expired \/ issued[t] < tables.boundary
          BY <3>1 DEF AuthInv, ClosedOK
        <4> QED BY <2>1, <4>1
      <3>2. CASE cred = [by |-> "token", id |-> t] /\ kind = "logout"
        BY <1>1, <1>2, <2>1, <3>2 DEF IsRefused, RequestOK, Access!InFlight
      <3> QED BY <1>6, <2>5, <3>1, <3>2
    <2>6. ClosedOK'
      BY <1>1, <2>1, <2>4, <2>5 DEF ClosedOK
    <2> QED BY <1>6, <1>8, <2>1, <2>3, <2>6
  <1> QED BY <1>11, <1>12

\* What is done for a request was allowed.
LEMMA ActKeepsAuth ==
    ASSUME AccessGiven, AuthInv, file \in SUBSET Access!Users, Access!Observe,
           NEW c \in Clients, Access!Act(c)
    PROVE  AuthInv'
  <1>1. IsRefused(c) /\ Moves(c) /\ Access!Ready(c) /\ loaded' = loaded
    BY GoesOn DEF Moves, Access!Act
  <1>2. req'[c].at \in {"batch", "done"} /\ req'[c].with = entitled[c]
    BY <1>1 DEF Access!Act, IsRefused, Requested, AuthInv, AccessShapes
  <1>3. entitled[c] = Access!Facts
    <2>1. {"credential", "account", "right"} \subseteq entitled[c]
      BY <1>1 DEF IsRefused, Access!Ready, Backed
    <2> QED BY <2>1 DEF Access!Facts, AuthInv, AccessShapes
  <1>4. Backed(c)'
    BY <1>2, <1>3 DEF Backed
  <1> QED BY <1>1, <1>4, ActKeepsSessions, GoesOnKeeps

\* Every step keeps what an allowed request rests on.
LEMMA AuthStep ==
    ASSUME AccessGiven, AccountInv, file \in SUBSET Access!Users, AuthInv,
           [Access!Next]_(Access!vars)
    PROVE  AuthInv'
  <1>1. CASE UNCHANGED Access!vars
    <2>1. \A c \in Clients : (RequestOK(c) <=> RequestOK(c)') /\ (Backed(c) <=> Backed(c)')
      BY <1>1 DEF Access!vars, RequestOK, Backed, LoggedIn, Access!Who, Access!Enabled
    <2> QED BY <1>1, <2>1 DEF Access!vars, AuthInv, AccessShapes, SessionRowsOK, ClosedOK,
               LoggedIn, Requested
  <1>2. ASSUME Access!Observe, NEW c \in Clients, Access!Handle(c) PROVE AuthInv'
    BY <1>2, SendKeepsAuth, LookupKeepsAuth, IdentifyKeepsAuth, AuthorizeKeepsAuth, ActKeepsAuth
       DEF Access!Handle
  <1> QED BY <1>1, <1>2, AccountsKeepAuth, TimeKeepsAuth, RestoresKeepAuth DEF Access!Next

\* The users of the file and of what is read of it.
FileShapes ==
    /\ file \in SUBSET Access!Users /\ writer \in Access!Changes \cup {Nobody}
    /\ users \in [Access!Changes -> SUBSET Access!Users]

\* A change of the access file makes an access file.
LEMMA UpdatedShape ==
    ASSUME NEW us \in SUBSET Access!Users, NEW o \in Access!Changes
    PROVE  Access!Updated(us, o) \in SUBSET Access!Users
  <1>1. CASE o \in Revocations
    <2>1. ASSUME NEW v \in {[u EXCEPT !.on = FALSE] : u \in Access!Of(us, Subject[o])}
                     PROVE v \in Access!Users
      <3>1. PICK u \in Access!Of(us, Subject[o]) : v = [u EXCEPT !.on = FALSE]
        OBVIOUS
      <3>2. u \in Access!Users
        BY DEF Access!Of
      <3> QED BY <3>1, <3>2 DEF Access!Users
    <2>2. \A v \in Access!Updated(us, o) : v \in Access!Users
      BY <1>1, <2>1 DEF Access!Updated
    <2> QED BY <2>2
  <1>2. CASE o \notin Revocations
    <2>1. [key |-> o, on |-> TRUE] \in Access!Users
      BY <1>2 DEF Access!Changes, Access!Issues, Access!Users
    <2>2. Access!Updated(us, o) \subseteq us \cup {[key |-> o, on |-> TRUE]}
      BY <1>2 DEF Access!Updated
    <2> QED BY <2>1, <2>2
  <1> QED BY <1>1, <1>2

\* The access file has users.
LEMMA FileShapesKept == FileShapes /\ [Access!Next]_(Access!vars) => FileShapes'
  <1> SUFFICES ASSUME FileShapes, [Access!Next]_(Access!vars) PROVE FileShapes'
    OBVIOUS
  <1>1. ASSUME NEW o \in Access!Changes, Access!ChangeFile(o) PROVE FileShapes'
    <2>1. CASE Access!ReadFile(o)
      BY <2>1 DEF Access!ReadFile, FileShapes
    <2>2. CASE Access!Replace(o)
      <3>1. users[o] \in SUBSET Access!Users
        BY DEF FileShapes
      <3> QED BY <2>2, <3>1, UpdatedShape DEF Access!Replace, FileShapes
    <2>3. CASE Access!KillChange(o)
      BY <2>3 DEF Access!KillChange, FileShapes
    <2> QED BY <1>1, <2>1, <2>2, <2>3 DEF Access!ChangeFile
  <1>2. CASE UNCHANGED Access!fileVars
    BY <1>2 DEF FileShapes, Access!fileVars
  <1> QED BY <1>1, <1>2 DEF Access!Next, Access!vars, Access!fileVars, Access!Handle,
             Access!Send, Access!Lookup, Access!Identify, Access!Authorize, Access!Act,
             Access!BatchEnds, Access!Recheck, Access!Disconnect, Access!IssueToken, Access!Expire,
             Access!Backup, Access!Restore

AccessInv == AccountInv /\ FileShapes /\ AuthInv

\* The invariant of the access control holds at first.
LEMMA AccessInit == AccessGiven /\ Access!AdminsOn(Access!FirstFile) # {} /\ Access!Init
        => AccessInv
  <1> SUFFICES ASSUME AccessGiven, Access!AdminsOn(Access!FirstFile) # {},
                      Access!Init PROVE AccessInv
    OBVIOUS
  <1>1. FileShapes
    <2>1. loaded \in SUBSET Access!Users
      BY AuthInit DEF AuthInv, AccessShapes
    <2> QED BY <2>1 DEF Access!Init, FileShapes
  <1> QED BY <1>1, AuthInit, AccountInit DEF AccessInv

\* It is inductive.
LEMMA AccessStep == AccessGiven /\ Nobody \notin Access!Changes /\ AccessInv
        /\ [Access!Next]_(Access!vars) => AccessInv'
  BY AuthStep, StepKeepsAccounts, FileShapesKept DEF AccessInv, FileShapes

\* It gives the types.
LEMMA AccessTypes == AccessInv => Access!TypeOK
  BY DEF AccessInv, AccountInv, FileShapes, AuthInv, AccessShapes, Access!TypeOK, AccessTables,
     Requested

\* It gives what the run checks.
LEMMA AccessInvHolds == AccessInv => Access!ActsWithAuthority /\ Access!AccountsKept
  <1> SUFFICES ASSUME AccessInv PROVE Access!ActsWithAuthority /\ Access!AccountsKept
    OBVIOUS
  <1>1. ASSUME NEW c \in Clients, req[c].at \in {"done", "batch", "following"}
        PROVE  req[c].with = Access!Facts /\ req[c].who = Access!Who(req[c].cred)
    BY <1>1 DEF AccessInv, AuthInv, Backed, RequestOK
  <1> QED BY <1>1 DEF AccessInv, AccountInv, Access!ActsWithAuthority

\* The constants are as Services assumes.
LEMMA AccessLimits ==
    AccessGiven /\ Access!AdminsOn(Access!FirstFile) # {} /\ Nobody \notin Access!Changes
  BY BoundsAssumption, NamesAssumption, AccessAssumption DEF AccessGiven

\* The invariant of the access control holds in every run.
LEMMA AccessRuns == ServicesSpec => []AccessInv
  <1>1. ServicesInit => AccessInv
    BY AccessLimits, AccessInit DEF ServicesInit
  <1>2. AccessInv /\ [ServicesNext]_allVars => AccessInv'
    BY AccessLimits, StepOfEachPart, AccessStep
  <1> QED BY <1>1, <1>2, PTL DEF ServicesSpec

\* Whatever is done for a request was allowed to its subject at some moment since it
\* came, and each batch of a stream's events since the batch before, although keys,
\* grants and sessions are taken back and snapshots restored; and no change of the
\* access file is lost and an administrator stays (security/server.py, authorize;
\* api/app.py, run_stream; security/accounts.py, issue_key).
THEOREM AccessIsKept == ServicesSpec => []AccessHolds
  <1>1. AccessInv => AccessHolds
    BY AccessInvHolds DEF AccessHolds
  <1> QED BY <1>1, AccessRuns, PTL
=============================================================================
