--------------------------- MODULE RetentionProofs ---------------------------
(***************************************************************************)
(* Files match rows, a key admits one request and a job begins once: for   *)
(* any runs, keys and bounds, wherever purges, backups and the service are *)
(* killed, on the installation and on one restored from its snapshot.      *)
(***************************************************************************)
EXTENDS Retention, TLAPS

DbShape ==
    [status : [Runs -> RunStatuses \cup {Nothing}], job : [Runs -> Nat],
     leased : SUBSET Runs, published : SUBSET Runs, receipt : [Keys -> Runs \cup {Nothing}],
     deleted : SUBSET Keys, pending : SUBSET Runs, admitted : [Keys -> Nat]]

\* What holds inside one database, a snapshot's too.
DbOK(d) ==
    /\ d \in DbShape
    /\ \A r \in Runs : d.job[r] # 0 \/ r \in d.published => r \in Rows(d)
    /\ \A r \in d.leased : d.job[r] # 0
    /\ d.pending \cap Rows(d) = {}
    /\ \A k \in Keys : /\ d.admitted[k] <= 1
                       /\ d.admitted[k] = 1 => d.receipt[k] # Nothing \/ k \in d.deleted

Shapes ==
    /\ db \in [Sites -> DbShape] /\ disk \in [Sites -> SUBSET Runs]
    /\ holder \in [Sites -> {"absent", "free", "service", "purge", "remove", "backup"}]
    /\ todo \in [Sites -> SUBSET Runs]
    /\ snapshot \in [state : {"none", "copying", "whole"}, db : DbShape, disk : SUBSET Runs]
    /\ made \in Nat /\ begun \in [Jobs -> Nat]

\* The holder of the lock and what it may rely on.
HolderOK(s) ==
    /\ holder[s] \in {"service", "backup"} => db[s].pending = {}
    /\ holder[s] = "purge" => todo[s] = db[s].pending \/ (db[s].pending = {} /\ todo[s] \subseteq Rows(db[s]))
    /\ holder[s] = "remove" => todo[s] = db[s].pending
    /\ holder[s] = "backup" => s = "original" /\ snapshot.state = "copying"

FilesOK(s) ==
    db[s].published \subseteq disk[s] /\ disk[s] \subseteq Rows(db[s]) \cup db[s].pending

SnapshotOK ==
    /\ DbOK(snapshot.db)
    /\ snapshot.state # "none" => snapshot.db.pending = {} /\ snapshot.disk \subseteq Rows(snapshot.db)
    /\ holder["original"] = "backup" => todo["original"] \subseteq Rows(snapshot.db)
    /\ snapshot.state = "whole" => Verified(snapshot)

\* A job has one owner, and has begun if and only if that owner leased it.
JobsOK ==
    /\ \A j \in Jobs : begun[j] <= 1 /\ (j > made => begun[j] = 0)
    /\ \A s \in Sites, r \in Runs :
         LET j == db[s].job[r] IN
         /\ j <= made /\ j <= MaxJobs
         /\ j # 0 /\ r \notin db[s].leased => begun[j] = 0
         /\ \A x \in Sites, q \in Runs : j # 0 /\ db[x].job[q] = j => x = s /\ q = r

RetentionInv ==
    /\ Shapes /\ SnapshotOK /\ JobsOK
    /\ \A s \in Sites : DbOK(db[s]) /\ HolderOK(s) /\ FilesOK(s)

\* What the constants are: no run has the name of none.
IdsGiven == Nothing \notin Runs /\ MaxJobs \in Nat

-----------------------------------------------------------------------------
LEMMA EmptyIsOK == DbOK(EmptyDb)
  <1>1. EmptyDb \in DbShape
    BY DEF EmptyDb, DbShape
  <1>2. \A r \in Runs : EmptyDb.job[r] = 0
    BY DEF EmptyDb
  <1>3. EmptyDb.published = {} /\ EmptyDb.leased = {} /\ EmptyDb.pending = {}
    BY DEF EmptyDb
  <1>4. \A k \in Keys : EmptyDb.admitted[k] = 0
    BY DEF EmptyDb
  <1> QED BY <1>1, <1>2, <1>3, <1>4 DEF DbOK

LEMMA InitHolds == IdsGiven /\ Init => RetentionInv
  <1> SUFFICES ASSUME IdsGiven, Init PROVE RetentionInv
    OBVIOUS
  <1>1. DbOK(EmptyDb) /\ EmptyDb \in DbShape
    BY EmptyIsOK DEF DbOK
  <1>2. /\ EmptyDb.published = {} /\ EmptyDb.pending = {}
        /\ \A r \in Runs : EmptyDb.job[r] = 0
    BY DEF EmptyDb
  <1>3. /\ \A s \in Sites : db[s] = EmptyDb /\ disk[s] = {} /\ todo[s] = {}
        /\ snapshot.state = "none" /\ snapshot.db = EmptyDb /\ snapshot.disk = {}
        /\ \A s \in Sites : holder[s] \in {"free", "absent"}
    BY DEF Init, NoSnapshot
  <1>4. Shapes
    BY <1>1 DEF Init, Shapes, NoSnapshot, Jobs
  <1>5. SnapshotOK
    BY <1>1, <1>3 DEF SnapshotOK, Sites
  <1>6. JobsOK
    BY <1>2, <1>3 DEF Init, JobsOK, Jobs, IdsGiven
  <1>7. \A s \in Sites : DbOK(db[s]) /\ HolderOK(s) /\ FilesOK(s)
    BY <1>1, <1>2, <1>3 DEF HolderOK, FilesOK
  <1> QED BY <1>4, <1>5, <1>6, <1>7 DEF RetentionInv

-----------------------------------------------------------------------------
(* What each operation makes of a database                                 *)

\* A restart, the end of an execution and a purge take jobs away; what they keep
\* stays in its database's order.
LEMMA RecoveredOK ==
    ASSUME IdsGiven, NEW d, DbOK(d)
    PROVE  /\ DbOK(Recovered(d)) \/ d.pending # {}
           /\ Recovered(d) \in DbShape
           /\ Recovered(d).published = d.published /\ Recovered(d).pending = d.pending
           /\ Recovered(d).leased = {}
           /\ \A r \in Runs : Recovered(d).job[r] = IF r \in d.leased THEN 0 ELSE d.job[r]
           /\ Rows(d) \subseteq Rows(Recovered(d))
  <1> DEFINE n == Recovered(d)
  <1>1. d \in DbShape
    BY DEF DbOK
  <1>2. /\ n.status = [r \in Runs |-> IF d.status[r] = "running" \/ (r \in d.leased /\ d.status[r] # "ended")
                                        THEN "interrupted" ELSE d.status[r]]
        /\ n.job = [r \in Runs |-> IF r \in d.leased THEN 0 ELSE d.job[r]]
        /\ n.leased = {} /\ n.published = d.published /\ n.receipt = d.receipt
        /\ n.deleted = d.deleted /\ n.pending = d.pending /\ n.admitted = d.admitted
    BY <1>1 DEF Recovered, DbShape
  <1>3. n \in DbShape
    <2>1. n.status \in [Runs -> RunStatuses \cup {Nothing}] /\ n.job \in [Runs -> Nat]
      BY <1>1, <1>2 DEF DbShape, RunStatuses
    <2> QED BY <1>1, <2>1 DEF Recovered, DbShape
  <1> HIDE DEF n
  <1>4. Rows(d) \subseteq Rows(n)
    BY <1>2 DEF Rows, Nothing
  <1>5. d.pending = {} => DbOK(n)
    BY <1>2, <1>3, <1>4 DEF DbOK
  <1> QED BY <1>2, <1>3, <1>4, <1>5 DEF n

LEMMA EnqueuedOK ==
    ASSUME NEW d, DbOK(d), d.pending = {}, NEW r \in Runs, made \in Nat
    PROVE  /\ DbOK(Enqueued(d, r))
           /\ Enqueued(d, r).job = [d.job EXCEPT ![r] = made + 1]
           /\ Enqueued(d, r).leased = d.leased /\ Enqueued(d, r).published = d.published
           /\ Enqueued(d, r).pending = {} /\ Rows(d) \subseteq Rows(Enqueued(d, r))
           /\ Enqueued(d, r).receipt = d.receipt /\ Enqueued(d, r).deleted = d.deleted
           /\ Enqueued(d, r).admitted = d.admitted /\ r \in Rows(Enqueued(d, r))
  <1> DEFINE n == Enqueued(d, r)
  <1>1. d \in DbShape
    BY DEF DbOK
  <1>2. /\ n.status = [d.status EXCEPT ![r] = "queued"] /\ n.job = [d.job EXCEPT ![r] = made + 1]
        /\ n.leased = d.leased /\ n.published = d.published /\ n.receipt = d.receipt
        /\ n.deleted = d.deleted /\ n.pending = d.pending /\ n.admitted = d.admitted
    BY <1>1 DEF Enqueued, DbShape
  <1>3. n \in DbShape
    <2>1. n.status \in [Runs -> RunStatuses \cup {Nothing}] /\ n.job \in [Runs -> Nat]
      BY <1>1, <1>2 DEF DbShape, RunStatuses
    <2> QED BY <1>1, <2>1 DEF Enqueued, DbShape
  <1> HIDE DEF n
  <1>4. Rows(d) \subseteq Rows(n) /\ r \in Rows(n)
    BY <1>1, <1>2 DEF Rows, Nothing, DbShape
  <1>5. \A q \in Runs : n.job[q] # 0 => q = r \/ d.job[q] # 0
    BY <1>1, <1>2 DEF DbShape
  <1>6. n.job[r] # 0 /\ \A q \in Runs : d.job[q] # 0 => n.job[q] # 0
    BY <1>1, <1>2 DEF DbShape
  <1>7. DbOK(n)
    BY <1>2, <1>3, <1>4, <1>5, <1>6 DEF DbOK, DbShape
  <1> QED BY <1>2, <1>4, <1>7 DEF n

\* The rows of a purge go together, and its keys are kept.
LEMMA PurgedOK ==
    ASSUME IdsGiven, NEW d, DbOK(d), NEW S \in SUBSET Runs, NEW n, n = Purged(d, S)
    PROVE  /\ DbOK(n) /\ n.pending = S /\ Rows(n) = Rows(d) \ S
           /\ n.published = d.published \ S /\ n.leased = d.leased \ S
           /\ \A r \in Runs : n.job[r] = IF r \in S THEN 0 ELSE d.job[r]
  <1>1. d \in DbShape
    BY DEF DbOK
  <1>2. /\ n.status = [r \in Runs |-> IF r \in S THEN Nothing ELSE d.status[r]]
        /\ n.job = [r \in Runs |-> IF r \in S THEN 0 ELSE d.job[r]]
        /\ n.receipt = [k \in Keys |-> IF d.receipt[k] \in S THEN Nothing ELSE d.receipt[k]]
        /\ n.leased = d.leased \ S /\ n.published = d.published \ S
        /\ n.deleted = d.deleted \cup KeysOf(d, S) /\ n.pending = S /\ n.admitted = d.admitted
    BY <1>1 DEF Purged, DbShape
  <1>3. n \in DbShape
    <2>1. n.status \in [Runs -> RunStatuses \cup {Nothing}] /\ n.job \in [Runs -> Nat]
      BY <1>1, <1>2 DEF DbShape, RunStatuses
    <2>2. n.receipt \in [Keys -> Runs \cup {Nothing}] /\ n.deleted \in SUBSET Keys
      BY <1>1, <1>2 DEF DbShape, KeysOf
    <2> QED BY <1>1, <2>1, <2>2 DEF Purged, DbShape
  <1>4. Rows(n) = Rows(d) \ S
    BY <1>2 DEF Rows
  <1>5. \A k \in Keys : n.admitted[k] <= 1 /\ (n.admitted[k] = 1 => n.receipt[k] # Nothing \/ k \in n.deleted)
    BY <1>2 DEF DbOK, KeysOf
  <1>6. d.leased \subseteq Runs
    BY <1>1 DEF DbShape
  <1>7. \A r \in Runs : n.job[r] # 0 \/ r \in n.published => r \in Rows(n)
    <2>1. ASSUME NEW r \in Runs, n.job[r] # 0 \/ r \in n.published PROVE r \in Rows(n)
      <3>1. r \notin S /\ (d.job[r] # 0 \/ r \in d.published)
        BY <1>2, <2>1
      <3> QED BY <1>4, <3>1 DEF DbOK
    <2> QED BY <2>1
  <1>8. \A r \in n.leased : n.job[r] # 0
    BY <1>2, <1>6 DEF DbOK
  <1>9. n.pending \cap Rows(n) = {}
    BY <1>2, <1>4
  <1>10. DbOK(n)
    BY <1>3, <1>5, <1>7, <1>8, <1>9 DEF DbOK
  <1> QED BY <1>2, <1>4, <1>10

-----------------------------------------------------------------------------
(* Jobs                                                                    *)

\* Steps that take jobs away, if at all.
LEMMA JobsTaken ==
    ASSUME IdsGiven, Shapes, JobsOK, UNCHANGED <<made, begun>>,
           \A s \in Sites, r \in Runs :
             /\ db'[s].job[r] \in {0, db[s].job[r]}
             /\ r \in db[s].leased /\ db'[s].job[r] # 0 => r \in db'[s].leased
    PROVE  JobsOK'
  <1>1. \A s \in Sites, r \in Runs : db[s].job[r] \in Nat /\ made \in Nat
    BY DEF Shapes, DbShape
  <1>2. \A s \in Sites, r \in Runs : db'[s].job[r] # 0 => db'[s].job[r] = db[s].job[r]
    OBVIOUS
  <1>3. \A s \in Sites, r \in Runs : db'[s].job[r] <= made' /\ db'[s].job[r] <= MaxJobs
    BY <1>1, <1>2 DEF JobsOK, IdsGiven
  <1>4. \A s \in Sites, r \in Runs :
          db'[s].job[r] # 0 /\ r \notin db'[s].leased => begun'[db'[s].job[r]] = 0
    BY <1>2 DEF JobsOK
  <1>5. \A s \in Sites, r \in Runs, x \in Sites, q \in Runs :
          db'[s].job[r] # 0 /\ db'[x].job[q] = db'[s].job[r] => x = s /\ q = r
    BY <1>2 DEF JobsOK
  <1> QED BY <1>3, <1>4, <1>5 DEF JobsOK

LEMMA JobMade ==
    ASSUME IdsGiven, Shapes, JobsOK, NEW s \in Sites, NEW r \in Runs, r \notin db[s].leased,
           made < MaxJobs, made' = made + 1, begun' = begun,
           \A x \in Sites, q \in Runs :
             /\ db'[x].job[q] = IF x = s /\ q = r THEN made + 1 ELSE db[x].job[q]
             /\ db'[x].leased = db[x].leased
    PROVE  JobsOK'
  <1>1. \A x \in Sites, q \in Runs : db[x].job[q] \in Nat /\ made \in Nat
    BY DEF Shapes, DbShape
  <1>2. made + 1 \in Jobs /\ begun[made + 1] = 0
    BY <1>1 DEF JobsOK, Jobs, IdsGiven
  <1>3. \A x \in Sites, q \in Runs : db[x].job[q] # made + 1
    BY <1>1 DEF JobsOK
  <1> QED BY <1>1, <1>2, <1>3 DEF JobsOK, Jobs, IdsGiven

LEMMA JobBegun ==
    ASSUME IdsGiven, Shapes, JobsOK, NEW s \in Sites, NEW r \in Runs,
           db[s].job[r] # 0, r \notin db[s].leased,
           made' = made, begun' = [begun EXCEPT ![db[s].job[r]] = @ + 1],
           \A x \in Sites, q \in Runs :
             /\ db'[x].job[q] = db[x].job[q]
             /\ q \in db'[x].leased <=> q \in db[x].leased \/ (x = s /\ q = r)
    PROVE  JobsOK'
  <1> DEFINE j == db[s].job[r]
  <1>1. \A x \in Sites, q \in Runs : db[x].job[q] \in Nat /\ made \in Nat
    BY DEF Shapes, DbShape
  <1>2. j \in Jobs /\ begun[j] = 0 /\ j <= made
    BY <1>1 DEF JobsOK, Jobs, IdsGiven
  <1>3. begun'[j] = 1 /\ \A i \in Jobs \ {j} : begun'[i] = begun[i]
    BY <1>2 DEF Shapes
  <1>4. \A x \in Sites, q \in Runs : db[x].job[q] # 0 => db[x].job[q] \in Jobs
    BY <1>1 DEF JobsOK, Jobs, IdsGiven
  <1>5. \A i \in Jobs : begun'[i] <= 1 /\ (i > made => begun'[i] = 0)
    BY <1>1, <1>2, <1>3 DEF JobsOK
  <1>6. ASSUME NEW x \in Sites, NEW q \in Runs, db'[x].job[q] # 0, q \notin db'[x].leased
        PROVE  begun'[db'[x].job[q]] = 0
    <2>1. ~(x = s /\ q = r) /\ q \notin db[x].leased /\ db[x].job[q] # 0 /\ db'[x].job[q] = db[x].job[q]
      BY <1>6
    <2>2. db[x].job[q] # j
      BY <2>1 DEF JobsOK
    <2> QED BY <1>3, <1>4, <2>1, <2>2 DEF JobsOK
  <1>7. \A x \in Sites, q \in Runs : db'[x].job[q] <= made' /\ db'[x].job[q] <= MaxJobs
    BY DEF JobsOK
  <1>8. \A x \in Sites, q \in Runs, y \in Sites, p \in Runs :
          db'[x].job[q] # 0 /\ db'[y].job[p] = db'[x].job[q] => y = x /\ p = q
    BY DEF JobsOK
  <1> QED BY <1>5, <1>6, <1>7, <1>8 DEF JobsOK

-----------------------------------------------------------------------------
(* Steps                                                                   *)

\* A step concerns one installation, and through its backup the snapshot.
LEMMA OneSite ==
    ASSUME RetentionInv, NEW s \in Sites, Shapes', SnapshotOK', JobsOK',
           DbOK(db'[s]), HolderOK(s)', FilesOK(s)',
           \A x \in Sites \ {s} :
             /\ db'[x] = db[x] /\ disk'[x] = disk[x]
             /\ holder'[x] = holder[x] /\ todo'[x] = todo[x],
           s = "original" \/ snapshot' = snapshot
    PROVE  RetentionInv'
  <1>1. ASSUME NEW x \in Sites \ {s} PROVE DbOK(db'[x]) /\ HolderOK(x)' /\ FilesOK(x)'
    BY <1>1 DEF RetentionInv, HolderOK, FilesOK
  <1>2. \A x \in Sites : DbOK(db'[x]) /\ HolderOK(x)' /\ FilesOK(x)'
    BY <1>1
  <1>3. (\A x \in Sites : DbOK(db[x]) /\ HolderOK(x) /\ FilesOK(x))'
    BY <1>2 DEF DbOK, DbShape, Rows
  <1> QED BY <1>3 DEF RetentionInv

\* A step of one installation that writes its database, and no snapshot.
LEMMA DbStep ==
    ASSUME RetentionInv, NEW s \in Sites, NEW d, DbOK(d), db' = [db EXCEPT ![s] = d],
           UNCHANGED <<disk, snapshot>>, made' \in Nat, begun' \in [Jobs -> Nat],
           NEW h \in {"free", "service", "purge", "remove"}, holder' = [holder EXCEPT ![s] = h],
           holder[s] # "backup",
           NEW S \in SUBSET Runs, todo' = [todo EXCEPT ![s] = S],
           h = "service" => d.pending = {},
           h = "purge" => S = d.pending \/ (d.pending = {} /\ S \subseteq Rows(d)),
           h = "remove" => S = d.pending,
           d.published \subseteq disk[s], disk[s] \subseteq Rows(d) \cup d.pending,
           JobsOK'
    PROVE  RetentionInv'
  <1>1. Shapes'
    BY DEF RetentionInv, Shapes, DbOK
  <1>2. db'[s] = d /\ holder'[s] = h /\ todo'[s] = S
    BY DEF RetentionInv, Shapes
  <1>3. SnapshotOK'
    <2>1. /\ holder'["original"] = "backup" =>
               holder["original"] = "backup" /\ todo'["original"] = todo["original"]
      BY DEF RetentionInv, Shapes, Sites
    <2> QED BY <2>1 DEF RetentionInv, SnapshotOK, DbOK, Rows, Verified, DbShape
  <1>4. HolderOK(s)' /\ FilesOK(s)'
    BY <1>2 DEF HolderOK, FilesOK, Rows
  <1>5. \A x \in Sites \ {s} : /\ db'[x] = db[x] /\ disk'[x] = disk[x]
                               /\ holder'[x] = holder[x] /\ todo'[x] = todo[x]
    BY DEF RetentionInv, Shapes
  <1> QED BY <1>1, <1>2, <1>3, <1>4, <1>5, OneSite

LEMMA StartKeeps ==
    ASSUME IdsGiven, RetentionInv, NEW s \in Sites, StartService(s)
    PROVE  RetentionInv'
  <1> DEFINE d == Recovered(db[s])
  <1>1. /\ DbOK(db[s]) /\ db[s].pending = {} /\ db' = [db EXCEPT ![s] = d]
        /\ holder' = [holder EXCEPT ![s] = "service"] /\ holder[s] = "free"
        /\ UNCHANGED <<disk, todo, snapshot, made, begun>>
    BY DEF StartService, MayStart, Hold, Write, RetentionInv
  <1>2. /\ DbOK(d) /\ d.published = db[s].published /\ d.pending = {} /\ d.leased = {}
        /\ \A r \in Runs : d.job[r] = IF r \in db[s].leased THEN 0 ELSE db[s].job[r]
        /\ Rows(db[s]) \subseteq Rows(d)
    BY <1>1, RecoveredOK
  <1> HIDE DEF d
  <1>3. JobsOK'
    <2>1. \A x \in Sites : db'[x] = IF x = s THEN d ELSE db[x]
      BY <1>1 DEF RetentionInv, Shapes
    <2> QED BY <1>1, <1>2, <2>1, JobsTaken DEF RetentionInv
  <1>4. d.published \subseteq disk[s] /\ disk[s] \subseteq Rows(d)
    BY <1>1, <1>2 DEF RetentionInv, FilesOK
  <1>5. todo' = [todo EXCEPT ![s] = todo[s]] /\ todo[s] \in SUBSET Runs
    BY <1>1 DEF RetentionInv, Shapes
  <1>6. made' \in Nat /\ begun' \in [Jobs -> Nat]
    BY <1>1 DEF RetentionInv, Shapes
  <1> QED BY <1>1, <1>2, <1>3, <1>4, <1>5, <1>6, DbStep

\* What the service does to its database while it serves.
LEMMA ServiceStep ==
    ASSUME RetentionInv, NEW s \in Sites, holder[s] = "service", NEW d, DbOK(d),
           db' = [db EXCEPT ![s] = d], UNCHANGED <<disk, holder, todo, snapshot>>,
           made' \in Nat, begun' \in [Jobs -> Nat], JobsOK',
           d.pending = {}, d.published \subseteq disk[s], Rows(db[s]) \subseteq Rows(d)
    PROVE  RetentionInv'
  <1>1. holder' = [holder EXCEPT ![s] = "service"]
    BY DEF RetentionInv, Shapes
  <1>2. todo' = [todo EXCEPT ![s] = todo[s]] /\ todo[s] \in SUBSET Runs
    BY DEF RetentionInv, Shapes
  <1>3. disk[s] \subseteq Rows(d) \cup d.pending
    BY DEF RetentionInv, FilesOK, HolderOK
  <1> QED BY <1>1, <1>2, <1>3, DbStep

LEMMA ServingFacts ==
    ASSUME RetentionInv, NEW s \in Sites, Serving(s)
    PROVE  /\ holder[s] = "service" /\ DbOK(db[s]) /\ db[s] \in DbShape /\ db[s].pending = {}
           /\ db[s].published \subseteq disk[s] /\ made \in Nat /\ begun \in [Jobs -> Nat]
           /\ db \in [Sites -> DbShape]
  BY DEF Serving, RetentionInv, HolderOK, FilesOK, DbOK, Shapes

LEMMA CreateKeeps ==
    ASSUME IdsGiven, RetentionInv, NEW s \in Sites, NEW k \in Keys, NEW r \in Runs, Create(s, k, r)
    PROVE  RetentionInv'
  <1> DEFINE q == Enqueued(db[s], r)
             d == [q EXCEPT !.receipt[k] = r, !.admitted[k] = @ + 1]
  <1>1. /\ Serving(s) /\ made < MaxJobs /\ made' = made + 1 /\ begun' = begun
        /\ db[s].receipt[k] = Nothing /\ k \notin db[s].deleted /\ r \notin Rows(db[s])
        /\ db' = [db EXCEPT ![s] = d] /\ UNCHANGED <<disk, holder, todo, snapshot>>
    BY DEF Create, Write, OnlyDb
  <1>2. /\ DbOK(db[s]) /\ db[s] \in DbShape /\ db[s].pending = {} /\ holder[s] = "service"
        /\ db[s].published \subseteq disk[s] /\ made \in Nat
        /\ \A x \in Sites : db'[x] = IF x = s THEN d ELSE db[x]
    <2>1. db \in [Sites -> DbShape] /\ db' = [db EXCEPT ![s] = d]
      BY <1>1, ServingFacts
    <2>2. \A x \in Sites : db'[x] = IF x = s THEN d ELSE db[x]
      BY <2>1, Zenon
    <2> QED BY <1>1, <2>2, ServingFacts
  <1>3. /\ DbOK(q) /\ q.job = [db[s].job EXCEPT ![r] = made + 1]
        /\ q.leased = db[s].leased /\ q.published = db[s].published /\ q.pending = {}
        /\ Rows(db[s]) \subseteq Rows(q) /\ q.receipt = db[s].receipt
        /\ q.deleted = db[s].deleted /\ q.admitted = db[s].admitted
    BY <1>2, EnqueuedOK
  <1> HIDE DEF q
  <1>4. /\ d.status = q.status /\ d.job = q.job /\ d.leased = q.leased
        /\ d.published = q.published /\ d.deleted = q.deleted /\ d.pending = q.pending
        /\ d.receipt = [q.receipt EXCEPT ![k] = r]
        /\ d.admitted = [q.admitted EXCEPT ![k] = @ + 1] /\ d \in DbShape
    <2>1. q \in DbShape
      BY <1>3 DEF DbOK
    <2>2. /\ [q.receipt EXCEPT ![k] = r] \in [Keys -> Runs \cup {Nothing}]
          /\ [q.admitted EXCEPT ![k] = @ + 1] \in [Keys -> Nat]
      BY <2>1 DEF DbShape
    <2> QED BY <2>1, <2>2 DEF DbShape
  <1> HIDE DEF d
  <1>5. Rows(d) = Rows(q)
    BY <1>4 DEF Rows
  <1>6. \A x \in Keys : /\ d.admitted[x] <= 1
                        /\ d.admitted[x] = 1 => d.receipt[x] # Nothing \/ x \in d.deleted
    <2>1. q.admitted[k] = 0
      BY <1>1, <1>2, <1>3 DEF DbOK, DbShape
    <2>2. d.admitted[k] = 1 /\ d.receipt[k] # Nothing
      BY <1>3, <1>4, <2>1 DEF DbOK, DbShape, IdsGiven
    <2>3. ASSUME NEW x \in Keys \ {k} PROVE d.admitted[x] = q.admitted[x] /\ d.receipt[x] = q.receipt[x]
      BY <1>3, <1>4 DEF DbOK, DbShape
    <2> QED BY <1>3, <1>4, <2>2, <2>3 DEF DbOK
  <1>7. DbOK(d)
    BY <1>3, <1>4, <1>5, <1>6 DEF DbOK
  <1>8. r \notin db[s].leased
    BY <1>1, <1>2 DEF DbOK
  <1>9. \A x \in Sites, p \in Runs :
          /\ db'[x].job[p] = IF x = s /\ p = r THEN made + 1 ELSE db[x].job[p]
          /\ db'[x].leased = db[x].leased
    BY <1>2, <1>3, <1>4 DEF DbShape
  <1>10. JobsOK'
    BY <1>1, <1>8, <1>9, JobMade DEF RetentionInv
  <1>11. made' \in Nat /\ begun' \in [Jobs -> Nat]
    BY <1>1, <1>2 DEF RetentionInv, Shapes
  <1> QED BY <1>1, <1>2, <1>3, <1>4, <1>5, <1>7, <1>10, <1>11, ServiceStep

LEMMA ResumeKeeps ==
    ASSUME IdsGiven, RetentionInv, NEW s \in Sites, NEW r \in Runs, Resume(s, r)
    PROVE  RetentionInv'
  <1> DEFINE d == Enqueued(db[s], r)
  <1>1. /\ Serving(s) /\ made < MaxJobs /\ made' = made + 1 /\ begun' = begun
        /\ db[s].job[r] = 0
        /\ db' = [db EXCEPT ![s] = d] /\ UNCHANGED <<disk, holder, todo, snapshot>>
    BY DEF Resume, Write, OnlyDb
  <1>2. /\ DbOK(db[s]) /\ db[s] \in DbShape /\ db[s].pending = {} /\ holder[s] = "service"
        /\ db[s].published \subseteq disk[s] /\ made \in Nat
        /\ \A x \in Sites : db'[x] = IF x = s THEN d ELSE db[x]
    <2>1. db \in [Sites -> DbShape] /\ db' = [db EXCEPT ![s] = d]
      BY <1>1, ServingFacts
    <2>2. \A x \in Sites : db'[x] = IF x = s THEN d ELSE db[x]
      BY <2>1, Zenon
    <2> QED BY <1>1, <2>2, ServingFacts
  <1>3. /\ DbOK(d) /\ d.job = [db[s].job EXCEPT ![r] = made + 1] /\ d.leased = db[s].leased
        /\ d.published = db[s].published /\ d.pending = {} /\ Rows(db[s]) \subseteq Rows(d)
    BY <1>2, EnqueuedOK
  <1> HIDE DEF d
  <1>4. r \notin db[s].leased
    BY <1>1, <1>2 DEF DbOK
  <1>5. \A x \in Sites, p \in Runs :
          /\ db'[x].job[p] = IF x = s /\ p = r THEN made + 1 ELSE db[x].job[p]
          /\ db'[x].leased = db[x].leased
    BY <1>2, <1>3 DEF DbShape
  <1>6. JobsOK'
    BY <1>1, <1>4, <1>5, JobMade DEF RetentionInv
  <1>7. made' \in Nat /\ begun' \in [Jobs -> Nat]
    BY <1>1, <1>2 DEF RetentionInv, Shapes
  <1> QED BY <1>1, <1>2, <1>3, <1>6, <1>7, ServiceStep

LEMMA BeginKeeps ==
    ASSUME IdsGiven, RetentionInv, NEW s \in Sites, NEW r \in Runs, Begin(s, r)
    PROVE  RetentionInv'
  <1> DEFINE d == [db[s] EXCEPT !.leased = @ \cup {r}, !.status[r] = "running"]
  <1>1. /\ Serving(s) /\ db[s].job[r] # 0 /\ r \notin db[s].leased
        /\ made' = made /\ begun' = [begun EXCEPT ![db[s].job[r]] = @ + 1]
        /\ db' = [db EXCEPT ![s] = d] /\ UNCHANGED <<disk, holder, todo, snapshot>>
    BY DEF Begin, Write, OnlyDb
  <1>2. /\ DbOK(db[s]) /\ db[s] \in DbShape /\ db[s].pending = {} /\ holder[s] = "service"
        /\ db[s].published \subseteq disk[s] /\ made \in Nat /\ begun \in [Jobs -> Nat]
        /\ \A x \in Sites : db'[x] = IF x = s THEN d ELSE db[x]
    <2>1. db \in [Sites -> DbShape] /\ db' = [db EXCEPT ![s] = d]
      BY <1>1, ServingFacts
    <2>2. \A x \in Sites : db'[x] = IF x = s THEN d ELSE db[x]
      BY <2>1, Zenon
    <2> QED BY <1>1, <2>2, ServingFacts
  <1>3. /\ d.status = [db[s].status EXCEPT ![r] = "running"] /\ d.job = db[s].job
        /\ d.leased = db[s].leased \cup {r} /\ d.published = db[s].published
        /\ d.deleted = db[s].deleted /\ d.pending = {} /\ d.receipt = db[s].receipt
        /\ d.admitted = db[s].admitted /\ d \in DbShape
    BY <1>2 DEF DbShape, RunStatuses
  <1> HIDE DEF d
  <1>4. Rows(db[s]) \subseteq Rows(d)
    BY <1>2, <1>3 DEF Rows, Nothing, DbShape
  <1>5. DbOK(d)
    BY <1>1, <1>2, <1>3, <1>4 DEF DbOK
  <1>6. JobsOK'
    <2>1. \A x \in Sites, q \in Runs :
            /\ db'[x].job[q] = db[x].job[q]
            /\ q \in db'[x].leased <=> q \in db[x].leased \/ (x = s /\ q = r)
      BY <1>2, <1>3
    <2> QED BY <1>1, <2>1, JobBegun DEF RetentionInv
  <1>7. begun' \in [Jobs -> Nat]
    <2>1. db[s].job[r] \in Jobs => begun[db[s].job[r]] + 1 \in Nat
      BY <1>2
    <2> QED BY <1>1, <1>2, <2>1
  <1> QED BY <1>1, <1>2, <1>3, <1>4, <1>5, <1>6, <1>7, ServiceStep

LEMMA RecordKeeps ==
    ASSUME IdsGiven, RetentionInv, NEW s \in Sites, NEW r \in Runs,
           RecordArtifact(s, r) \/ EndRun(s, r)
    PROVE  RetentionInv'
  <1>1. PICK d : /\ db' = [db EXCEPT ![s] = d]
                 /\ \/ /\ d = [db[s] EXCEPT !.published = @ \cup {r}]
                       /\ db[s].status[r] = "running" /\ r \in disk[s]
                    \/ d = [db[s] EXCEPT !.status[r] = "ended", !.job[r] = 0, !.leased = @ \ {r}]
    BY DEF RecordArtifact, EndRun, Write
  <1>2. /\ Serving(s) /\ UNCHANGED <<disk, holder, todo, snapshot, made, begun>>
    BY DEF RecordArtifact, EndRun, OnlyDb
  <1>3. /\ DbOK(db[s]) /\ db[s] \in DbShape /\ db[s].pending = {} /\ holder[s] = "service"
        /\ db[s].published \subseteq disk[s] /\ made \in Nat /\ begun \in [Jobs -> Nat]
        /\ \A x \in Sites : db'[x] = IF x = s THEN d ELSE db[x]
    <2>1. db \in [Sites -> DbShape] /\ db' = [db EXCEPT ![s] = d]
      BY <1>1, <1>2, ServingFacts
    <2>2. \A x \in Sites : db'[x] = IF x = s THEN d ELSE db[x]
      BY <2>1, Zenon
    <2> QED BY <1>1, <1>2, <2>2, ServingFacts
  <1>4. /\ d \in DbShape /\ d.receipt = db[s].receipt /\ d.pending = {}
        /\ d.deleted = db[s].deleted /\ d.admitted = db[s].admitted
        /\ \A q \in Runs : /\ d.job[q] \in {0, db[s].job[q]}
                           /\ q \in d.published => q \in db[s].published \/ (q = r /\ r \in Rows(db[s]))
                           /\ q \in d.leased => q \in db[s].leased
                           /\ q \in d.leased => d.job[q] = db[s].job[q]
                           /\ q \in db[s].leased /\ d.job[q] # 0 => q \in d.leased
                           /\ db[s].status[q] # Nothing => d.status[q] # Nothing
        /\ d.published \subseteq disk[s]
    <2>1. CASE d = [db[s] EXCEPT !.published = @ \cup {r}] /\ db[s].status[r] = "running" /\ r \in disk[s]
      BY <1>3, <2>1 DEF DbShape, Rows, Nothing
    <2>2. CASE d = [db[s] EXCEPT !.status[r] = "ended", !.job[r] = 0, !.leased = @ \ {r}]
      BY <1>3, <2>2 DEF DbShape, RunStatuses, Nothing
    <2> QED BY <1>1, <2>1, <2>2
  <1>5. Rows(db[s]) \subseteq Rows(d)
    BY <1>4 DEF Rows
  <1>6. DbOK(d)
    <2>1. d.leased \subseteq Runs /\ d.published \subseteq Runs
      BY <1>4 DEF DbShape
    <2>2. \A q \in Runs : d.job[q] # 0 \/ q \in d.published => q \in Rows(d)
      BY <1>3, <1>4, <1>5 DEF DbOK
    <2>3. \A q \in d.leased : d.job[q] # 0
      BY <1>3, <1>4, <2>1 DEF DbOK
    <2> QED BY <1>3, <1>4, <2>2, <2>3 DEF DbOK
  <1>7. JobsOK'
    BY <1>2, <1>3, <1>4, JobsTaken DEF RetentionInv
  <1> QED BY <1>1, <1>2, <1>3, <1>4, <1>5, <1>6, <1>7, ServiceStep

\* Steps that write no database.
LEMMA SameDb ==
    ASSUME IdsGiven, RetentionInv, UNCHANGED <<db, made, begun>>
    PROVE  JobsOK' /\ made' \in Nat /\ begun' \in [Jobs -> Nat]
  <1>1. \A s \in Sites, r \in Runs :
          /\ db'[s].job[r] \in {0, db[s].job[r]}
          /\ r \in db[s].leased /\ db'[s].job[r] # 0 => r \in db'[s].leased
    OBVIOUS
  <1> QED BY <1>1, JobsTaken DEF RetentionInv, Shapes

LEMMA FilesKeep ==
    ASSUME IdsGiven, RetentionInv, NEW s \in Sites, NEW r \in Runs,
           WriteFile(s, r) \/ PurgeFiles(s, r)
    PROVE  RetentionInv'
  <1>1. /\ UNCHANGED <<db, holder, todo, snapshot, made, begun>>
        /\ \/ /\ disk' = [disk EXCEPT ![s] = @ \cup {r}]
              /\ holder[s] = "service" /\ db[s].status[r] = "running"
           \/ /\ disk' = [disk EXCEPT ![s] = @ \ {r}]
              /\ holder[s] = "remove" /\ r \in todo[s]
    BY DEF WriteFile, PurgeFiles, Serving
  <1>2. JobsOK'
    BY <1>1, SameDb
  <1>3. Shapes'
    BY <1>1 DEF RetentionInv, Shapes
  <1>4. SnapshotOK'
    BY <1>1 DEF RetentionInv, SnapshotOK, Verified
  <1>5. HolderOK(s)' /\ DbOK(db'[s])
    BY <1>1 DEF RetentionInv, HolderOK, Rows
  <1>6. FilesOK(s)'
    <2>1. CASE disk' = [disk EXCEPT ![s] = @ \cup {r}] /\ db[s].status[r] = "running"
      BY <1>1, <2>1 DEF RetentionInv, Shapes, FilesOK, Rows, Nothing
    <2>2. CASE disk' = [disk EXCEPT ![s] = @ \ {r}] /\ holder[s] = "remove" /\ r \in todo[s]
      <3>1. r \notin db[s].published
        BY <2>2 DEF RetentionInv, HolderOK, DbOK
      <3> QED BY <1>1, <2>2, <3>1 DEF RetentionInv, Shapes, FilesOK, Rows
    <2> QED BY <1>1, <2>1, <2>2
  <1>7. \A x \in Sites \ {s} : disk'[x] = disk[x]
    BY <1>1 DEF RetentionInv, Shapes
  <1> QED BY <1>1, <1>2, <1>3, <1>4, <1>5, <1>6, <1>7, OneSite

LEMMA KillKeeps ==
    ASSUME IdsGiven, RetentionInv, NEW s \in Sites, Kill(s)
    PROVE  RetentionInv'
  <1>1. /\ UNCHANGED <<db, disk, snapshot, made, begun>>
        /\ holder' = [holder EXCEPT ![s] = "free"] /\ todo' = [todo EXCEPT ![s] = {}]
    BY DEF Kill, Hold
  <1>2. JobsOK'
    BY <1>1, SameDb
  <1>3. Shapes' /\ holder'[s] = "free"
    BY <1>1 DEF RetentionInv, Shapes
  <1>4. SnapshotOK'
    <2>1. holder'["original"] = "backup" =>
            holder["original"] = "backup" /\ todo'["original"] = todo["original"]
      BY <1>1 DEF RetentionInv, Shapes, Sites
    <2> QED BY <1>1, <2>1 DEF RetentionInv, SnapshotOK, Verified
  <1>5. HolderOK(s)' /\ DbOK(db'[s]) /\ FilesOK(s)'
    BY <1>1, <1>3 DEF RetentionInv, HolderOK, FilesOK, Rows
  <1>6. \A x \in Sites \ {s} : holder'[x] = holder[x] /\ todo'[x] = todo[x]
    BY <1>1 DEF RetentionInv, Shapes
  <1> QED BY <1>1, <1>2, <1>3, <1>4, <1>5, <1>6, OneSite

LEMMA SelectKeeps ==
    ASSUME IdsGiven, RetentionInv, NEW s \in Sites, PurgeSelect(s) \/ PurgeResume(s)
    PROVE  RetentionInv'
  <1>1. PICK S \in SUBSET Runs :
          /\ todo' = [todo EXCEPT ![s] = S]
          /\ S = db[s].pending \/ (db[s].pending = {} /\ S \subseteq Rows(db[s]))
    <2>1. CASE PurgeSelect(s)
      BY <2>1 DEF PurgeSelect, Purgeable, Rows
    <2>2. CASE PurgeResume(s)
      <3>1. db[s].pending \in SUBSET Runs
        BY DEF RetentionInv, Shapes, DbShape
      <3> QED BY <2>2, <3>1 DEF PurgeResume
    <2> QED BY <2>1, <2>2
  <1>2. /\ UNCHANGED <<db, disk, snapshot, made, begun>> /\ holder[s] = "free"
        /\ holder' = [holder EXCEPT ![s] = "purge"]
    BY DEF PurgeSelect, PurgeResume, Hold
  <1>3. JobsOK' /\ made' \in Nat /\ begun' \in [Jobs -> Nat]
    BY <1>2, SameDb
  <1>4. db' = [db EXCEPT ![s] = db[s]] /\ DbOK(db[s])
    BY <1>2 DEF RetentionInv, Shapes
  <1>5. db[s].published \subseteq disk[s] /\ disk[s] \subseteq Rows(db[s]) \cup db[s].pending
    BY DEF RetentionInv, FilesOK
  <1> QED BY <1>1, <1>2, <1>3, <1>4, <1>5, DbStep

LEMMA RowsKeep ==
    ASSUME IdsGiven, RetentionInv, NEW s \in Sites, PurgeRows(s)
    PROVE  RetentionInv'
  <1> DEFINE d == Purged(db[s], todo[s])
  <1>1. db' = [db EXCEPT ![s] = d]
    BY DEF PurgeRows, Write
  <1>2. /\ UNCHANGED <<disk, todo, snapshot, made, begun>> /\ holder[s] = "purge"
        /\ holder' = [holder EXCEPT ![s] = "remove"]
    BY DEF PurgeRows, Hold
  <1>3. /\ DbOK(db[s]) /\ todo[s] \in SUBSET Runs /\ db \in [Sites -> DbShape]
        /\ todo' = [todo EXCEPT ![s] = todo[s]]
        /\ todo[s] = db[s].pending \/ (db[s].pending = {} /\ todo[s] \subseteq Rows(db[s]))
        /\ db[s].published \subseteq disk[s] /\ disk[s] \subseteq Rows(db[s]) \cup db[s].pending
    BY <1>2 DEF RetentionInv, Shapes, HolderOK, FilesOK
  <1>4. /\ DbOK(d) /\ d.pending = todo[s] /\ Rows(d) = Rows(db[s]) \ todo[s]
        /\ d.published = db[s].published \ todo[s] /\ d.leased = db[s].leased \ todo[s]
        /\ \A r \in Runs : d.job[r] = IF r \in todo[s] THEN 0 ELSE db[s].job[r]
    BY <1>3, PurgedOK
  <1> HIDE DEF d
  <1>5. JobsOK'
    <2>1. \A x \in Sites : db'[x] = IF x = s THEN d ELSE db[x]
      BY <1>1, <1>3
    <2> QED BY <1>2, <1>4, <2>1, JobsTaken DEF RetentionInv
  <1>6. made' \in Nat /\ begun' \in [Jobs -> Nat]
    BY <1>2 DEF RetentionInv, Shapes
  <1>7. d.published \subseteq disk[s] /\ disk[s] \subseteq Rows(d) \cup d.pending
    BY <1>3, <1>4
  <1> QED BY <1>1, <1>2, <1>3, <1>4, <1>5, <1>6, <1>7, DbStep

LEMMA PurgeEndKeeps ==
    ASSUME IdsGiven, RetentionInv, NEW s \in Sites, PurgeFinish(s)
    PROVE  RetentionInv'
  <1>1. PICK d : db' = [db EXCEPT ![s] = d] /\ d = [db[s] EXCEPT !.pending = {}]
    BY DEF PurgeFinish, Write
  <1>2. /\ UNCHANGED <<disk, snapshot, made, begun>> /\ holder[s] = "remove"
        /\ holder' = [holder EXCEPT ![s] = "free"] /\ todo' = [todo EXCEPT ![s] = {}]
        /\ todo[s] \cap disk[s] = {}
    BY DEF PurgeFinish, Hold
  <1>3. /\ DbOK(db[s]) /\ db \in [Sites -> DbShape] /\ db[s] \in DbShape /\ todo[s] = db[s].pending
        /\ db[s].published \subseteq disk[s] /\ disk[s] \subseteq Rows(db[s]) \cup db[s].pending
    BY <1>2 DEF RetentionInv, Shapes, HolderOK, FilesOK
  <1>4. /\ d \in DbShape /\ d.pending = {} /\ d.status = db[s].status /\ d.job = db[s].job
        /\ d.leased = db[s].leased /\ d.published = db[s].published /\ d.receipt = db[s].receipt
        /\ d.deleted = db[s].deleted /\ d.admitted = db[s].admitted
    BY <1>1, <1>3 DEF DbShape
  <1>5. Rows(d) = Rows(db[s])
    BY <1>4 DEF Rows
  <1>6. DbOK(d)
    BY <1>3, <1>4, <1>5 DEF DbOK
  <1>7. JobsOK'
    <2>1. \A x \in Sites : db'[x] = IF x = s THEN d ELSE db[x]
      BY <1>1, <1>3
    <2> QED BY <1>2, <1>4, <2>1, JobsTaken DEF RetentionInv
  <1>8. made' \in Nat /\ begun' \in [Jobs -> Nat]
    BY <1>2 DEF RetentionInv, Shapes
  <1>9. d.published \subseteq disk[s] /\ disk[s] \subseteq Rows(d) \cup d.pending
    BY <1>2, <1>3, <1>4, <1>5
  <1> QED BY <1>1, <1>2, <1>4, <1>6, <1>7, <1>8, <1>9, DbStep

-----------------------------------------------------------------------------
(* Snapshots                                                               *)

LEMMA BackupKeeps ==
    ASSUME IdsGiven, RetentionInv,
           \/ Backup \/ BackupEnd \/ DiscardSnapshot
           \/ \E r \in Runs : BackupFiles(r)
    PROVE  RetentionInv'
  <1> DEFINE s == "original"
  <1>1. s \in Sites /\ UNCHANGED <<db, disk, made, begun>>
    BY DEF Sites, Backup, BackupEnd, DiscardSnapshot, BackupFiles
  <1>2. JobsOK'
    BY <1>1, SameDb
  <1>3. /\ DbOK(db[s]) /\ db[s] \in DbShape /\ disk[s] \in SUBSET Runs /\ todo[s] \in SUBSET Runs
        /\ disk[s] \subseteq Rows(db[s]) \cup db[s].pending /\ DbOK(EmptyDb)
    BY <1>1, EmptyIsOK DEF RetentionInv, Shapes, FilesOK
  <1>4. CASE Backup
    <2>1. /\ holder' = [holder EXCEPT ![s] = "backup"] /\ todo' = [todo EXCEPT ![s] = disk[s]]
          /\ snapshot' = [state |-> "copying", db |-> db[s], disk |-> {}]
          /\ db[s].pending = {}
      BY <1>4 DEF Backup, Hold, MayBackUp
    <2>2. Shapes' /\ holder'[s] = "backup" /\ todo'[s] = disk[s]
      BY <1>1, <1>3, <2>1 DEF RetentionInv, Shapes
    <2>3. SnapshotOK'
      BY <1>3, <2>1, <2>2 DEF SnapshotOK
    <2>4. HolderOK(s)' /\ FilesOK(s)' /\ DbOK(db'[s])
      BY <1>1, <1>3, <2>1, <2>2 DEF RetentionInv, HolderOK, FilesOK, Rows
    <2>5. \A x \in Sites \ {s} : holder'[x] = holder[x] /\ todo'[x] = todo[x]
      BY <2>1 DEF RetentionInv, Shapes
    <2> QED BY <1>1, <1>2, <2>2, <2>3, <2>4, <2>5, OneSite
  <1>5. CASE \E r \in Runs : BackupFiles(r)
    <2>1. PICK r \in todo[s] :
            /\ snapshot' = [snapshot EXCEPT !.disk = @ \cup {r}]
            /\ todo' = [todo EXCEPT ![s] = @ \ {r}]
            /\ holder' = holder /\ holder[s] = "backup"
      BY <1>5 DEF BackupFiles
    <2>2. Shapes' /\ todo'[s] = todo[s] \ {r}
      BY <1>1, <1>3, <2>1 DEF RetentionInv, Shapes
    <2>3. /\ (snapshot.db)' = snapshot.db /\ (snapshot.state)' = snapshot.state
          /\ (snapshot.disk)' = snapshot.disk \cup {r} /\ snapshot.state = "copying"
          /\ r \in Rows(snapshot.db)
      BY <1>1, <2>1 DEF RetentionInv, Shapes, SnapshotOK, HolderOK
    <2>4. SnapshotOK'
      BY <2>1, <2>2, <2>3 DEF RetentionInv, SnapshotOK
    <2>5. HolderOK(s)' /\ FilesOK(s)' /\ DbOK(db'[s])
      BY <1>1, <1>3, <2>1, <2>3 DEF RetentionInv, HolderOK, FilesOK, Rows
    <2>6. \A x \in Sites \ {s} : holder'[x] = holder[x] /\ todo'[x] = todo[x]
      BY <2>1 DEF RetentionInv, Shapes
    <2> QED BY <1>1, <1>2, <2>2, <2>4, <2>5, <2>6, OneSite
  <1>6. CASE BackupEnd
    <2>1. /\ snapshot' = IF Verified(snapshot) THEN [snapshot EXCEPT !.state = "whole"] ELSE NoSnapshot
          /\ holder' = [holder EXCEPT ![s] = "free"] /\ todo' = todo /\ holder[s] = "backup"
      BY <1>6 DEF BackupEnd, Hold
    <2>2. Shapes' /\ holder'[s] = "free"
      BY <1>1, <1>3, <2>1 DEF RetentionInv, Shapes, NoSnapshot, DbOK
    <2>3. SnapshotOK'
      <3>1. CASE Verified(snapshot)
        <4>1. /\ (snapshot.db)' = snapshot.db /\ (snapshot.disk)' = snapshot.disk
              /\ snapshot.state = "copying"
          BY <1>1, <2>1, <3>1 DEF RetentionInv, Shapes, HolderOK
        <4> QED BY <2>2, <3>1, <4>1 DEF RetentionInv, SnapshotOK, Verified
      <3>2. CASE ~Verified(snapshot)
        BY <1>3, <2>1, <2>2, <3>2 DEF SnapshotOK, NoSnapshot
      <3> QED BY <3>1, <3>2
    <2>4. HolderOK(s)' /\ FilesOK(s)' /\ DbOK(db'[s])
      BY <1>1, <1>3, <2>2 DEF RetentionInv, HolderOK, FilesOK, Rows
    <2>5. \A x \in Sites \ {s} : holder'[x] = holder[x] /\ todo'[x] = todo[x]
      BY <2>1 DEF RetentionInv, Shapes
    <2> QED BY <1>1, <1>2, <2>2, <2>3, <2>4, <2>5, OneSite
  <1>7. CASE DiscardSnapshot
    <2>1. snapshot' = NoSnapshot /\ UNCHANGED <<holder, todo>> /\ holder[s] # "backup"
      BY <1>7 DEF DiscardSnapshot
    <2>2. Shapes'
      BY <1>1, <1>3, <2>1 DEF RetentionInv, Shapes, NoSnapshot, DbOK
    <2>3. SnapshotOK'
      BY <1>3, <2>1 DEF SnapshotOK, NoSnapshot
    <2>4. HolderOK(s)' /\ FilesOK(s)' /\ DbOK(db'[s])
      BY <1>1, <1>3, <2>1 DEF RetentionInv, HolderOK, FilesOK, Rows
    <2> QED BY <1>1, <1>2, <2>1, <2>2, <2>3, <2>4, OneSite
  <1> QED BY <1>4, <1>5, <1>6, <1>7

\* What a restore brings back has no job of its snapshot.
LEMMA RestoreKeeps ==
    ASSUME IdsGiven, RetentionInv, Restore
    PROVE  RetentionInv'
  <1> DEFINE s == "restored"
             o == snapshot.db
             d == Defused(o)
  <1>1. /\ s \in Sites /\ holder[s] = "absent" /\ snapshot.state = "whole"
        /\ db' = [db EXCEPT ![s] = d] /\ disk' = [disk EXCEPT ![s] = snapshot.disk]
        /\ holder' = [holder EXCEPT ![s] = "free"] /\ UNCHANGED <<todo, snapshot, made, begun>>
    BY DEF Sites, Restore, Readable, Write, Hold
  <1>2. /\ DbOK(o) /\ o \in DbShape /\ o.pending = {} /\ snapshot.disk \subseteq Rows(o)
        /\ o.published \subseteq snapshot.disk
    BY <1>1 DEF RetentionInv, SnapshotOK, Verified, DbOK
  <1>3. /\ d.status = [r \in Runs |-> IF o.job[r] # 0 /\ o.status[r] # "ended"
                                        THEN "interrupted" ELSE o.status[r]]
        /\ d.job = [r \in Runs |-> 0] /\ d.leased = {} /\ d.published = o.published
        /\ d.receipt = o.receipt /\ d.deleted = o.deleted /\ d.pending = o.pending
        /\ d.admitted = o.admitted
    BY <1>2 DEF Defused, DbShape
  <1>4. d \in DbShape
    <2>1. d.status \in [Runs -> RunStatuses \cup {Nothing}] /\ d.job \in [Runs -> Nat]
      BY <1>2, <1>3 DEF DbShape, RunStatuses
    <2> QED BY <1>2, <2>1 DEF Defused, DbShape
  <1> HIDE DEF d
  <1>5. Rows(o) \subseteq Rows(d)
    BY <1>3 DEF Rows, Nothing
  <1>6. DbOK(d)
    BY <1>2, <1>3, <1>4, <1>5 DEF DbOK
  <1>7. db'[s] = d /\ disk'[s] = snapshot.disk /\ holder'[s] = "free"
    BY <1>1 DEF RetentionInv, Shapes
  <1>8. \A x \in Sites \ {s} : /\ db'[x] = db[x] /\ disk'[x] = disk[x]
                               /\ holder'[x] = holder[x] /\ todo'[x] = todo[x]
    BY <1>1 DEF RetentionInv, Shapes
  <1>9. Shapes'
    BY <1>1, <1>4 DEF RetentionInv, Shapes
  <1>10. SnapshotOK'
    BY <1>1, <1>8 DEF RetentionInv, SnapshotOK, Sites, Verified
  <1>11. JobsOK'
    <2>1. \A x \in Sites, r \in Runs :
            /\ db'[x].job[r] \in {0, db[x].job[r]}
            /\ r \in db[x].leased /\ db'[x].job[r] # 0 => r \in db'[x].leased
      BY <1>3, <1>7, <1>8
    <2> QED BY <1>1, <2>1, JobsTaken DEF RetentionInv
  <1>12. HolderOK(s)' /\ FilesOK(s)'
    BY <1>2, <1>3, <1>5, <1>7 DEF HolderOK, FilesOK, Rows
  <1> QED BY <1>1, <1>6, <1>7, <1>8, <1>9, <1>10, <1>11, <1>12, OneSite

LEMMA StepKeeps ==
    ASSUME IdsGiven, RetentionInv, [Next]_vars
    PROVE  RetentionInv'
  <1>1. CASE Seal \/ Damage \/ UNCHANGED vars
    <2>1. UNCHANGED <<db, disk, holder, todo, snapshot, made, begun>>
      BY <1>1 DEF Seal, Damage, vars
    <2>2. JobsOK'
      BY <2>1, SameDb
    <2>3. Shapes' /\ SnapshotOK'
      BY <2>1 DEF RetentionInv, Shapes, SnapshotOK, Verified
    <2>4. \A s \in Sites : DbOK(db'[s]) /\ HolderOK(s)' /\ FilesOK(s)'
      BY <2>1 DEF RetentionInv, HolderOK, FilesOK, Rows
    <2>5. "original" \in Sites
      BY DEF Sites
    <2> QED BY <2>1, <2>2, <2>3, <2>4, <2>5, OneSite
  <1>2. ASSUME NEW s \in Sites, Service(s) PROVE RetentionInv'
    BY <1>2, StartKeeps, CreateKeeps, ResumeKeeps, BeginKeeps, FilesKeep, RecordKeeps DEF Service
  <1>3. ASSUME NEW s \in Sites, Purge(s) \/ Kill(s) PROVE RetentionInv'
    BY <1>3, SelectKeeps, RowsKeep, FilesKeep, PurgeEndKeeps, KillKeeps DEF Purge
  <1>4. CASE Snapshots
    BY <1>1, <1>4, BackupKeeps, RestoreKeeps DEF Snapshots
  <1> QED BY <1>1, <1>2, <1>3, <1>4 DEF Next

\* The inductive invariant holds in every run.
THEOREM RetentionInvariant ==
    ASSUME IdsGiven
    PROVE  Spec => []RetentionInv
  <1>1. Init => RetentionInv
    BY InitHolds
  <1>2. RetentionInv /\ [Next]_vars => RetentionInv'
    BY StepKeeps
  <1> QED BY <1>1, <1>2, PTL DEF Spec

\* While the service is up files and rows agree, and so they do in a snapshot,
\* wherever a purge, a publication or a backup was killed (operations/retention.py,
\* operations/backup.py).
THEOREM FilesAndRowsAgree ==
    ASSUME IdsGiven
    PROVE  Spec => []FilesMatchRows
  <1>1. RetentionInv => FilesMatchRows
    BY DEF RetentionInv, HolderOK, FilesOK, SnapshotOK, FilesMatchRows, Serving, Verified
  <1> QED BY RetentionInvariant, <1>1, PTL

\* A key admits one request in a data directory, also after the run it made was purged
\* and after a restore (operations/retention.py; store/jobs.py).
THEOREM KeysAdmitOnce ==
    ASSUME IdsGiven
    PROVE  Spec => []KeyAdmitsOnce
  <1>1. RetentionInv => KeyAdmitsOnce
    BY DEF RetentionInv, DbOK, KeyAdmitsOnce
  <1> QED BY RetentionInvariant, <1>1, PTL

\* A job begins once, on the installation or on a restored one (operations/backup.py,
\* restore; store/jobs.py, recover).
THEOREM JobsBeginOnce ==
    ASSUME IdsGiven
    PROVE  Spec => []BegunOnce
  <1>1. RetentionInv => BegunOnce
    BY DEF RetentionInv, JobsOK, BegunOnce
  <1> QED BY RetentionInvariant, <1>1, PTL

-----------------------------------------------------------------------------
(* Types *)

\* The counters and the archive.
CountsOK ==
    /\ made <= MaxJobs /\ kills \in 0..MaxKills
    /\ archive \in {"none", "good", "damaged"}

\* A job is made, and a process is killed, only while the bound allows it.
LEMMA CountsKeep ==
    ASSUME IdsGiven, MaxKills \in Nat, RetentionInv, CountsOK, [Next]_vars
    PROVE  CountsOK'
  <1>1. made \in Nat /\ MaxJobs \in Nat
    BY DEF RetentionInv, Shapes, IdsGiven
  <1>2. CASE UNCHANGED <<made, kills, archive>>
    BY <1>2 DEF CountsOK
  <1>3. ASSUME made < MaxJobs, made' = made + 1, UNCHANGED <<kills, archive>> PROVE CountsOK'
    BY <1>1, <1>3 DEF CountsOK
  <1>4. ASSUME kills < MaxKills, kills' = kills + 1, made' = made, archive' \in {archive, "damaged"}
        PROVE  CountsOK'
    BY <1>4 DEF CountsOK
  <1>5. CASE Seal
    BY <1>1, <1>5 DEF Seal, CountsOK
  <1>6. CASE Damage
    BY <1>4, <1>6 DEF Damage
  <1>7. CASE Backup \/ BackupEnd \/ DiscardSnapshot \/ Restore \/ \E r \in Runs : BackupFiles(r)
    BY <1>2, <1>7 DEF Backup, BackupEnd, DiscardSnapshot, Restore, BackupFiles
  <1>8. ASSUME NEW s \in Sites, Service(s) PROVE CountsOK'
    <2>1. ASSUME NEW r \in Runs, (\E k \in Keys : Create(s, k, r)) \/ Resume(s, r) PROVE CountsOK'
      BY <1>3, <2>1 DEF Create, Resume, OnlyDb
    <2>2. CASE StartService(s) \/ \E r \in Runs : \/ Begin(s, r) \/ WriteFile(s, r)
                                                  \/ RecordArtifact(s, r) \/ EndRun(s, r)
      BY <1>2, <2>2 DEF StartService, Begin, WriteFile, RecordArtifact, EndRun, OnlyDb
    <2> QED BY <1>8, <2>1, <2>2 DEF Service
  <1>9. ASSUME NEW s \in Sites, Purge(s) PROVE CountsOK'
    BY <1>2, <1>9 DEF Purge, PurgeSelect, PurgeResume, PurgeRows, PurgeFinish, PurgeFiles
  <1>10. ASSUME NEW s \in Sites, Kill(s) PROVE CountsOK'
    BY <1>4, <1>10 DEF Kill
  <1>11. CASE UNCHANGED vars
    BY <1>2, <1>11 DEF vars
  <1> QED BY <1>5, <1>6, <1>7, <1>8, <1>9, <1>10, <1>11 DEF Next, Snapshots

\* Both databases, the locks and the journals stay within their types.
THEOREM TypeCorrect ==
    ASSUME IdsGiven, MaxKills \in Nat
    PROVE  Spec => []TypeOK
  <1>1. Init => CountsOK
    BY DEF Init, CountsOK, IdsGiven
  <1>2. RetentionInv /\ CountsOK /\ [Next]_vars => CountsOK'
    BY CountsKeep
  <1>3. ASSUME RetentionInv, CountsOK PROVE TypeOK
    <2>1. ASSUME NEW s \in Sites
          PROVE  /\ db[s].status \in [Runs -> RunStatuses \cup {Nothing}]
                 /\ db[s].job \in [Runs -> 0..MaxJobs]
                 /\ db[s].receipt \in [Keys -> Runs \cup {Nothing}]
      <3>1. db[s] \in DbShape /\ \A r \in Runs : db[s].job[r] <= MaxJobs
        BY <1>3 DEF RetentionInv, Shapes, JobsOK
      <3> QED BY <3>1 DEF DbShape, IdsGiven
    <2>2. made \in 0..MaxJobs
      BY <1>3 DEF RetentionInv, Shapes, CountsOK, IdsGiven
    <2> QED BY <1>3, <2>1, <2>2 DEF RetentionInv, Shapes, CountsOK, TypeOK
  <1> QED BY <1>1, <1>2, <1>3, RetentionInvariant, PTL DEF Spec
=============================================================================
