------------------------------ MODULE Retention ------------------------------
(***************************************************************************)
(* Who may touch a data directory, and what a purge, a backup and a        *)
(* restore leave behind: operations/retention.py, backup.py and            *)
(* encrypted_backup.py against the service that writes the directory.      *)
(* All of them hold .service.lock (flock), which the system frees when a   *)
(* process ends, whatever it was doing.                                    *)
(*                                                                         *)
(* Two installations: the original and the one made from its snapshot.     *)
(* A transaction of SQLite is one step, a run directory is removed or      *)
(* copied in one step.  Requests and executions are cut down to the rows   *)
(* and files they leave; JobQueue and Requests have the rest.  A restore   *)
(* that is killed leaves a directory nobody starts the service on.         *)
(***************************************************************************)
EXTENDS Naturals, FiniteSets

CONSTANTS
    Runs,       \* run ids
    Keys,       \* idempotency keys
    MaxJobs,    \* (bound) execution jobs made in all
    MaxKills    \* (bound) processes that end without finishing

Sites == {"original", "restored"}
Jobs == 1..MaxJobs
Nothing == "nothing"

VARIABLES
    db,         \* agentteam.sqlite of each installation
    disk,       \* the run directories with files
    holder,     \* who holds .service.lock; "absent": no such directory
    todo,       \* purge: the selected runs; backup: the directories to copy
    snapshot,   \* the directory a backup wrote
    archive,    \* the sealed snapshot
    made,       \* (history) jobs made so far
    begun,      \* (history) how often each job was begun, anywhere
    kills

vars == <<db, disk, holder, todo, snapshot, archive, made, begun, kills>>

\* "ended" is completed, partial, failed or cancelled, of which all but completed
\* may be resumed.
RunStatuses == {"queued", "running", "interrupted", "ended"}
EmptyDb ==
    [status    |-> [r \in Runs |-> Nothing],   \* runs.status, no row: Nothing
     job       |-> [r \in Runs |-> 0],         \* the queued or leased job of the run
     leased    |-> {},                         \* the runs whose job is leased
     published |-> {},                         \* the runs with rows in artifacts
     receipt   |-> [k \in Keys |-> Nothing],   \* request_receipts.run_id
     deleted   |-> {},                         \* deleted_request_receipts
     pending   |-> {},                         \* purge_journal, state pending
     admitted  |-> [k \in Keys |-> 0]]         \* (history) requests of the key admitted

Rows(d) == {r \in Runs : d.status[r] # Nothing}

TypeOK ==
    /\ \A s \in Sites :
        /\ db[s].status \in [Runs -> RunStatuses \cup {Nothing}]
        /\ db[s].job \in [Runs -> 0..MaxJobs]
        /\ db[s].receipt \in [Keys -> Runs \cup {Nothing}]
    /\ disk \in [Sites -> SUBSET Runs] /\ todo \in [Sites -> SUBSET Runs]
    /\ holder \in [Sites -> {"absent", "free", "service", "purge", "remove", "backup"}]
    /\ archive \in {"none", "good", "damaged"}
    /\ made \in 0..MaxJobs /\ kills \in 0..MaxKills

NoSnapshot == [state |-> "none", db |-> EmptyDb, disk |-> {}]

Init ==
    /\ db = [s \in Sites |-> EmptyDb]
    /\ disk = [s \in Sites |-> {}]
    /\ holder = [s \in Sites |-> IF s = "original" THEN "free" ELSE "absent"]
    /\ todo = [s \in Sites |-> {}]
    /\ snapshot = NoSnapshot /\ archive = "none"
    /\ made = 0 /\ begun = [j \in Jobs |-> 0] /\ kills = 0

Hold(s, who) == holder' = [holder EXCEPT ![s] = who]
Write(s, d) == db' = [db EXCEPT ![s] = d]
-----------------------------------------------------------------------------
(* The service. *)

\* (mutant of MayStart) The journal is not looked at.
MayStartAnyway(s) == TRUE
\* Startup refuses traffic while a deletion is unfinished.
MayStart(s) == db[s].pending = {}

\* JobStore.recover and the runs an earlier process left running.
Recovered(d) ==
    [d EXCEPT
        !.status = [r \in Runs |-> IF d.status[r] = "running" \/ (r \in d.leased /\ d.status[r] # "ended")
                                     THEN "interrupted" ELSE d.status[r]],
        !.job = [r \in Runs |-> IF r \in d.leased THEN 0 ELSE d.job[r]],
        !.leased = {}]

StartService(s) ==
    /\ holder[s] = "free" /\ MayStart(s)
    /\ Hold(s, "service")
    /\ Write(s, Recovered(db[s]))
    /\ UNCHANGED <<disk, todo, snapshot, archive, made, begun, kills>>

Serving(s) == holder[s] = "service"
Enqueued(d, r) == [d EXCEPT !.job[r] = made + 1, !.status[r] = "queued"]
OnlyDb == UNCHANGED <<disk, holder, todo, snapshot, archive, kills>>

\* A request with an idempotency key: an earlier answer is replayed, a deleted
\* one refused (410); neither writes anything.
Create(s, k, r) ==
    /\ Serving(s) /\ made < MaxJobs
    /\ db[s].receipt[k] = Nothing /\ k \notin db[s].deleted
    /\ \A x \in Sites : r \notin Rows(db[x])
    /\ r \notin Rows(snapshot.db)
    /\ Write(s, [Enqueued(db[s], r) EXCEPT !.receipt[k] = r, !.admitted[k] = @ + 1])
    /\ made' = made + 1
    /\ UNCHANGED begun /\ OnlyDb

Resume(s, r) ==
    /\ Serving(s) /\ made < MaxJobs
    /\ db[s].status[r] \in {"interrupted", "ended"} /\ db[s].job[r] = 0
    /\ Write(s, Enqueued(db[s], r))
    /\ made' = made + 1
    /\ UNCHANGED begun /\ OnlyDb

Begin(s, r) ==
    /\ Serving(s) /\ db[s].job[r] # 0 /\ r \notin db[s].leased
    /\ Write(s, [db[s] EXCEPT !.leased = @ \cup {r}, !.status[r] = "running"])
    /\ begun' = [begun EXCEPT ![db[s].job[r]] = @ + 1]
    /\ UNCHANGED made /\ OnlyDb

\* ArtifactStore.publish: the file first, then the row.
WriteFile(s, r) ==
    /\ Serving(s) /\ db[s].status[r] = "running" /\ r \notin disk[s]
    /\ disk' = [disk EXCEPT ![s] = @ \cup {r}]
    /\ UNCHANGED <<db, holder, todo, snapshot, archive, made, begun, kills>>

RecordArtifact(s, r) ==
    /\ Serving(s) /\ db[s].status[r] = "running" /\ r \in disk[s] \ db[s].published
    /\ Write(s, [db[s] EXCEPT !.published = @ \cup {r}])
    /\ UNCHANGED <<made, begun>> /\ OnlyDb

EndRun(s, r) ==
    /\ Serving(s) /\ db[s].status[r] = "running"
    /\ Write(s, [db[s] EXCEPT !.status[r] = "ended", !.job[r] = 0, !.leased = @ \ {r}])
    /\ UNCHANGED <<made, begun>> /\ OnlyDb

\* Any holder of the lock ends: the service stops or dies, an operation is killed.
Kill(s) ==
    /\ holder[s] \notin {"absent", "free"} /\ kills < MaxKills
    /\ kills' = kills + 1
    /\ Hold(s, "free")
    /\ todo' = [todo EXCEPT ![s] = {}]
    /\ UNCHANGED <<db, disk, snapshot, archive, made, begun>>
-----------------------------------------------------------------------------
(* agentteam purge *)

Purgeable(d) == {r \in Rows(d) : d.status[r] \notin {"queued", "running"}}

\* The lock, the journal and the selection; a refusal changes nothing.
PurgeSelect(s) ==
    /\ holder[s] = "free" /\ db[s].pending = {}
    /\ \E S \in SUBSET Purgeable(db[s]) :
        /\ S # {} /\ todo' = [todo EXCEPT ![s] = S]
    /\ Hold(s, "purge")
    /\ UNCHANGED <<db, disk, snapshot, archive, made, begun, kills>>

PurgeResume(s) ==
    /\ holder[s] = "free" /\ db[s].pending # {}
    /\ todo' = [todo EXCEPT ![s] = db[s].pending]
    /\ Hold(s, "purge")
    /\ UNCHANGED <<db, disk, snapshot, archive, made, begun, kills>>

\* (mutant of KeysOf) Receipts go with their runs.
KeysNotKept(d, S) == {}
\* The receipts of the runs are kept as keys that were used.
KeysOf(d, S) == {k \in Keys : d.receipt[k] \in S}

Purged(d, S) ==
    [d EXCEPT
        !.pending = S,
        !.deleted = @ \cup KeysOf(d, S),
        !.receipt = [k \in Keys |-> IF d.receipt[k] \in S THEN Nothing ELSE d.receipt[k]],
        !.status = [r \in Runs |-> IF r \in S THEN Nothing ELSE d.status[r]],
        !.job = [r \in Runs |-> IF r \in S THEN 0 ELSE d.job[r]],
        !.leased = @ \ S,
        !.published = @ \ S]

PurgeRows(s) ==
    /\ holder[s] = "purge"
    /\ Write(s, Purged(db[s], todo[s]))
    /\ Hold(s, "remove")
    /\ UNCHANGED <<disk, todo, snapshot, archive, made, begun, kills>>

PurgeFiles(s, r) ==
    /\ holder[s] = "remove" /\ r \in todo[s] \cap disk[s]
    /\ disk' = [disk EXCEPT ![s] = @ \ {r}]
    /\ UNCHANGED <<db, holder, todo, snapshot, archive, made, begun, kills>>

\* Compaction, then the journal.
PurgeFinish(s) ==
    /\ holder[s] = "remove" /\ todo[s] \cap disk[s] = {}
    /\ Write(s, [db[s] EXCEPT !.pending = {}])
    /\ Hold(s, "free")
    /\ todo' = [todo EXCEPT ![s] = {}]
    /\ UNCHANGED <<disk, snapshot, archive, made, begun, kills>>
-----------------------------------------------------------------------------
(* agentteam backup, seal-backup, unseal-backup, restore *)

MayBackUp(s) == holder[s] = "free" /\ db[s].pending = {}

Backup ==
    /\ MayBackUp("original") /\ snapshot.state = "none"
    /\ snapshot' = [state |-> "copying", db |-> db["original"], disk |-> {}]
    /\ todo' = [todo EXCEPT !["original"] = disk["original"]]
    /\ Hold("original", "backup")
    /\ UNCHANGED <<db, disk, archive, made, begun, kills>>

BackupFiles(r) ==
    /\ holder["original"] = "backup" /\ r \in todo["original"]
    /\ snapshot' = [snapshot EXCEPT !.disk = @ \cup {r}]
    /\ todo' = [todo EXCEPT !["original"] = @ \ {r}]
    /\ UNCHANGED <<db, disk, holder, archive, made, begun, kills>>

\* verify: the manifest, and a file for every artifact of the database.
Verified(snap) == snap.db.published \subseteq snap.disk

BackupEnd ==
    /\ holder["original"] = "backup" /\ todo["original"] = {}
    /\ snapshot' = IF Verified(snapshot) THEN [snapshot EXCEPT !.state = "whole"] ELSE NoSnapshot
    /\ Hold("original", "free")
    /\ UNCHANGED <<db, disk, todo, archive, made, begun, kills>>

\* A killed backup has no manifest; the operator removes it.
DiscardSnapshot ==
    /\ snapshot.state = "copying" /\ holder["original"] # "backup"
    /\ snapshot' = NoSnapshot
    /\ UNCHANGED <<db, disk, holder, todo, archive, made, begun, kills>>

\* Published by a hard link once the snapshot was verified again.
Seal ==
    /\ snapshot.state = "whole" /\ archive = "none"
    /\ archive' = "good"
    /\ UNCHANGED <<db, disk, holder, todo, snapshot, made, begun, kills>>

\* Storage outside the installation.
Damage ==
    /\ archive = "good" /\ kills < MaxKills
    /\ archive' = "damaged" /\ kills' = kills + 1
    /\ UNCHANGED <<db, disk, holder, todo, snapshot, made, begun>>

\* Once sealed, the snapshot comes from the archive: unseal compares its digest.
Readable == snapshot.state = "whole" /\ archive # "damaged"

\* (mutant of Defused) A snapshot is restored as it is.
Undefused(d) == d
\* No queued or leased intent of a snapshot is replayed.
Defused(d) ==
    [d EXCEPT
        !.status = [r \in Runs |-> IF d.job[r] # 0 /\ d.status[r] # "ended"
                                     THEN "interrupted" ELSE d.status[r]],
        !.job = [r \in Runs |-> 0],
        !.leased = {}]

Restore ==
    /\ holder["restored"] = "absent" /\ Readable
    /\ Write("restored", Defused(snapshot.db))
    /\ disk' = [disk EXCEPT !["restored"] = snapshot.disk]
    /\ Hold("restored", "free")
    /\ UNCHANGED <<todo, snapshot, archive, made, begun, kills>>
-----------------------------------------------------------------------------
Service(s) ==
    \/ StartService(s)
    \/ \E k \in Keys, r \in Runs : Create(s, k, r)
    \/ \E r \in Runs :
        \/ Resume(s, r) \/ Begin(s, r) \/ WriteFile(s, r)
        \/ RecordArtifact(s, r) \/ EndRun(s, r)

Purge(s) ==
    \/ PurgeSelect(s) \/ PurgeResume(s) \/ PurgeRows(s) \/ PurgeFinish(s)
    \/ \E r \in Runs : PurgeFiles(s, r)

Snapshots ==
    \/ Backup \/ BackupEnd \/ DiscardSnapshot \/ Seal \/ Damage \/ Restore
    \/ \E r \in Runs : BackupFiles(r)

Next == Snapshots \/ \E s \in Sites : Service(s) \/ Purge(s) \/ Kill(s)

Spec == Init /\ [][Next]_vars
-----------------------------------------------------------------------------
(* Properties *)

\* While the service is up, and in a snapshot that is whole, files and rows
\* agree: no file of a run that was deleted, no artifact without its file,
\* wherever a purge, a publication or a backup was cut off before.
FilesMatchRows ==
    /\ \A s \in Sites : Serving(s) =>
        db[s].published \subseteq disk[s] /\ disk[s] \subseteq Rows(db[s])
    /\ snapshot.state = "whole" =>
        /\ snapshot.db.published \subseteq snapshot.disk
        /\ snapshot.disk \subseteq Rows(snapshot.db)

\* A key admits work once in a data directory, also after the run it made was
\* deleted and after the directory was restored from a snapshot.
KeyAdmitsOnce == \A s \in Sites, k \in Keys : db[s].admitted[k] <= 1

\* Nothing that was queued or leased when the snapshot was taken, or when a
\* process died, is begun a second time, on either installation.
BegunOnce == \A j \in Jobs : begun[j] <= 1
=============================================================================
