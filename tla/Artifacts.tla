------------------------------ MODULE Artifacts ------------------------------
(***************************************************************************)
(* The workspaces of the tasks of one run and the artifact store they      *)
(* publish to: store/artifact_store.py, the workspace tools and            *)
(* finish_task of runtime/tools.py, runtime/delivery.py and the end of the *)
(* run in runtime/orchestrator.py.                                         *)
(*                                                                         *)
(* Sessions of different tasks run side by side and give up control at     *)
(* every query; one session makes one call at a time.  Paths stand for     *)
(* logical paths with artifact ids of their own.                           *)
(***************************************************************************)
EXTENDS Naturals, FiniteSets, Sequences, SequencesExt

CONSTANTS
    Tasks,
    Paths,
    Declared,       \* output_paths of each task; a plan gives a path to one task
    Required,       \* paths with a requester delivery requirement
    Contents,       \* what a draft can hold, per path
    Conforming,     \* contents that pass the requirement's schema
    MaxRevisions,   \* bound: revisions of a path
    MaxSessions,    \* bound: sessions of a task
    MaxCrashes,     \* bound: crashes of the service
    NoDraft, Nobody

VARIABLES
    draft,      \* the file at each path of each task's workspace
    rows,       \* the artifacts table, per path in order of revision
    stored,     \* the files of the store, per path: r1, r2, ...
    lock,       \* the holder of db.write_lock
    call,       \* the call each session is in
    session,    \* "none", "live" or "finished" per task
    sessions,   \* sessions so far per task
    outcome,    \* the status the run ends with
    crashes

vars == <<draft, rows, stored, lock, call, session, sessions, outcome, crashes>>

Idle == [at |-> "idle"]

TypeOK ==
    /\ draft \in [Tasks -> [Paths -> (UNION {Contents[p] : p \in Paths}) \cup {NoDraft}]]
    /\ \A p \in Paths : \A i \in DOMAIN rows[p] :
         rows[p][i].task \in Tasks /\ rows[p][i].content \in Contents[p]
    /\ \A p \in Paths : Len(stored[p]) <= MaxRevisions
    /\ lock \in Tasks \cup {Nobody}
    /\ \A t \in Tasks : call[t].at \in {"idle", "checked", "written", "outputs", "drafts"}
    /\ session \in [Tasks -> {"none", "live", "finished"}]
    /\ sessions \in [Tasks -> 0..MaxSessions]
    /\ outcome \in {"none", "completed", "partial"}
    /\ crashes \in 0..MaxCrashes

Init ==
    /\ draft = [t \in Tasks |-> [p \in Paths |-> NoDraft]]
    /\ rows = [p \in Paths |-> <<>>]
    /\ stored = [p \in Paths |-> <<>>]
    /\ lock = Nobody
    /\ call = [t \in Tasks |-> Idle]
    /\ session = [t \in Tasks |-> "none"]
    /\ sessions = [t \in Tasks |-> 0]
    /\ outcome = "none"
    /\ crashes = 0

-----------------------------------------------------------------------------
(* Sessions                                                                *)

\* A task is started, for the first time or to revise what it published.
Start(t) ==
    /\ outcome = "none"
    /\ session[t] # "live" /\ sessions[t] < MaxSessions
    /\ session' = [session EXCEPT ![t] = "live"]
    /\ sessions' = [sessions EXCEPT ![t] = @ + 1]
    /\ UNCHANGED <<draft, rows, stored, lock, call, outcome, crashes>>

Ready(t) == session[t] = "live" /\ call[t] = Idle

Goes(t, c) == call' = [call EXCEPT ![t] = c]

\* workspace_write, workspace_write_json.
Write(t, p, c) ==
    /\ Ready(t)
    /\ draft[t][p] # c
    /\ draft' = [draft EXCEPT ![t][p] = c]
    /\ UNCHANGED <<rows, stored, lock, call, session, sessions, outcome, crashes>>

-----------------------------------------------------------------------------
(* publish_artifact                                                        *)

\* (mutant of OwnedByOther) Only what is published already has an owner.
OwnedByPublisher(t, p) == rows[p] # <<>> /\ Last(rows[p]).task # t

\* _artifact_for_path, and the task that declares the path.
OwnedByOther(t, p) ==
    \/ rows[p] # <<>> /\ Last(rows[p]).task # t
    \/ \E u \in Tasks \ {t} : p \in Declared[u]

\* The draft is read and the owner looked up; refused, nothing happens.
PublishCheck(t, p) ==
    /\ Ready(t)
    /\ draft[t][p] # NoDraft
    /\ Len(rows[p]) < MaxRevisions
    /\ ~OwnedByOther(t, p)
    /\ Goes(t, [at |-> "checked", path |-> p, data |-> draft[t][p]])
    /\ UNCHANGED <<draft, rows, stored, lock, session, sessions, outcome, crashes>>

\* (mutant of Placed) A file that is there already is kept.
PlacedOnce(files, n, data) == IF n \in DOMAIN files THEN files ELSE Append(files, data)

\* A file that a crash left at this number without its row is replaced.
Placed(files, n, data) ==
    IF n \in DOMAIN files THEN [files EXCEPT ![n] = data] ELSE Append(files, data)

\* Under the write lock: the next number, and the file in its place.
PublishWrite(t) ==
    /\ call[t].at = "checked" /\ lock = Nobody
    /\ LET p == call[t].path
           n == Len(rows[p]) + 1
       IN /\ n <= MaxRevisions
          /\ stored' = [stored EXCEPT ![p] = Placed(@, n, call[t].data)]
          /\ Goes(t, [at |-> "written", path |-> p, data |-> call[t].data, rev |-> n])
    /\ lock' = t
    /\ UNCHANGED <<draft, rows, session, sessions, outcome, crashes>>

\* The revision is the key of the row: a second row with it is refused.
RowsWith(t) ==
    IF call[t].rev = Len(rows[call[t].path]) + 1
    THEN [rows EXCEPT ![call[t].path] = Append(@, [task |-> t, content |-> call[t].data])]
    ELSE rows

Release(t) == lock' = IF lock = t THEN Nobody ELSE lock

PublishInsert(t) ==
    /\ call[t].at = "written"
    /\ rows' = RowsWith(t)
    /\ Release(t) /\ Goes(t, Idle)
    /\ UNCHANGED <<draft, stored, session, sessions, outcome, crashes>>

-----------------------------------------------------------------------------
(* finish_task                                                             *)

Mine(t, p) == rows[p] # <<>> /\ Last(rows[p]).task = t

\* The declared outputs are published by this task.
FinishOutputs(t) ==
    /\ Ready(t)
    /\ \A p \in Declared[t] : Mine(t, p)
    /\ Goes(t, [at |-> "outputs", ends |-> FALSE])
    /\ UNCHANGED <<draft, rows, stored, lock, session, sessions, outcome, crashes>>

\* auto_finish_if_outputs_published: a session that ends without finish_task counts as
\* finished when its outputs pass the same checks.
AutoFinish(t) ==
    /\ Ready(t)
    /\ Declared[t] # {} /\ \A p \in Declared[t] : Mine(t, p)
    /\ Goes(t, [at |-> "outputs", ends |-> TRUE])
    /\ UNCHANGED <<draft, rows, stored, lock, session, sessions, outcome, crashes>>

\* A call that is refused leaves its session; one that ended has no second try.
Refused(t) ==
    /\ Goes(t, Idle)
    /\ session' = [session EXCEPT ![t] = IF call[t].ends THEN "none" ELSE @]

\* (mutant of Unchanged) Unpublished edits are not looked for.
UnchangedUnseen(t, p) == TRUE

\* unpublished_workspace_changes: a draft that exists equals what is published.
Unchanged(t, p) == draft[t][p] \in {NoDraft, Last(rows[p]).content}

FinishDrafts(t) ==
    /\ call[t].at = "outputs"
    /\ IF \A p \in Paths : Mine(t, p) => Unchanged(t, p)
         THEN Goes(t, [call[t] EXCEPT !.at = "drafts"]) /\ UNCHANGED session
         ELSE Refused(t)
    /\ UNCHANGED <<draft, rows, stored, lock, sessions, outcome, crashes>>

\* verify_delivery of what this task publishes reads the file of the store.
Delivers(p) == stored[p][Len(rows[p])] \in Conforming

FinishDelivery(t) ==
    /\ call[t].at = "drafts"
    /\ IF \A p \in Required : Mine(t, p) => Delivers(p)
         THEN session' = [session EXCEPT ![t] = "finished"] /\ Goes(t, Idle)
         ELSE Refused(t)
    /\ UNCHANGED <<draft, rows, stored, lock, sessions, outcome, crashes>>

-----------------------------------------------------------------------------
(* The end of sessions and of the run                                      *)

\* A session that is cancelled while its row is being inserted leaves the row
\* or not: the statement was handed to the database or it was not.
Cancel(t) ==
    /\ session[t] = "live"
    /\ session' = [session EXCEPT ![t] = "none"]
    /\ rows' \in {rows} \cup (IF call[t].at = "written" THEN {RowsWith(t)} ELSE {})
    /\ Release(t) /\ Goes(t, Idle)
    /\ UNCHANGED <<draft, stored, sessions, outcome, crashes>>

\* The service dies; the workspaces, the store and the database stay.
Crash ==
    /\ crashes < MaxCrashes
    /\ crashes' = crashes + 1
    /\ session' = [t \in Tasks |-> IF session[t] = "live" THEN "none" ELSE session[t]]
    /\ call' = [t \in Tasks |-> Idle]
    /\ lock' = Nobody
    /\ UNCHANGED <<draft, rows, stored, sessions, outcome>>

\* _finish: a run whose tasks are all done is completed when every requirement
\* is met by what is published now, whoever published it.
Finish ==
    /\ outcome = "none"
    /\ \A t \in Tasks : session[t] = "finished"
    /\ outcome' = IF \A p \in Required : rows[p] # <<>> /\ Delivers(p)
                  THEN "completed" ELSE "partial"
    /\ UNCHANGED <<draft, rows, stored, lock, call, session, sessions, crashes>>

Next ==
    \/ \E t \in Tasks :
        \/ Start(t) \/ Cancel(t)
        \/ \E p \in Paths : PublishCheck(t, p) \/ \E c \in Contents[p] : Write(t, p, c)
        \/ PublishWrite(t) \/ PublishInsert(t)
        \/ FinishOutputs(t) \/ AutoFinish(t) \/ FinishDrafts(t) \/ FinishDelivery(t)
    \/ Crash \/ Finish

Spec == Init /\ [][Next]_vars

-----------------------------------------------------------------------------
(* Properties                                                              *)

\* Whatever two sessions, cancellations and crashes do in the middle of a
\* publication, the file of every published revision holds what was published
\* under that number (artifact_store.py, publish).
RowsHaveTheirFiles ==
    \A p \in Paths : \A n \in DOMAIN rows[p] :
        n \in DOMAIN stored[p] /\ stored[p][n] = rows[p][n].content

\* Once a task has finished, and until it is started again, its declared
\* outputs are published by it, are what its workspace holds and meet the
\* requester's requirement, although other tasks go on publishing
\* (tools.py, finish_task and publish_artifact).
FinishedOutputsStand ==
    \A t \in Tasks : session[t] = "finished" =>
        \A p \in Declared[t] :
            /\ Mine(t, p)
            /\ draft[t][p] \in {NoDraft, Last(rows[p]).content}
            /\ p \in Required => Last(rows[p]).content \in Conforming

=============================================================================
