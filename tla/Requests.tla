------------------------------ MODULE Requests ------------------------------
(***************************************************************************)
(* Requests that admit work, and adoptions of artifacts, in a secured      *)
(* installation: the handlers of api/app.py behind admission_lock, with    *)
(* idempotency keys, over the transactions of store/job_store.py.  Answers *)
(* get lost, clients repeat their requests, the process dies between any   *)
(* two steps.                                                              *)
(*                                                                         *)
(* A key belongs to one operation, since its scope holds the path:         *)
(* "create" stands for POST /api/runs and for a fork, which add a run and  *)
(* submit it; "draft" for the same with start = false; "resume" for the    *)
(* resume of run 1.  Refusals that read only (lookup of the run, access,   *)
(* disk space) are the disjunct Refuse.  The decision of an approval       *)
(* resumes a paused run too, with no key and outside admission_lock.       *)
(***************************************************************************)
EXTENDS Naturals, Sequences, SequencesExt, FiniteSets

CONSTANTS
    Clients,        \* requests of users
    Adopters,       \* adoptions of users
    KeyOf,          \* the idempotency key of a request
    PayloadOf,      \* its input
    Operation,      \* of a key: "create", "draft", "resume"
    Selections,     \* the revision an adoption selects
    None, Denied,
    MaxPending,     \* JobStore.enqueue max_pending
    MaxRuns,        \* (bound) runs made
    MaxCrashes      \* (bound)

Keys == {KeyOf[c] : c \in Clients}
RunIds == 1..MaxRuns
Handlers == Clients \cup Adopters

VARIABLES
    at,         \* where the handler, or its client, is
    inside,     \* the handlers inside admission_lock
    own,        \* the run a handler made or resumes
    answer,     \* what the client was told: the run, or a refusal
    status,     \* runs.status
    active,     \* the runs with a queued or leased job
    receipt,    \* request_receipts
    jobs,       \* (history) jobs admitted by requests of each key
    shown,      \* expected_selected_revision: what a user saw, or None
    adopted,    \* the artifact.adopted events
    crashes

requestVars == <<own, answer, status, active, receipt, jobs>>
adoptVars == <<shown, adopted>>
vars == <<at, inside, requestVars, adoptVars, crashes>>

Places == {"idle", "waiting", "lookup", "admission", "make", "save", "submit", "compare",
           "append", "done"}

\* "paused" is each status resume accepts: approval_required, interrupted, failed ...
Statuses == {"none", "created", "queued", "paused", "completed", "blocked"}

TypeOK ==
    /\ at \in [Handlers -> Places] /\ inside \subseteq Handlers
    /\ own \in [Clients -> RunIds \cup {None}]
    /\ answer \in [Clients -> RunIds \cup {None, Denied}]
    /\ status \in [RunIds -> Statuses]
    /\ active \subseteq RunIds
    /\ \A k \in Keys : receipt[k] = None \/ receipt[k].run \in RunIds
    /\ jobs \in [Keys -> Nat] /\ crashes \in 0..MaxCrashes

Init ==
    /\ at = [h \in Handlers |-> "idle"] /\ inside = {}
    /\ own = [c \in Clients |-> None] /\ answer = [c \in Clients |-> None]
    /\ status = [r \in RunIds |-> IF r = 1 THEN "paused" ELSE "none"]
    /\ active = {} /\ receipt = [k \in Keys |-> None] /\ jobs = [k \in Keys |-> 0]
    /\ shown = [a \in Adopters |-> None]
    /\ adopted = <<>> /\ crashes = 0

Go(h, place) == at' = [at EXCEPT ![h] = place]
Leave(h) == inside' = inside \ {h}
Answer(c, reply) ==
    /\ Go(c, "done") /\ Leave(c)
    /\ answer' = [answer EXCEPT ![c] = reply] /\ own' = [own EXCEPT ![c] = None]
-----------------------------------------------------------------------------
(* The lock and the key. *)

\* A first request, or the same again after no answer came or a refusal did.
Send(c) ==
    /\ at[c] = "idle" \/ (at[c] = "done" /\ answer[c] = Denied)
    /\ Go(c, "waiting") /\ answer' = [answer EXCEPT ![c] = None]
    /\ UNCHANGED <<inside, own, status, active, receipt, jobs, adoptVars, crashes>>

\* (mutant of MayEnter) Handlers do not wait for each other.
MayEnterAnyway(h) == TRUE
MayEnter(h) == inside = {}

Enter(h, first) ==
    /\ at[h] = "waiting" /\ MayEnter(h)
    /\ inside' = inside \cup {h} /\ Go(h, first)
    /\ UNCHANGED <<requestVars, adoptVars, crashes>>

\* _idempotency: the stored answer, a conflict, or a new request.
Lookup(c) ==
    LET prior == receipt[KeyOf[c]] IN
    /\ at[c] = "lookup"
    /\ IF prior = None
         THEN Go(c, "admission") /\ UNCHANGED <<inside, own, answer>>
         ELSE Answer(c, IF prior.payload = PayloadOf[c] THEN prior.run ELSE Denied)
    /\ UNCHANGED <<status, active, receipt, jobs, adoptVars, crashes>>

Admission(c) ==
    /\ at[c] = "admission"
    /\ Operation[KeyOf[c]] = "draft" \/ Cardinality(active) < MaxPending
    /\ IF Operation[KeyOf[c]] = "resume"
         THEN status[1] = "paused" /\ own' = [own EXCEPT ![c] = 1] /\ Go(c, "submit")
         ELSE Go(c, "make") /\ UNCHANGED own
    /\ UNCHANGED <<inside, answer, status, active, receipt, jobs, adoptVars, crashes>>

Refuse(c) ==
    /\ at[c] = "admission"
    /\ Answer(c, Denied)
    /\ UNCHANGED <<status, active, receipt, jobs, adoptVars, crashes>>
-----------------------------------------------------------------------------
(* The work. *)

\* RunManager.create_run, fork: blocked when the precheck finds problems.
Make(c) ==
    /\ at[c] = "make"
    /\ \E r \in RunIds, s \in {"created", "blocked"} :
        /\ status[r] = "none" /\ \A q \in RunIds : q < r => status[q] # "none"
        /\ status' = [status EXCEPT ![r] = s]
        /\ own' = [own EXCEPT ![c] = r]
        /\ Go(c, IF s = "blocked" \/ Operation[KeyOf[c]] = "draft" THEN "save" ELSE "submit")
    /\ UNCHANGED <<inside, answer, active, receipt, jobs, adoptVars, crashes>>

\* (mutant of Recorded) The receipt is left to a transaction of its own.
RecordedLater(c) == receipt
Recorded(c) == [receipt EXCEPT ![KeyOf[c]] = [run |-> own[c], payload |-> PayloadOf[c]]]

\* save_receipt; scope_key is a primary key.
Save(c) ==
    /\ at[c] = "save" /\ receipt[KeyOf[c]] = None
    /\ receipt' = Recorded(c)
    /\ Answer(c, own[c])
    /\ UNCHANGED <<status, active, jobs, adoptVars, crashes>>

\* JobStore.enqueue: the job and the status, and the receipt if there is one, in
\* one transaction, which checks again what the admission checked.
Enqueue(r) ==
    /\ Cardinality(active) < MaxPending
    /\ r \notin active /\ status[r] \notin {"completed", "blocked"}
    /\ active' = active \cup {r}
    /\ status' = [status EXCEPT ![r] = "queued"]

Submit(c) ==
    /\ at[c] = "submit" /\ Enqueue(own[c])
    /\ receipt[KeyOf[c]] = None
    /\ receipt' = Recorded(c)
    /\ jobs' = [jobs EXCEPT ![KeyOf[c]] = @ + 1]
    /\ Answer(c, own[c])
    /\ UNCHANGED <<adoptVars, crashes>>

\* enqueue finds the queue full or the run queued, and raises JobConflict, or the
\* service is stopping: the client gets an error, the run that was made stays
\* "created", and there is no receipt.
Conflict(c) ==
    /\ at[c] = "submit"
    /\ Answer(c, Denied)
    /\ UNCHANGED <<status, active, receipt, jobs, adoptVars, crashes>>

\* A decision resumes the run that was paused for it (resolve_approval).
ResumeByDecision(r) ==
    /\ status[r] = "paused" /\ Enqueue(r)
    /\ UNCHANGED <<at, inside, own, answer, receipt, jobs, adoptVars, crashes>>

\* A delivery ends; JobQueue has the details.
JobEnds(r) ==
    /\ r \in active /\ active' = active \ {r}
    /\ \E s \in {"paused", "completed"} : status' = [status EXCEPT ![r] = s]
    /\ UNCHANGED <<at, inside, own, answer, receipt, jobs, adoptVars, crashes>>

AnswerLost(c) ==
    /\ at[c] = "done" /\ crashes < MaxCrashes
    /\ crashes' = crashes + 1
    /\ Go(c, "idle") /\ answer' = [answer EXCEPT ![c] = None]
    /\ UNCHANGED <<inside, own, status, active, receipt, jobs, adoptVars>>

Crash ==
    /\ crashes < MaxCrashes /\ crashes' = crashes + 1
    /\ inside' = {}
    /\ at' = [h \in Handlers |-> IF at[h] = "done" THEN "done" ELSE "idle"]
    /\ own' = [c \in Clients |-> None] /\ shown' = [a \in Adopters |-> None]
    /\ UNCHANGED <<answer, status, active, receipt, jobs, adopted>>
-----------------------------------------------------------------------------
(* Adoption: compare and append under the lock. *)

Selected == IF adopted = <<>> THEN 0 ELSE Last(adopted).revision

\* A user selects, having looked at the selection, or without naming what it saw.
Look(a) ==
    /\ at[a] = "idle" /\ Go(a, "waiting")
    /\ \E expected \in {Selected, None} : shown' = [shown EXCEPT ![a] = expected]
    /\ UNCHANGED <<inside, requestVars, adopted, crashes>>

Forget(a) == shown' = [shown EXCEPT ![a] = None]

Compare(a) ==
    /\ at[a] = "compare"
    /\ IF shown[a] \in {None, Selected} /\ Selected # Selections[a]
         THEN Go(a, "append") /\ UNCHANGED <<inside, shown>>
         ELSE Go(a, "done") /\ Leave(a) /\ Forget(a)
    /\ UNCHANGED <<requestVars, adopted, crashes>>

Adopt(a) ==
    /\ at[a] = "append"
    /\ adopted' = Append(adopted, [revision |-> Selections[a], replaces |-> shown[a]])
    /\ Go(a, "done") /\ Leave(a) /\ Forget(a)
    /\ UNCHANGED <<requestVars, crashes>>

Next ==
    \/ \E c \in Clients :
        \/ Send(c) \/ Enter(c, "lookup") \/ Lookup(c) \/ Admission(c) \/ Refuse(c)
        \/ Make(c) \/ Save(c) \/ Submit(c) \/ Conflict(c) \/ AnswerLost(c)
    \/ \E r \in RunIds : ResumeByDecision(r) \/ JobEnds(r)
    \/ \E a \in Adopters : Look(a) \/ Enter(a, "compare") \/ Compare(a) \/ Adopt(a)
    \/ Crash

Spec == Init /\ [][Next]_vars
-----------------------------------------------------------------------------
(* Properties *)

\* However often a request is sent, and wherever the process dies or refuses the
\* job of a run it has just made, its key admits one job, and whoever got an answer
\* that names a run got the one of the receipt, for the same input.
KeyAnswersOnce ==
    /\ \A k \in Keys : jobs[k] <= 1
    /\ \A c \in Clients : answer[c] \in RunIds =>
        receipt[KeyOf[c]] = [run |-> answer[c], payload |-> PayloadOf[c]]

\* A selection that names the one its user saw replaces that one, whatever other
\* users select meanwhile ("Stale selection -> 409", docs/quality/integration.md:28);
\* one that names none replaces any.
SelectionsChain ==
    \A i \in DOMAIN adopted :
        adopted[i].replaces \in {None, IF i = 1 THEN 0 ELSE adopted[i - 1].revision}
=============================================================================
