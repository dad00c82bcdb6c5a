------------------------------ MODULE Approvals ------------------------------
(***************************************************************************)
(* A session asks a person to approve an action (runtime/tools.py), the    *)
(* person decides (runtime/orchestrator.py, resolve_approval), and a run   *)
(* that paused in the meantime is resumed (resume, _prepare_resume).       *)
(*                                                                         *)
(* A decision is written to the row of the approval and then handed over:  *)
(* to the session that waits, or, when nobody waits, to the paused run.    *)
(* The session's wait may time out and the run may pause between any two   *)
(* of these steps.  Scheduling is reduced to what decides when a run       *)
(* pauses (runtime/scheduler.py; Scheduler models it in full), delivery to *)
(* one job at a time (JobQueue).                                           *)
(***************************************************************************)
EXTENDS Naturals, FiniteSets

CONSTANTS
    Tasks,          \* the tasks of one run
    MaxRequests,    \* bound: approvals that the sessions of a task ask for
    Resolvers,      \* bound: requests of users that are handled at a time
    MaxCrashes,     \* bound: crashes that are explored
    MaxRefusals,    \* bound: handlers that end with an error and are explored
    None            \* no approval: not a pair of Approvals

Approvals == Tasks \X (1..MaxRequests)

VARIABLES
    approval,   \* approvals.status, "absent" before the row is inserted
    session,    \* where the session of each task is
    told,       \* what a session was told about each approval
    task,       \* task statuses; "ready" is queued and ready
    pause,      \* Scheduler._pause_for_approval
    run,        \* runs.status; "interrupted" is interrupted and cancelled
    exec,       \* the execution of the run, from its job to its end
    resolver,   \* the handlers of users' requests
    crashes,    \* crashes so far
    refusals    \* handlers so far that ended with an error

vars == <<approval, session, told, task, pause, run, exec, resolver, crashes, refusals>>

\* "approved" is approved, with the payload as asked or as edited.
Decisions == {"approved", "rejected"}
Resumable == {"approval_required", "interrupted", "failed"}
Idle == [at |-> "idle", of |-> None, decision |-> "none"]

\* The approvals of a task so far, and the last of them.
Asked(t) == {a \in Approvals : a[1] = t /\ approval[a] # "absent"}
Latest(t) == <<t, Cardinality(Asked(t))>>
Pending(t) == {a \in Asked(t) : approval[a] = "pending"}

\* The approval a session is in a call of request_approval for.
InCall(t) == session[t] \in {"requested", "waiting", "woken"}
WaitsFor(t, a) == session[t] = "waiting" /\ Latest(t) = a

TypeOK ==
    /\ approval \in [Approvals -> Decisions \cup {"absent", "pending", "expired"}]
    /\ session \in [Tasks -> {"none", "working", "requested", "waiting", "woken", "pending"}]
    /\ told \in [Approvals -> Decisions \cup {"none"}]
    /\ task \in [Tasks -> {"ready", "running", "approval_required", "interrupted", "finished"}]
    /\ pause \in BOOLEAN
    /\ run \in Resumable \cup {"queued", "running", "completed"}
    /\ exec \in {"none", "queued", "preparing", "scheduling", "pausing", "ending", "closing"}
    /\ resolver \in [Resolvers -> [at : {"idle", "read", "written", "status", "resume"},
                                   of : Approvals \cup {None},
                                   decision : Decisions \cup {"expired", "none"}]]
    /\ crashes \in 0..MaxCrashes /\ refusals \in 0..MaxRefusals

Init ==
    /\ approval = [a \in Approvals |-> "absent"]
    /\ session = [t \in Tasks |-> "none"]
    /\ told = [a \in Approvals |-> "none"]
    /\ task = [t \in Tasks |-> "ready"]
    /\ pause = FALSE
    /\ run = "running"
    /\ exec = "scheduling"
    /\ resolver = [c \in Resolvers |-> Idle]
    /\ crashes = 0 /\ refusals = 0

-----------------------------------------------------------------------------
(* Sessions. *)

\* A scheduler that is going to pause starts nothing more.
StartTask(t) ==
    /\ exec = "scheduling" /\ ~pause
    /\ task[t] = "ready"
    /\ task' = [task EXCEPT ![t] = "running"]
    /\ session' = [session EXCEPT ![t] = "working"]
    /\ UNCHANGED <<approval, told, pause, run, exec, resolver, crashes, refusals>>

\* request_approval inserts the row; from here on a person can decide.
Request(t) ==
    /\ session[t] = "working"
    /\ Cardinality(Asked(t)) < MaxRequests
    /\ approval' = [approval EXCEPT ![<<t, Cardinality(Asked(t)) + 1>>] = "pending"]
    /\ session' = [session EXCEPT ![t] = "requested"]
    /\ UNCHANGED <<told, task, pause, run, exec, resolver, crashes, refusals>>

\* After the event was appended, the session waits.
Register(t) ==
    /\ session[t] = "requested"
    /\ session' = [session EXCEPT ![t] = "waiting"]
    /\ UNCHANGED <<approval, told, task, pause, run, exec, resolver, crashes, refusals>>

\* (mutant of TimeOut) The time-out falls through to the answer.
TimeOutAnswering(t) ==
    /\ session[t] = "waiting"
    /\ told' = [told EXCEPT ![Latest(t)] = approval[Latest(t)]]
    /\ session' = [session EXCEPT ![t] = "working"]
    /\ UNCHANGED <<approval, task, pause, run, exec, resolver, crashes, refusals>>

TimeOut(t) ==
    /\ session[t] = "waiting"
    /\ session' = [session EXCEPT ![t] = "pending"]
    /\ UNCHANGED <<approval, told, task, pause, run, exec, resolver, crashes, refusals>>

\* Whatever the row says when it is read; what is not approved reads as rejected.
Answered(a) == IF approval[a] = "approved" THEN "approved" ELSE "rejected"

Answer(t) ==
    /\ session[t] = "woken"
    /\ told' = [told EXCEPT ![Latest(t)] = Answered(Latest(t))]
    /\ session' = [session EXCEPT ![t] = "working"]
    /\ UNCHANGED <<approval, task, pause, run, exec, resolver, crashes, refusals>>

\* The task ends, however.  An agent behind the command-line driver may call
\* finish_task or report_blocker although its approval is pending.
Finish(t) ==
    /\ session[t] \in {"working", "pending"}
    /\ task' = [task EXCEPT ![t] = "finished"]
    /\ session' = [session EXCEPT ![t] = "none"]
    /\ UNCHANGED <<approval, told, pause, run, exec, resolver, crashes, refusals>>

PauseTask(t) ==
    /\ session[t] = "pending"
    /\ task' = [task EXCEPT ![t] = "approval_required"]
    /\ pause' = TRUE
    /\ session' = [session EXCEPT ![t] = "none"]
    /\ UNCHANGED <<approval, told, run, exec, resolver, crashes, refusals>>

-----------------------------------------------------------------------------
(* The execution. *)

NothingRuns == \A t \in Tasks : session[t] = "none"

\* Scheduler.run returns when nothing runs.
IdleReturn ==
    /\ exec = "scheduling" /\ NothingRuns
    /\ pause \/ \A t \in Tasks : task[t] # "ready"
    /\ exec' = IF pause THEN "pausing" ELSE "ending"
    /\ UNCHANGED <<approval, session, told, task, pause, run, resolver, crashes, refusals>>

\* _finish stores the status ...
StorePaused ==
    /\ exec = "pausing"
    /\ run' = "approval_required"
    /\ exec' = "closing"
    /\ UNCHANGED <<approval, session, told, task, pause, resolver, crashes, refusals>>

StoreEnded ==
    /\ exec = "ending"
    /\ run' \in {"completed", "failed"}
    /\ exec' = "closing"
    /\ UNCHANGED <<approval, session, told, task, pause, resolver, crashes, refusals>>

\* ... and the delivery finishes the job after _execute has cleaned up.
Close ==
    /\ exec = "closing"
    /\ exec' = "none"
    /\ UNCHANGED <<approval, session, told, task, pause, run, resolver, crashes, refusals>>

Abandoned(status) == [t \in Tasks |-> IF task[t] = "running" THEN status ELSE task[t]]

\* The run is cancelled or the service shuts down; waiting sessions are cancelled.
Stop ==
    /\ exec = "scheduling"
    /\ task' = Abandoned("interrupted")
    /\ session' = [t \in Tasks |-> "none"]
    /\ run' = "interrupted"
    /\ exec' = "closing"
    /\ UNCHANGED <<approval, told, pause, resolver, crashes, refusals>>

\* (mutant of Begin) The scheduler of the execution before is used again.
BeginKeepingPause ==
    /\ exec = "queued"
    /\ exec' = "preparing"
    /\ UNCHANGED <<approval, session, told, task, pause, run, resolver, crashes, refusals>>

\* A delivery begins: the runtime and the scheduler are new.
Begin ==
    /\ exec = "queued"
    /\ exec' = "preparing"
    /\ pause' = FALSE
    /\ UNCHANGED <<approval, session, told, task, run, resolver, crashes, refusals>>

\* (mutant of Requeued) A paused task goes on whether its approval is decided or not.
RequeuedAnyway == {t \in Tasks : task[t] \in {"running", "interrupted", "approval_required"}}

Requeued == {t \in Tasks : task[t] \in {"running", "interrupted"}
                             \/ (task[t] = "approval_required" /\ Pending(t) = {})}
StillPending == {t \in Tasks : task[t] = "approval_required" /\ Pending(t) # {}}

PrepareResume ==
    /\ exec = "preparing"
    /\ StillPending = {}
    /\ task' = [t \in Tasks |-> IF t \in Requeued THEN "ready" ELSE task[t]]
    /\ run' = "running"
    /\ exec' = "scheduling"
    /\ UNCHANGED <<approval, session, told, pause, resolver, crashes, refusals>>

\* PlanError at the first task whose approval is pending; those before it in the
\* order of the rows are requeued already.
PrepareRefused ==
    /\ exec = "preparing"
    /\ StillPending # {}
    /\ \E before \in SUBSET Requeued :
         task' = [t \in Tasks |-> IF t \in before THEN "ready" ELSE task[t]]
    /\ run' = "failed"
    /\ exec' = "closing"
    /\ UNCHANGED <<approval, session, told, pause, resolver, crashes, refusals>>

-----------------------------------------------------------------------------
(* Requests of users. *)

\* The checks of resolve_approval, on the row as it was read.  An approval expires
\* after a day: no session is in a call for it any more.
ReadApproval(c, a) ==
    /\ resolver[c].at = "idle"
    /\ approval[a] = "pending"
    /\ \E d \in Decisions \cup {"expired"} :
         /\ d = "expired" => ~(InCall(a[1]) /\ Latest(a[1]) = a)
         /\ resolver' = [resolver EXCEPT ![c] = [at |-> "read", of |-> a, decision |-> d]]
    /\ UNCHANGED <<approval, session, told, task, pause, run, exec, crashes, refusals>>

\* update_approval is unconditional.
WriteDecision(c) ==
    /\ resolver[c].at = "read"
    /\ approval' = [approval EXCEPT ![resolver[c].of] = resolver[c].decision]
    /\ resolver' = [resolver EXCEPT ![c] =
                      IF resolver[c].decision = "expired" THEN Idle ELSE [@ EXCEPT !.at = "written"]]
    /\ UNCHANGED <<session, told, task, pause, run, exec, crashes, refusals>>

\* (mutant of Notify) The waiter is set before the row is written.
NotifyEarly(c) ==
    LET a == resolver[c].of IN
    /\ resolver[c].at \in {"read", "written"}
    /\ IF WaitsFor(a[1], a)
       THEN /\ session' = [session EXCEPT ![a[1]] = "woken"]
            /\ resolver' = IF resolver[c].at = "read" THEN resolver
                           ELSE [resolver EXCEPT ![c] = Idle]
       ELSE /\ resolver[c].at = "written"
            /\ resolver' = [resolver EXCEPT ![c].at = "status"]
            /\ UNCHANGED session
    /\ UNCHANGED <<approval, told, task, pause, run, exec, crashes, refusals>>

Notify(c) ==
    LET a == resolver[c].of IN
    /\ resolver[c].at = "written"
    /\ IF WaitsFor(a[1], a)
       THEN /\ session' = [session EXCEPT ![a[1]] = "woken"]
            /\ resolver' = [resolver EXCEPT ![c] = Idle]
       ELSE /\ resolver' = [resolver EXCEPT ![c].at = "status"]
            /\ UNCHANGED session
    /\ UNCHANGED <<approval, told, task, pause, run, exec, crashes, refusals>>

Paused == run = "approval_required"

ReadRunStatus(c) ==
    /\ resolver[c].at = "status"
    /\ resolver' = [resolver EXCEPT ![c] =
                      IF Paused THEN [Idle EXCEPT !.at = "resume"] ELSE Idle]
    /\ UNCHANGED <<approval, session, told, task, pause, run, exec, crashes, refusals>>

\* A user resumes the run whatever the approvals say.
AskResume(c) ==
    /\ resolver[c].at = "idle"
    /\ run \in Resumable
    /\ resolver' = [resolver EXCEPT ![c] = [Idle EXCEPT !.at = "resume"]]
    /\ UNCHANGED <<approval, session, told, task, pause, run, exec, crashes, refusals>>

\* (mutant of Resume) A paused run is not resumable.
ResumeUnlessPaused(c) ==
    /\ resolver[c].at = "resume"
    /\ resolver' = [resolver EXCEPT ![c] = Idle]
    /\ IF exec = "none" /\ run \notin {"running", "completed", "approval_required"}
       THEN run' = "queued" /\ exec' = "queued"
       ELSE UNCHANGED <<run, exec>>
    /\ UNCHANGED <<approval, session, told, task, pause, crashes, refusals>>

\* enqueue inserts a job unless the run has one or its status forbids it.
Resume(c) ==
    /\ resolver[c].at = "resume"
    /\ resolver' = [resolver EXCEPT ![c] = Idle]
    /\ IF exec = "none" /\ run \notin {"running", "completed"}
       THEN run' = "queued" /\ exec' = "queued"
       ELSE UNCHANGED <<run, exec>>
    /\ UNCHANGED <<approval, session, told, task, pause, crashes, refusals>>

\* The handler ends with an error: the event of its decision cannot be stored, or
\* enqueue refuses because the queue is at its limit, whatever jobs of other runs
\* fill it, or submit does because the service is shutting down.
Refused(c) ==
    /\ resolver[c].at \in {"written", "resume"}
    /\ refusals < MaxRefusals /\ refusals' = refusals + 1
    /\ resolver' = [resolver EXCEPT ![c] = Idle]
    /\ UNCHANGED <<approval, session, told, task, pause, run, exec, crashes>>

\* A paused run is cancelled; a stopped process interrupts what it was executing.
CancelPaused ==
    /\ exec = "none" /\ Paused
    /\ run' = "interrupted"
    /\ UNCHANGED <<approval, session, told, task, pause, exec, resolver, crashes, refusals>>

Crash ==
    /\ crashes < MaxCrashes
    /\ crashes' = crashes + 1
    /\ session' = [t \in Tasks |-> "none"]
    /\ resolver' = [c \in Resolvers |-> Idle]
    /\ exec' = IF exec = "queued" THEN "queued" ELSE "none"
    /\ run' = IF run = "running" \/ (run = "queued" /\ exec # "queued")
              THEN "interrupted" ELSE run
    /\ UNCHANGED <<approval, told, task, pause, refusals>>

\* Nothing happens to a completed run.
Completed == run = "completed" /\ exec = "none" /\ UNCHANGED vars

-----------------------------------------------------------------------------
SessionStep(t) ==
    \/ StartTask(t) \/ Request(t) \/ Register(t) \/ TimeOut(t) \/ Answer(t)
    \/ Finish(t) \/ PauseTask(t)

ExecutionStep ==
    \/ IdleReturn \/ StorePaused \/ StoreEnded \/ Close
    \/ Begin \/ PrepareResume \/ PrepareRefused

ResolverStep(c) ==
    WriteDecision(c) \/ Notify(c) \/ ReadRunStatus(c) \/ Resume(c) \/ Refused(c)

UserRequest(c) == AskResume(c) \/ \E a \in Approvals : ReadApproval(c, a)

Next ==
    \/ \E t \in Tasks : SessionStep(t)
    \/ ExecutionStep \/ Stop \/ CancelPaused \/ Crash \/ Completed
    \/ \E c \in Resolvers : UserRequest(c) \/ ResolverStep(c)

Spec == Init /\ [][Next]_vars

-----------------------------------------------------------------------------
(* Properties. *)

\* A session that is woken reads a decision, and what it was told stays decided:
\* the row is written before the waiter is set, and no later request makes the
\* approval undecided again.
AnswersAreDecisions ==
    /\ \A t \in Tasks : session[t] = "woken" => approval[Latest(t)] \in Decisions
    /\ \A a \in Approvals : told[a] # "none" => approval[a] \in Decisions

\* A run that is at rest and waits for approval has a task that does: the pause of
\* an earlier execution is not carried over to the one that a decision resumed.
PausedForATask ==
    exec = "none" /\ Paused => \E t \in Tasks : task[t] = "approval_required"

\* However a run is resumed (by a decision, by its user, after a crash), a task that
\* paused goes on only when none of its approvals is undecided.
PausedTaskAwaitsDecision ==
    [][\A t \in Tasks : task[t] = "approval_required" /\ task'[t] # "approval_required"
                          => Pending(t) = {}]_vars

\* A handler that has written a decision does not leave a run behind that is at
\* rest and paused: it hands the decision to a session, finds the run in another
\* state, or resumes it.  The exceptions are a crash and a handler that ends with an
\* error: its event was not stored, the queue was full, or the service shutting down.
DecisionResumes ==
    [][\A c \in Resolvers :
         resolver[c].at \in {"written", "status", "resume"} /\ resolver'[c] = Idle
             => \/ session' # session
                \/ ~(exec = "none" /\ Paused)'
                \/ crashes' # crashes \/ refusals' # refusals]_vars

\* A paused run waits for somebody: when nobody is about to resume it, an approval
\* of one of its paused tasks is undecided (or expired).
PausedMeansUndecided ==
    exec = "none" /\ Paused /\ (\A c \in Resolvers : resolver[c] = Idle)
        => \E t \in Tasks : /\ task[t] = "approval_required"
                            /\ \E a \in Asked(t) : approval[a] \in {"pending", "expired"}
=============================================================================
