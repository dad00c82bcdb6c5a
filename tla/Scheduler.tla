------------------------------ MODULE Scheduler ------------------------------
(***************************************************************************)
(* The task scheduler of one run: runtime/scheduler.py.                    *)
(*                                                                         *)
(* The scheduler is one coroutine.  Each pass of its main loop promotes    *)
(* and starts tasks of a DAG, then waits for agent sessions, which are     *)
(* coroutines of their own, and handles their outcomes one at a time.  A   *)
(* step of the loop ends where it awaits a write or a query.               *)
(* Reviewer tasks judge the artifacts of the tasks they depend on; a       *)
(* failing verdict sends the target back for another revision.  The Master *)
(* may intervene after a failed task and when the DAG has run out of work. *)
(* Between two steps of the loop the sessions publish artifacts, record    *)
(* verdicts, ask their peers and end, the user cancels and time runs out.  *)
(***************************************************************************)
EXTENDS Naturals, FiniteSets, Sequences

CONSTANTS
    Tasks,              \* ids of the planned tasks and of those the Master may add
    Planned,            \* the tasks of the accepted plan
    Reviewers,          \* the tasks owned by an agent of role reviewer
    DependsOn,          \* TaskSpec.depends_on: a sequence of task ids for each task
    PlanOrder,          \* the place at which rt.tasks lists a task
    MasterIntervenes,   \* an enabled Master, and not the document workflow
    RequireReview,      \* document workflow, or team mode with require_independent_review
    MaxActiveWorkers,   \* limits.max_active_workers
    MaxRevisionRounds,  \* limits.max_revision_rounds
    MaxReplans,         \* limits.max_replans
    SessionOutcomes,    \* bound: the ways of ending a task session that are explored
    MaxRevisions,       \* bound: how many revisions a task publishes
    MaxQuestions        \* bound: how many questions open a reply session

Deps(t) == {DependsOn[t][i] : i \in DOMAIN DependsOn[t]}

ASSUME TasksAssumption ==
    /\ IsFiniteSet(Tasks)
    /\ Planned \subseteq Tasks
    /\ Reviewers \subseteq Tasks
    /\ DependsOn \in [Tasks -> Seq(Tasks)]
    /\ PlanOrder \in [Tasks -> Nat \ {0}]
    /\ \A t, u \in Tasks : PlanOrder[t] = PlanOrder[u] => t = u
    \* validate_plan and add_task: a reviewer task depends on what it reviews
    /\ \A r \in Reviewers : Deps(r) # {} /\ Deps(r) \cap Reviewers = {}
    /\ \A t \in Planned : Deps(t) \subseteq Planned

ASSUME LimitsAssumption ==
    /\ SessionOutcomes \subseteq {"finished", "blocked", "failed", "fatal", "misconfigured",
                              "crashed", "approval_pending", "cancelled"}
    /\ MasterIntervenes \in BOOLEAN
    /\ RequireReview \in BOOLEAN
    /\ MaxActiveWorkers \in Nat \ {0}
    /\ MaxRevisionRounds \in Nat
    /\ MaxReplans \in Nat
    /\ MaxRevisions \in Nat \ {0}
    /\ MaxQuestions \in Nat

VARIABLES
    status,     \* TaskState.status, "absent" before the Master adds the task
    review,     \* TaskState.review: the last verdict applied to the task
    rev,        \* the latest revision of the task's artifact set, 0 when none
    session,    \* _running: no entry, a live session, or a finished future
    outcome,    \* the result of the finished future
    verdicts,   \* SessionContext.reviews of the task's session, per target
    informed,   \* tasks whose session was given the review feedback
    orphans,    \* sessions whose entry in _running was overwritten
    rounds,     \* PolicyEngine.revision_rounds
    feedback,   \* _feedback: tasks with findings their next session is told
    pc,         \* where the main loop is
    cursor,     \* the place in rt.tasks of the task the loop works on, 0 for none
    active,     \* the local count of sessions while tasks are started
    look,       \* the target whose latest artifacts _apply_review looked up, and what it found
    batch,      \* finished futures of this wakeup still to handle
    handled,    \* _exception_handled
    replans,    \* _replans
    added,      \* tasks added in the current milestone session
    paused,     \* _pause_for_approval
    fatal,      \* _fatal
    cancelled,  \* PolicyEngine.cancel_event
    timedOut,   \* remaining_seconds() <= 0
    replies,    \* the size of _replies
    questions,  \* questions asked so far
    result      \* what run() returned

sessionVars == <<session, outcome, verdicts, informed>>
taskVars    == <<status, review, rounds, feedback>>
flagVars    == <<paused, fatal>>
loopVars    == <<cursor, active, look>>
masterVars  == <<handled, replans, added>>
replyVars   == <<replies, questions>>
envVars     == <<cancelled, timedOut>>
vars == <<status, review, rev, session, outcome, verdicts, informed, orphans,
          rounds, feedback, pc, cursor, active, look, batch, handled, replans, added,
          paused, fatal, cancelled, timedOut, replies, questions, result>>

-----------------------------------------------------------------------------
(* Types                                                                   *)

Statuses == {"absent", "queued", "ready", "running", "review_pending", "accepted",
             "blocked", "approval_required", "interrupted", "failed",
             "cancelled", "partial"}
TerminalTaskStates == {"accepted", "failed", "cancelled", "partial"}
DoneForDependents == {"accepted", "partial", "review_pending"}

Outcomes == SessionOutcomes \cup {"none"}
Verdicts == {"pass", "unverified", "fail"}

\* A Review binds a verdict to the artifact revision it was submitted for.
NoReview == [rev |-> 0, verdict |-> "none"]
Review == [rev : 0..MaxRevisions, verdict : Verdicts \cup {"none"}]
NoVerdicts == [t \in Tasks |-> NoReview]

RunStatuses == {"none", "cancelled", "interrupted", "approval_required",
                "completed", "partial", "failed"}

TypeOK ==
    /\ status \in [Tasks -> Statuses]
    /\ review \in [Tasks -> Review]
    /\ rev \in [Tasks -> 0..MaxRevisions]
    /\ session \in [Tasks -> {"none", "live", "done"}]
    /\ outcome \in [Tasks -> Outcomes]
    /\ verdicts \in [Tasks -> [Tasks -> Review]]
    /\ informed \subseteq Tasks
    /\ orphans \in [Tasks -> Nat]
    /\ rounds \in [Tasks -> 0..MaxRevisionRounds]
    /\ feedback \subseteq Tasks
    /\ pc \in {"top", "promote", "start", "launch", "idle", "wait", "handle", "review",
              "judge", "settle", "exception", "milestone", "returned"}
    /\ cursor \in Nat
    /\ active \in Nat
    /\ look \subseteq Tasks \X (0..MaxRevisions)
    /\ batch \subseteq Tasks
    /\ handled \subseteq Tasks
    /\ replans \in 0..MaxReplans
    /\ added \subseteq Tasks
    /\ paused \in BOOLEAN
    /\ fatal \in BOOLEAN
    /\ cancelled \in BOOLEAN
    /\ timedOut \in BOOLEAN
    /\ replies \in Nat
    /\ questions \in 0..MaxQuestions
    /\ result \in RunStatuses

-----------------------------------------------------------------------------
(* Helpers                                                                 *)

Running == {t \in Tasks : session[t] # "none"}
Exists(s) == {t \in Tasks : s[t] # "absent"}

\* Sessions that may ask a peer: tracked, lost by the scheduler, replies, and
\* the Master's after a failure (its milestone session has no send_message).
SomeSessionLive ==
    \/ \E t \in Tasks : session[t] = "live" \/ orphans[t] > 0
    \/ replies > 0
    \/ pc = "exception"

ReviewTasksFor(t) == {r \in Reviewers : t \in Deps(r)}

PendingReviewTasks(s, t) ==
    {r \in ReviewTasksFor(t) : s[r] \notin TerminalTaskStates \cup {"absent"}}

\* (mutant of DepOk) A review starts although its target is being revised.
DepOkWhileRevised(s, t, d) ==
    IF t \in Reviewers THEN s[d] \in {"review_pending", "accepted", "running"}
                       ELSE s[d] \in DoneForDependents

\* One dependency as _deps_state judges it: usable, or never going to be.
DepOk(s, t, d) ==
    IF t \in Reviewers THEN s[d] \in {"review_pending", "accepted"}
                       ELSE s[d] \in DoneForDependents

DepDead(s, t, d) ==
    \/ s[d] \in {"absent", "failed", "cancelled"}
    \/ t \in Reviewers /\ s[d] = "partial"

\* The first dependency that is not usable decides.
DepsDead(s, t) ==
    \E i \in DOMAIN DependsOn[t] :
        /\ DepDead(s, t, DependsOn[t][i])
        /\ \A j \in 1..(i - 1) : DepOk(s, t, DependsOn[t][j])

DepsReady(s, t) == \A d \in Deps(t) : DepOk(s, t, d)

\* A task whose review tasks have all ended, waiting for a verdict.
Abandoned(t) ==
    /\ status[t] = "review_pending"
    /\ review[t] = NoReview
    /\ PendingReviewTasks(status, t) = {}

AfterAbandoned == [t \in Tasks |-> IF Abandoned(t) THEN "partial" ELSE status[t]]

\* What the promotion loop changes: the other queued tasks wait.
Promotable(t) == status[t] = "queued" /\ (DepsDead(status, t) \/ DepsReady(status, t))

\* (mutant of Startable) The last worker is kept free.
StartableButOne(n) == {t \in Tasks : ~paused /\ status[t] = "ready" /\ n + 1 < MaxActiveWorkers}

\* (mutant of Startable) The workers are not counted.
StartableWithoutLimit(n) == {t \in Tasks : ~paused /\ status[t] = "ready"}

\* Ready tasks may be started while n sessions leave a worker free.
Startable(n) == {t \in Tasks : ~paused /\ status[t] = "ready" /\ n < MaxActiveWorkers}

\* The task of S the loop over rt.tasks comes to next.
Ahead(S) == {t \in S : PlanOrder[t] > cursor}
IsNext(t, S) == t \in Ahead(S) /\ \A u \in Ahead(S) : PlanOrder[t] <= PlanOrder[u]

FinalTasks(s) ==
    {t \in Exists(s) \ Reviewers :
        ~\E u \in Exists(s) \ Reviewers : t \in Deps(u)}

UnreviewedFinalTasks(s) ==
    IF RequireReview THEN {t \in FinalTasks(s) : review[t] = NoReview} ELSE {}

FinalStatus(s) ==
    IF Exists(s) # {} /\ \A t \in Exists(s) : s[t] = "accepted"
      THEN IF UnreviewedFinalTasks(s) = {} THEN "completed" ELSE "partial"
      ELSE IF \E t \in Exists(s) : s[t] \in {"accepted", "partial"}
             THEN "partial" ELSE "failed"

-----------------------------------------------------------------------------
Init ==
    /\ status = [t \in Tasks |-> IF t \in Planned THEN "queued" ELSE "absent"]
    /\ review = NoVerdicts
    /\ rev = [t \in Tasks |-> 0]
    /\ session = [t \in Tasks |-> "none"]
    /\ outcome = [t \in Tasks |-> "none"]
    /\ verdicts = [t \in Tasks |-> NoVerdicts]
    /\ informed = {}
    /\ orphans = [t \in Tasks |-> 0]
    /\ rounds = [t \in Tasks |-> 0]
    /\ feedback = {}
    /\ pc = "top"
    /\ cursor = 0 /\ active = 0 /\ look = {}
    /\ batch = {}
    /\ handled = {}
    /\ replans = 0
    /\ added = {}
    /\ paused = FALSE
    /\ fatal = FALSE
    /\ cancelled = FALSE
    /\ timedOut = FALSE
    /\ replies = 0
    /\ questions = 0
    /\ result = "none"

-----------------------------------------------------------------------------
(* The environment                                                         *)

Cancel ==
    /\ ~cancelled
    /\ pc # "returned"
    /\ cancelled' = TRUE
    /\ UNCHANGED <<taskVars, rev, sessionVars, orphans, pc, loopVars, batch, masterVars,
                   flagVars, timedOut, replyVars, result>>

TimeOut ==
    /\ ~timedOut
    /\ pc # "returned"
    /\ timedOut' = TRUE
    /\ UNCHANGED <<taskVars, rev, sessionVars, orphans, pc, loopVars, batch, masterVars,
                   flagVars, cancelled, replyVars, result>>

-----------------------------------------------------------------------------
(* Agent sessions                                                          *)

\* publish_artifact: only the producing task revises its artifacts.
Publish(t) ==
    /\ t \notin Reviewers
    /\ session[t] = "live" \/ orphans[t] > 0
    /\ rev[t] < MaxRevisions
    /\ rev' = [rev EXCEPT ![t] = @ + 1]
    /\ UNCHANGED <<taskVars, sessionVars, orphans, pc, loopVars, batch, masterVars,
                   flagVars, envVars, replyVars, result>>

\* submit_review: the verdict must cover the target's latest revision.  A later
\* verdict of the same session on the same target replaces it.
SubmitReview(r, t, v) ==
    /\ r \in Reviewers
    /\ t \in Deps(r)
    /\ session[r] = "live"
    /\ verdicts' = [verdicts EXCEPT ![r][t] = [rev |-> rev[t], verdict |-> v]]
    /\ UNCHANGED <<taskVars, rev, session, outcome, informed, orphans, pc, loopVars, batch,
                   masterVars, flagVars, envVars, replyVars, result>>

\* finish_task: a producer has published its outputs, a reviewer has judged
\* every target.
MayFinish(t) ==
    IF t \in Reviewers THEN \A d \in Deps(t) : verdicts[t][d] # NoReview
                       ELSE rev[t] > 0

EndSession(t, o) ==
    /\ session[t] = "live"
    /\ o = "finished" => MayFinish(t)
    /\ o = "cancelled" => cancelled
    /\ session' = [session EXCEPT ![t] = "done"]
    /\ outcome' = [outcome EXCEPT ![t] = o]
    /\ UNCHANGED <<taskVars, rev, verdicts, informed, orphans, pc, loopVars, batch,
                   masterVars, flagVars, envVars, replyVars, result>>

\* A session nobody waits for ends: its result is never read.
OrphanEnd(t) ==
    /\ orphans[t] > 0
    /\ orphans' = [orphans EXCEPT ![t] = @ - 1]
    /\ UNCHANGED <<taskVars, rev, sessionVars, pc, loopVars, batch, masterVars, flagVars,
                   envVars, replyVars, result>>

\* _on_message: a question to an idle agent opens a reply session.
SpawnReply ==
    /\ SomeSessionLive
    /\ ~cancelled
    /\ questions < MaxQuestions
    /\ questions' = questions + 1
    /\ replies' = replies + 1
    /\ UNCHANGED <<taskVars, rev, sessionVars, orphans, pc, loopVars, batch, masterVars,
                   flagVars, envVars, result>>

EndReply ==
    /\ replies > 0
    /\ replies' = replies - 1
    /\ UNCHANGED <<taskVars, rev, sessionVars, orphans, pc, loopVars, batch, masterVars,
                   flagVars, envVars, questions, result>>

-----------------------------------------------------------------------------
(* The main loop                                                           *)

Return(r) == pc' = "returned" /\ result' = r

\* The futures leave _running, and their contexts with them.
DropSession(S) ==
    /\ session' = [t \in Tasks |-> IF t \in S THEN "none" ELSE session[t]]
    /\ outcome' = [t \in Tasks |-> IF t \in S THEN "none" ELSE outcome[t]]
    /\ verdicts' = [t \in Tasks |-> IF t \in S THEN NoVerdicts ELSE verdicts[t]]
    /\ informed' = informed \ S

\* (mutant of AfterCancelAll) Futures that had finished are passed over.
AfterCancelAllLive ==
    [t \in Tasks |-> IF session[t] = "live" /\ status[t] = "running"
                     THEN "interrupted" ELSE status[t]]

\* _cancel_all: finished futures nobody handled are dropped with the live ones.
AfterCancelAll ==
    [t \in Tasks |-> IF t \in Running /\ status[t] = "running"
                     THEN "interrupted" ELSE status[t]]

CancelAll ==
    /\ status' = AfterCancelAll
    /\ DropSession(Tasks)
    /\ replies' = 0
    /\ UNCHANGED <<review, rev, orphans, rounds, feedback, loopVars, batch, masterVars,
                   flagVars, envVars, questions>>

StopCancelled ==
    /\ pc = "top" /\ cancelled
    /\ CancelAll /\ Return("cancelled")

StopTimedOut ==
    /\ pc = "top" /\ ~cancelled /\ timedOut
    /\ CancelAll /\ Return("interrupted")

\* (mutant of StopFatal) The run returns without stopping its sessions.
StopFatalWithoutCancel ==
    /\ pc = "top" /\ ~cancelled /\ ~timedOut /\ fatal
    /\ Return(FinalStatus(status))
    /\ UNCHANGED <<taskVars, rev, sessionVars, orphans, loopVars, batch, masterVars,
                   flagVars, envVars, replyVars>>

StopFatal ==
    /\ pc = "top" /\ ~cancelled /\ ~timedOut /\ fatal
    /\ CancelAll /\ Return(FinalStatus(AfterCancelAll))

\* A pass begins: what has lost its reviewers is partial.
Pass ==
    /\ pc = "top" /\ ~cancelled /\ ~timedOut /\ ~fatal
    /\ status' = AfterAbandoned
    /\ pc' = "promote"
    /\ UNCHANGED <<review, rounds, feedback, rev, sessionVars, orphans, loopVars, batch,
                   masterVars, flagVars, envVars, replyVars, result>>

\* The promotion loop takes the tasks in plan order; each sees what became of those
\* before it.
Promote(t) ==
    /\ pc = "promote"
    /\ IsNext(t, {u \in Tasks : Promotable(u)})
    /\ status' = [status EXCEPT ![t] = IF DepsDead(status, t) THEN "cancelled" ELSE "ready"]
    /\ cursor' = PlanOrder[t]
    /\ UNCHANGED <<review, rounds, feedback, rev, sessionVars, orphans, pc, active, look,
                   batch, masterVars, flagVars, envVars, replyVars, result>>

\* Where the loop goes when there is nothing (more) to start.
AfterStarts == IF Running = {} /\ replies = 0 THEN "idle" ELSE "wait"

\* The sessions are counted once, before the first task is started.
Promoted ==
    /\ pc = "promote"
    /\ Ahead({u \in Tasks : Promotable(u)}) = {}
    /\ cursor' = 0
    /\ IF Startable(Cardinality(Running) + replies) = {}
       THEN active' = 0 /\ pc' = AfterStarts
       ELSE active' = Cardinality(Running) + replies /\ pc' = "start"
    /\ UNCHANGED <<taskVars, rev, sessionVars, orphans, look, batch, masterVars, flagVars,
                   envVars, replyVars, result>>

\* _start shows the task running, and only then makes its session.
Start(t) ==
    /\ pc = "start"
    /\ IsNext(t, Startable(active))
    /\ status' = [status EXCEPT ![t] = "running"]
    /\ cursor' = PlanOrder[t]
    /\ pc' = "launch"
    /\ UNCHANGED <<review, rounds, feedback, rev, sessionVars, orphans, active, look, batch,
                   masterVars, flagVars, envVars, replyVars, result>>

Launching(t) == pc = "launch" /\ cursor = PlanOrder[t]

\* The session overwrites the entry of _running; one still in that entry is lost.
Launch(t) ==
    /\ Launching(t)
    /\ session' = [session EXCEPT ![t] = "live"]
    /\ orphans' = [orphans EXCEPT ![t] = IF session[t] = "live" THEN @ + 1 ELSE @]
    /\ outcome' = [outcome EXCEPT ![t] = "none"]
    /\ verdicts' = [verdicts EXCEPT ![t] = NoVerdicts]
    /\ informed' = (informed \ {t}) \cup ({t} \cap feedback)
    /\ feedback' = feedback \ {t}
    /\ active' = active + 1
    /\ pc' = "start"
    /\ UNCHANGED <<status, review, rounds, rev, cursor, look, batch, masterVars, flagVars,
                   envVars, replyVars, result>>

StartsEnd ==
    /\ pc = "start"
    /\ Ahead(Startable(active)) = {}
    /\ pc' = AfterStarts
    /\ cursor' = 0 /\ active' = 0
    /\ UNCHANGED <<taskVars, rev, sessionVars, orphans, look, batch, masterVars, flagVars,
                   envVars, replyVars, result>>

\* asyncio.wait returns every future that is done, none when it times out.
Wait ==
    /\ pc = "wait"
    /\ batch' = {t \in Tasks : session[t] = "done"}
    /\ pc' = IF batch' = {} THEN "top" ELSE "handle"
    /\ UNCHANGED <<taskVars, rev, sessionVars, orphans, loopVars, masterVars, flagVars,
                   envVars, replyVars, result>>

\* Nothing runs: pause for the human, extend the plan, or return.
AfterGiveUp ==
    [t \in Tasks |-> IF status[t] \in {"queued", "ready"} THEN "blocked" ELSE status[t]]

MayReplan ==
    /\ MasterIntervenes
    /\ replans < MaxReplans
    /\ ~cancelled
    /\ \E t \in Tasks : AfterGiveUp[t] \in {"accepted", "partial"}

IdlePaused ==
    /\ pc = "idle" /\ paused
    /\ Return("approval_required")
    /\ UNCHANGED <<taskVars, rev, sessionVars, orphans, loopVars, batch, masterVars,
                   flagVars, envVars, replyVars>>

\* Whether time, budget and model calls are left for a session is not modelled:
\* a milestone may always be skipped.
IdleReturn ==
    /\ pc = "idle" /\ ~paused
    /\ status' = AfterGiveUp
    /\ Return(FinalStatus(AfterGiveUp))
    /\ UNCHANGED <<review, rounds, feedback, rev, sessionVars, orphans, loopVars, batch,
                   masterVars, flagVars, envVars, replyVars>>

IdleReplan ==
    /\ pc = "idle" /\ ~paused
    /\ MayReplan
    /\ status' = AfterGiveUp
    /\ replans' = replans + 1
    /\ added' = {}
    /\ pc' = "milestone"
    /\ UNCHANGED <<review, rounds, feedback, rev, sessionVars, orphans, loopVars, batch,
                   handled, flagVars, envVars, replyVars, result>>

-----------------------------------------------------------------------------
(* Handling one finished future                                            *)

\* The futures leave _running, and their contexts with them.
Pop(t) ==
    /\ pc = "handle"
    /\ t \in batch
    /\ batch' = batch \ {t}
    /\ DropSession({t})
    /\ UNCHANGED <<rev, orphans, envVars, replyVars, result>>

GoOn == pc' = (IF batch' = {} THEN "top" ELSE "handle") /\ UNCHANGED loopVars

\* A producer's work is reviewed when a review task still waits for it.
HandleFinished(t) ==
    /\ Pop(t) /\ GoOn
    /\ outcome[t] = "finished"
    /\ t \notin Reviewers
    /\ status' = [status EXCEPT ![t] = IF PendingReviewTasks(status, t) # {}
                                       THEN "review_pending" ELSE "accepted"]
    /\ UNCHANGED <<review, rounds, feedback, masterVars, flagVars>>

\* _apply_review for each verdict of the session: it looks the artifacts up, waits for
\* the answer, and compares it with what was judged.
Judged(r) == {t \in Deps(r) : verdicts[r][t] # NoReview}

\* (mutant of Stale) The verdict is not compared with the latest artifacts.
NeverStale(r, t, n) == FALSE
Stale(r, t, n) == verdicts[r][t].rev # n
Failing(r, t, n) == ~Stale(r, t, n) /\ verdicts[r][t].verdict = "fail"
\* (mutant of Revise) Rounds are not counted against the limit.
ReviseWithoutLimit(r, t, n) == Failing(r, t, n)
Revise(r, t, n) == Failing(r, t, n) /\ rounds[t] < MaxRevisionRounds

TargetStatus(r, t, n) ==
    IF Revise(r, t, n) THEN "queued"
    ELSE IF ~Stale(r, t, n) /\ verdicts[r][t].verdict = "pass" THEN "accepted"
    ELSE "partial"

\* A review task whose verdicts are to be applied is accepted first.
HandleReview(r) ==
    /\ pc = "handle"
    /\ r \in batch /\ r \in Reviewers
    /\ outcome[r] = "finished"
    /\ batch' = batch \ {r}
    /\ session' = [session EXCEPT ![r] = "none"]
    /\ outcome' = [outcome EXCEPT ![r] = "none"]
    /\ informed' = informed \ {r}
    /\ status' = [status EXCEPT ![r] = "accepted"]
    /\ pc' = "review" /\ cursor' = PlanOrder[r]
    /\ UNCHANGED <<review, rounds, feedback, rev, verdicts, orphans, active, look,
                   masterVars, flagVars, envVars, replyVars, result>>

\* The review whose verdicts are being applied.
Applying(r) == pc \in {"review", "judge", "settle"} /\ cursor = PlanOrder[r]

\* The verdicts are applied in the order they were submitted.
Look(r, t) ==
    /\ pc = "review" /\ Applying(r)
    /\ t \in Judged(r)
    /\ look' = {<<t, rev[t]>>}
    /\ pc' = "judge"
    /\ UNCHANGED <<taskVars, rev, sessionVars, orphans, cursor, active, batch, masterVars,
                   flagVars, envVars, replyVars, result>>

\* After the last verdict the next future is handled.
NextVerdict(rest) ==
    IF rest # {} THEN pc' = "review" /\ cursor' = cursor
    ELSE pc' = (IF batch = {} THEN "top" ELSE "handle") /\ cursor' = 0

\* (mutant of Findings) The findings of exhausted or stale reviews are kept,
\* those of a requeued target are not.
NoFindings(r, t, n) == IF Revise(r, t, n) THEN {} ELSE {t}

\* _feedback: what the next session of a requeued target is told.
Findings(r, t, n) == IF Revise(r, t, n) THEN {t} ELSE {}

\* The verdict is applied to the target.
Judge(r, t, n) ==
    /\ pc = "judge" /\ Applying(r)
    /\ <<t, n>> \in look
    /\ status' = [status EXCEPT ![t] = TargetStatus(r, t, n)]
    /\ review' = [review EXCEPT ![t] = IF Stale(r, t, n) THEN NoReview ELSE verdicts[r][t]]
    /\ rounds' = [rounds EXCEPT ![t] = IF Revise(r, t, n) THEN @ + 1 ELSE @]
    /\ feedback' = feedback \cup Findings(r, t, n)
    /\ verdicts' = [verdicts EXCEPT ![r][t] = NoReview]
    /\ IF Stale(r, t, n) \/ Revise(r, t, n)
       THEN pc' = "settle" /\ UNCHANGED <<look, cursor>>
       ELSE look' = {} /\ NextVerdict(Judged(r) \ {t})
    /\ UNCHANGED <<rev, session, outcome, informed, orphans, active, batch, masterVars,
                   flagVars, envVars, replyVars, result>>

\* (mutant of Settle) A failing verdict does not requeue the review.
SettleNothing(r, t) ==
    /\ pc = "settle" /\ Applying(r)
    /\ t \in {x[1] : x \in look}
    /\ look' = {} /\ NextVerdict(Judged(r))
    /\ UNCHANGED <<taskVars, rev, sessionVars, orphans, active, batch, masterVars, flagVars,
                   envVars, replyVars, result>>

\* Then the review task shares its lot: requeued with it, or partial with it.
Settle(r, t) ==
    /\ pc = "settle" /\ Applying(r)
    /\ t \in {x[1] : x \in look}
    /\ status' = [status EXCEPT ![r] = status[t]]
    /\ look' = {} /\ NextVerdict(Judged(r))
    /\ UNCHANGED <<review, rounds, feedback, rev, sessionVars, orphans, active, batch,
                   masterVars, flagVars, envVars, replyVars, result>>

\* (mutant of HandleCancelled) The task is cancelled for good.
HandleCancelledForGood(t) ==
    /\ Pop(t) /\ GoOn
    /\ outcome[t] = "cancelled"
    /\ status' = [status EXCEPT ![t] = "cancelled"]
    /\ UNCHANGED <<review, rounds, feedback, masterVars, flagVars>>

\* A stop of the run must leave the task resumable.
HandleCancelled(t) ==
    /\ Pop(t) /\ GoOn
    /\ outcome[t] = "cancelled"
    /\ status' = [status EXCEPT ![t] = IF cancelled THEN "interrupted" ELSE "cancelled"]
    /\ UNCHANGED <<review, rounds, feedback, masterVars, flagVars>>

HandleApproval(t) ==
    /\ Pop(t) /\ GoOn
    /\ outcome[t] = "approval_pending"
    /\ status' = [status EXCEPT ![t] = "approval_required"]
    /\ paused' = TRUE
    /\ UNCHANGED <<review, rounds, feedback, masterVars, fatal>>

\* A limit, a provider credential or the communication configuration ends the run.
HandleFatal(t) ==
    /\ Pop(t) /\ GoOn
    /\ outcome[t] \in {"fatal", "misconfigured"}
    /\ status' = [status EXCEPT ![t] = IF outcome[t] = "fatal" THEN "failed" ELSE "blocked"]
    /\ fatal' = TRUE
    /\ UNCHANGED <<review, rounds, feedback, masterVars, paused>>

\* An exception out of the session itself: the Master is not asked.
HandleCrashed(t) ==
    /\ Pop(t) /\ GoOn
    /\ outcome[t] = "crashed"
    /\ status' = [status EXCEPT ![t] = "failed"]
    /\ UNCHANGED <<review, rounds, feedback, masterVars, flagVars>>

\* (mutant of HandleFailed) Every failure goes to the Master.
HandleFailedAlways(t) ==
    /\ Pop(t)
    /\ outcome[t] \in {"blocked", "failed"}
    /\ status' = [status EXCEPT ![t] = outcome[t]]
    /\ IF cancelled \/ ~MasterIntervenes
       THEN GoOn /\ UNCHANGED handled
       ELSE pc' = "exception" /\ handled' = handled \cup {t} /\ UNCHANGED loopVars
    /\ UNCHANGED <<review, rounds, feedback, replans, added, flagVars>>

\* The first failure of a task goes to the Master, in a session the loop awaits.
HandleFailed(t) ==
    /\ Pop(t)
    /\ outcome[t] \in {"blocked", "failed"}
    /\ status' = [status EXCEPT ![t] = outcome[t]]
    /\ IF t \in handled \/ cancelled \/ ~MasterIntervenes
       THEN GoOn /\ UNCHANGED handled
       ELSE pc' = "exception" /\ handled' = handled \cup {t} /\ UNCHANGED loopVars
    /\ UNCHANGED <<review, rounds, feedback, replans, added, flagVars>>

-----------------------------------------------------------------------------
(* The Master's sessions                                                   *)

MasterAwaited == pc \in {"exception", "milestone"}

\* decide: update_task on any task that is not running.
Decide(t, action) ==
    /\ MasterAwaited
    /\ status[t] \notin {"absent", "running"}
    /\ action = "queued" => status[t] # "accepted"
    /\ status' = [status EXCEPT ![t] = action]
    /\ UNCHANGED <<review, rounds, feedback, rev, sessionVars, orphans, pc, loopVars, batch,
                   masterVars, flagVars, envVars, replyVars, result>>

\* add_task: the dependencies of a new task must exist.
AddTask(t) ==
    /\ MasterAwaited
    /\ status[t] = "absent"
    /\ \A d \in Deps(t) : status[d] # "absent"
    /\ status' = [status EXCEPT ![t] = "queued"]
    /\ added' = IF pc = "milestone" THEN added \cup {t} ELSE added
    /\ UNCHANGED <<review, rounds, feedback, rev, sessionVars, orphans, pc, loopVars, batch,
                   handled, replans, flagVars, envVars, replyVars, result>>

ExceptionEnd ==
    /\ pc = "exception"
    /\ pc' = IF batch = {} THEN "top" ELSE "handle"
    /\ UNCHANGED <<taskVars, rev, sessionVars, orphans, loopVars, batch, masterVars,
                   flagVars, envVars, replyVars, result>>

\* Only tasks the Master added keep the run going.
MilestoneEnd ==
    /\ pc = "milestone"
    /\ IF added # {} THEN pc' = "top" /\ UNCHANGED result
                     ELSE Return(FinalStatus(status))
    /\ added' = {}
    /\ UNCHANGED <<taskVars, rev, sessionVars, orphans, loopVars, batch, handled, replans,
                   flagVars, envVars, replyVars>>

\* A replan that raises is not allowed to crash the run: it ends it.
MilestoneRaised ==
    /\ pc = "milestone"
    /\ Return(FinalStatus(status))
    /\ added' = {}
    /\ UNCHANGED <<taskVars, rev, sessionVars, orphans, loopVars, batch, handled, replans,
                   flagVars, envVars, replyVars>>

-----------------------------------------------------------------------------
MasterActions == {"queued", "partial", "cancelled"}  \* retry, accept_partial, cancel

Handle(t) ==
    \/ HandleFinished(t)
    \/ HandleReview(t)
    \/ HandleCancelled(t)
    \/ HandleApproval(t)
    \/ HandleFatal(t)
    \/ HandleCrashed(t)
    \/ HandleFailed(t)

Loop ==
    \/ StopCancelled \/ StopTimedOut \/ StopFatal
    \/ Pass \/ Promoted \/ StartsEnd
    \/ \E t \in Tasks : Promote(t) \/ Start(t) \/ Launch(t)
    \/ Wait
    \/ IdlePaused \/ IdleReturn \/ IdleReplan
    \/ \E t \in Tasks : Handle(t)
    \/ \E r \in Reviewers, t \in Tasks : Look(r, t) \/ Settle(r, t)
    \/ \E r \in Reviewers, t \in Tasks, n \in 0..MaxRevisions : Judge(r, t, n)

MasterEnd == ExceptionEnd \/ MilestoneEnd \/ MilestoneRaised

SessionEnds(t) == \E o \in SessionOutcomes : EndSession(t, o)

Returned == pc = "returned" /\ UNCHANGED vars

Next ==
    \/ Cancel \/ TimeOut
    \/ \E t \in Tasks : Publish(t)
    \/ \E r, t \in Tasks, v \in Verdicts : SubmitReview(r, t, v)
    \/ \E t \in Tasks : SessionEnds(t)
    \/ \E t \in Tasks : OrphanEnd(t)
    \/ SpawnReply \/ EndReply
    \/ Loop
    \/ \E t \in Tasks, a \in MasterActions : Decide(t, a)
    \/ \E t \in Tasks : AddTask(t)
    \/ MasterEnd
    \/ Returned

Spec == Init /\ [][Next]_vars

\* Every session ends: turns, calls and waits are bounded by the run's limits.
\* The loop is a coroutine that is always scheduled again.
Fairness ==
    /\ WF_vars(Loop)
    /\ WF_vars(MasterEnd)
    /\ \A t \in Tasks : WF_vars(SessionEnds(t))
    /\ WF_vars(EndReply)

FairSpec == Spec /\ Fairness
-----------------------------------------------------------------------------
(* Properties of every run                                                 *)

\* No task says it is running without a session the loop waits for, but for the one
\* _start is about to make: _start, _handle and _cancel_all keep the saved status and
\* _running in step, whatever verdicts and the Master do to the status meanwhile.
RunningHasSession ==
    \A t \in Tasks : status[t] = "running" => t \in Running \/ Launching(t)

\* limits.max_active_workers bounds the sessions the loop waits for; replies may
\* come on top of them.
WorkerLimit == Cardinality(Running) <= MaxActiveWorkers

\* When run() has returned nothing it waits for is left behind: no entry of
\* _running, no task still shown as running.
ReturnLeavesNothingRunning ==
    pc = "returned" =>
        /\ Running = {}
        /\ \A t \in Tasks : status[t] # "running"

\* Whichever of the worker, the loop and _cancel_all sees a stop first, the run stays
\* resumable: no task is cancelled for good unless the Master does it or a dependency
\* of the task is gone, and after the pass the stop has overtaken no other begins.
StopKeepsTasksResumable ==
    [][cancelled =>
        /\ \A t \in Tasks : status'[t] = "cancelled" /\ status[t] # "cancelled"
                               => MasterAwaited \/ DepsDead(status, t)
        /\ pc' = "promote" => pc = "promote"]_vars

\* What the loop gives up because its "dependencies can never be satisfied" has one
\* that ended without being done: the order in which a pass promotes, starts and counts
\* leaves no task behind that could have been run.
GivenUpCannotRun ==
    [][\A t \in Tasks : pc = "idle" /\ status'[t] # status[t] =>
        \E d \in Deps(t) :
            ~DepOk(status', t, d) /\ status'[d] \notin {"queued", "ready", "running"}]_vars

\* Reviews, retries, replans and questions are all bounded: the run returns,
\* with no help from the wall clock.
Termination == <>(pc = "returned")

-----------------------------------------------------------------------------
(* Properties of the review loop                                           *)

\* The artifacts a reviewer is reading do not move: no target of a live review
\* session has a session of its own.
TargetsHoldStill ==
    \A r \in Reviewers : session[r] = "live" =>
        \A t \in Deps(r) : session[t] = "none" /\ orphans[t] = 0

\* A task never has two sessions at once.
OneSessionPerTask == \A t \in Tasks : orphans[t] = 0

\* A session that revises work with a failing verdict was told the findings.
RevisionIsInformed ==
    \A t \in Tasks : session[t] # "none" /\ review[t].verdict = "fail" => t \in informed

\* A run reported completed delivers only what passed: the verdict on each task
\* that has a review task is a pass, on its latest revision.
CompletedIsReviewed ==
    result = "completed" =>
        \A t \in Tasks : ReviewTasksFor(t) \cap Exists(status) # {} =>
            review[t] = [rev |-> rev[t], verdict |-> "pass"]

\* A verdict is applied only to the revision it was submitted for, although the
\* comparison uses an answer that was waited for.
VerdictCoversCurrentRevision ==
    [][\A t \in Tasks : review'[t] # review[t] /\ review'[t] # NoReview
                          => review'[t].rev = rev[t]]_vars

\* A task waiting for review whose review tasks all ended is partial, not stuck.
NotStuckInReview ==
    result \in {"completed", "partial", "failed"} /\ ~fatal =>
        \A t \in Tasks : status[t] = "review_pending"
                           => PendingReviewTasks(status, t) # {}
-----------------------------------------------------------------------------
(* The inductive invariants behind the properties above                    *)

\* The tasks a pass has left queued cannot run, and a pass that starts tasks leaves the
\* loop something to wait for.
PassInv ==
    /\ pc \notin {"promote", "start", "launch", "review", "judge", "settle"} => cursor = 0
    /\ \A t \in Tasks : status[t] = "queued" =>
          /\ pc = "promote" /\ PlanOrder[t] <= cursor => ~DepsReady(status, t)
          /\ pc \in {"start", "launch", "idle"} => ~DepsReady(status, t)
    /\ pc = "start" => Running # {} \/ Ahead(Startable(active)) # {}
    /\ pc = "idle" /\ ~paused => \A t \in Tasks : status[t] # "ready"

\* One target at a time is looked up, judged and settled.
LookInv ==
    /\ look # {} => pc \in {"judge", "settle"}
    /\ \A x, y \in look : x = y
    /\ pc = "settle" => \A x \in look : status[x[1]] \in {"queued", "partial"}

\* Every run: what is running has an entry, and no entry outlives the loop.
LoopInv ==
    /\ TypeOK
    /\ RunningHasSession
    /\ pc \in {"idle", "milestone", "returned"} => Running = {}
    /\ PassInv
    /\ LookInv

\* Runs in which the Master does not intervene and no task has two reviewers.
Unattended == ~MasterIntervenes
SingleReviewer == \A r, s \in Reviewers : Deps(r) \cap Deps(s) # {} => r = s

\* Who has a session, and where the loop is.
SessionInv ==
    /\ \A t \in Tasks : session[t] # "none" <=> status[t] = "running" /\ ~Launching(t)
    /\ \A t \in Tasks : outcome[t] # "none" => session[t] = "done"
    /\ \A t \in Tasks : orphans[t] = 0
    /\ \A t \in batch : session[t] = "done"
    /\ pc \notin {"exception", "milestone"}
    /\ batch # {} => pc \in {"handle", "review", "judge", "settle"}
    /\ pc # "returned" <=> result = "none"
    /\ \A t \in Tasks : Launching(t) => status[t] = "running"
    /\ \A r \in Reviewers : Applying(r) => status[r] \notin {"ready", "running"}

\* From the moment a review task is ready until its verdicts are applied, its
\* targets wait for it or are accepted already, and a verdict stays current.
ReviewInProgress ==
    /\ \A r \in Reviewers, t \in Tasks : t \in Deps(r) /\ status[r] \in {"ready", "running"} =>
          /\ status[t] \in {"review_pending", "accepted"}
          /\ outcome[r] = "finished" => t \in Judged(r)
    /\ \A r, t \in Tasks : verdicts[r][t] # NoReview =>
          /\ r \in Reviewers /\ t \in Deps(r) /\ (session[r] # "none" \/ Applying(r))
          /\ verdicts[r][t].rev = rev[t]
          /\ status[t] \in {"review_pending", "accepted"}

\* What was looked up is still so when the answer is used, and is used for its target.
LookedUp ==
    \A r \in Reviewers, x \in look : Applying(r) =>
        /\ x[1] \in Deps(r)
        /\ IF pc = "judge" THEN x[1] \in Judged(r) /\ x[2] = rev[x[1]]
                           ELSE x[1] \notin Judged(r)

\* An accepted review task has settled its targets, or is about to.
ReviewConcluded ==
    \A r \in Reviewers : status[r] = "accepted" =>
        \A t \in Deps(r) :
            \/ status[t] = "partial"
            \/ status[t] = "accepted" /\ review[t] = [rev |-> rev[t], verdict |-> "pass"]
            \/ Applying(r) /\ (t \in Judged(r) \/ \E x \in look : x[1] = t)

\* A run reported completed has no task that is not accepted.
CompletedIsAccepted ==
    result = "completed" => \A t \in Exists(status) : status[t] = "accepted"

\* The findings of a failing verdict wait in _feedback until the task they send
\* back starts again; a review task is not judged itself.
FindingsWait ==
    \A t \in Tasks :
        /\ t \in Reviewers => review[t] = NoReview
        /\ review[t].verdict = "fail" /\ (status[t] \in {"queued", "ready"} \/ Launching(t))
             => t \in feedback

ReviewLoopInv ==
    /\ LoopInv
    /\ SessionInv
    /\ ReviewInProgress
    /\ LookedUp
    /\ ReviewConcluded
    /\ CompletedIsAccepted
    /\ FindingsWait
=============================================================================
