------------------------------ MODULE Messages ------------------------------
(***************************************************************************)
(* Messages between the agents of one run: every delivery is charged to a  *)
(* task, whose limit has to last for the handoffs its sessions owe, for    *)
(* the revisions to come and for the answers to questions.  Sessions send  *)
(* while others publish, review, finish and are asked; send_message takes  *)
(* peer_message_lock, lists the deliveries of the task and admits or       *)
(* refuses.                                                                *)
(*                                                                         *)
(* The run is an adaptive one: its plan passed communication_budget_errors *)
(* and its snapshot carries communication_budget_version 1.  Scheduling is *)
(* reduced to when sessions start and end; Scheduler has the rest.         *)
(* Purposes: "handoff" stands for handoff, finding and decision, "other"   *)
(* for what is neither owed nor answered.                                  *)
(***************************************************************************)
EXTENDS Integers, FiniteSets

CONSTANTS
    Tasks,              \* the tasks of the plan
    Agents,             \* the enabled agents
    Owner,              \* the agent that owns a task
    DependsOn,          \* the set of tasks a task depends on
    ReviewerAgents,     \* the agents whose role is reviewer
    Master,             \* the coordinator, who owns no task
    MaxPeerMessages,    \* limits.max_peer_messages_per_task
    MaxRevisionRounds,  \* limits.max_revision_rounds
    Discussed,          \* (bound) the tasks that messages are about
    MaxQuestions,       \* (bound) questions asked in the whole run
    MaxResumes,         \* (bound) resumes of the run
    MaxRetryResumes     \* (bound) resumes after which tasks are still retried

IsReviewer(t) == Owner[t] \in ReviewerAgents
Producers(t) == {d \in DependsOn[t] : ~IsReviewer(d)}
Dependents(t) == {u \in Tasks : t \in DependsOn[u]}
Reviewed(t) == \E r \in Dependents(t) : IsReviewer(r)
OwnersOf(S) == {Owner[t] : t \in S}

\* Whom a session of the task owes a handoff.
Targets(t) ==
    LET peers == IF IsReviewer(t) \/ Dependents(t) = {}
                   THEN DependsOn[t] ELSE Dependents(t)
    IN OwnersOf(peers) \ {Owner[t]}

CoordinationTargets == OwnersOf(Tasks) \ {Master}

\* Sessions a task may still have after the next one, by planned rounds.
PlannedRounds(t) ==
    IF IsReviewer(t) THEN MaxRevisionRounds * Cardinality(Producers(t))
    ELSE IF Reviewed(t) THEN MaxRevisionRounds ELSE 0

\* The plan was admitted by communication_budget_errors.
ASSUME BudgetAssumption ==
    \A t \in Tasks :
        1 + Cardinality(Targets(t)) * (1 + PlannedRounds(t)) <= MaxPeerMessages

ASSUME PlanAssumption ==
    /\ IsFiniteSet(Tasks) /\ IsFiniteSet(Agents) /\ Discussed \subseteq Tasks
    /\ Owner \in [Tasks -> Agents \ {Master}]
    /\ DependsOn \in [Tasks -> SUBSET Tasks]
    /\ \A t \in Tasks : IsReviewer(t) => DependsOn[t] # {} /\ DependsOn[t] = Producers(t)

ASSUME LimitsAssumption ==
    {MaxPeerMessages, MaxRevisionRounds, MaxQuestions, MaxResumes,
     MaxRetryResumes} \subseteq Nat

Questions == 1..MaxQuestions
Purposes == {"handoff", "question", "answer", "other"}
Statuses == {"queued", "running", "review_pending", "accepted", "partial", "failed",
             "blocked"}
NoQuestion == [state |-> "none"]

\* Who sends: the session of a task, a reply session, the coordinator.
Senders ==
    [kind : {"task"}, task : Tasks] \cup [kind : {"reply"}, to : Questions]
      \cup {[kind |-> "coordination"]}

VARIABLES
    phase,      \* "coordination", "working", "stopped": where _execute is
    reserves,   \* config_snapshot.communication_budget_version = 1
    resumes,
    status,     \* TaskState.status
    rounds,     \* PolicyEngine.revision_rounds
    counted,    \* PolicyEngine.peer_messages, which equals the stored messages
    told,       \* ctx.communicated_to of the task's session
    reviewed,   \* the targets in ctx.reviews of the task's session
    sending,    \* calls of send_message that have taken the lock
    question,   \* the questions asked, and whether a matching answer was sent
    replying,   \* the questions that have a reply session
    dispatched, \* the owners that have a stored handoff of the coordinator
    resent      \* (history) tasks that may deliver a handoff a second time over

taskVars == <<status, rounds, told, reviewed, resent>>
runVars == <<phase, reserves, resumes>>
mailVars == <<counted, question, replying, dispatched>>
vars == <<taskVars, runVars, mailVars, sending>>

Init ==
    /\ phase = "coordination"
    /\ reserves = TRUE
    /\ resumes = 0
    /\ status = [t \in Tasks |-> "queued"]
    /\ rounds = [t \in Tasks |-> 0]
    /\ counted = [t \in Tasks |-> 0]
    /\ told = [t \in Tasks |-> {}]
    /\ reviewed = [t \in Tasks |-> {}]
    /\ sending = {}
    /\ question = [q \in Questions |-> NoQuestion]
    /\ replying = {}
    /\ dispatched = {}
    /\ resent = {}

-----------------------------------------------------------------------------
(* What a task still owes                                                  *)

Remaining(t) == MaxPeerMessages - counted[t]
RoundsLeft(t) == MaxRevisionRounds - rounds[t]

\* The revisions a reviewer may still ask for; as many as the sum of RoundsLeft
\* over its producers.
RevisionsLeft(t) == {r \in Producers(t) \X (1..MaxRevisionRounds) : r[2] > rounds[r[1]]}

\* Deliveries owed by sessions after the present one.
FutureReserve(t) ==
    Cardinality(Targets(t)) *
      (IF IsReviewer(t) THEN Cardinality(RevisionsLeft(t))
       ELSE IF Reviewed(t) THEN RoundsLeft(t) ELSE 0)

PendingQuestions(t) ==
    {q \in Questions : question[q].state = "pending" /\ question[q].task = t}

PendingReviews(t) == IF IsReviewer(t) THEN Producers(t) \ reviewed[t] ELSE {}

\* Recipients the session of a task has not told yet.  Those of a review that
\* is not submitted count again: submitting it will take them off `told`.
Needed(t) == (Targets(t) \ told[t]) \cup OwnersOf(PendingReviews(t))

-----------------------------------------------------------------------------
(* send_message                                                            *)

From(by) ==
    CASE by.kind = "task" -> Owner[by.task]
      [] by.kind = "reply" -> question[by.to].to
      [] by.kind = "coordination" -> Master

Live(by) ==
    CASE by.kind = "task" -> phase = "working" /\ status[by.task] = "running"
      [] by.kind = "reply" -> by.to \in replying
      [] by.kind = "coordination" -> phase = "coordination"

OwnSession(x) == x.by.kind = "task" /\ x.by.task = x.task
Owed(x) == x.purpose = "handoff" /\ x.to \in Needed(x.task)

\* The answer a pending question holds a message for.
ReservedAnswer(x) ==
    /\ x.purpose = "answer"
    /\ x.re \in x.pending
    /\ question[x.re].to = From(x.by)
    /\ question[x.re].from = x.to

\* What the coordinator may send: one handoff to the owner of a task.
Dispatch(x) == x.purpose = "handoff" /\ x.to = Owner[x.task] /\ x.to \notin dispatched

\* (mutant of LockFree) Two calls of send_message at once.
NoLock == TRUE

\* peer_message_lock is free.
LockFree == sending = {}

\* Takes the lock, computes the reserve and lists the deliveries of the task.
BeginSend(by, to, t, purpose, re) ==
    LET x == [by |-> by, to |-> to, task |-> t, purpose |-> purpose, re |-> re,
              future |-> FutureReserve(t), pending |-> PendingQuestions(t)]
    IN
    /\ LockFree
    /\ Live(by)
    /\ to # From(by)
    /\ by.kind = "coordination" => Dispatch(x)
    /\ sending' = sending \cup {x}
    /\ UNCHANGED <<taskVars, runVars, mailVars>>

\* (mutant of HeldForAnswers) Answers are taken from what is left.
HeldForNoAnswer(x) == 0

\* (mutant of HeldForAnswers) The answer it sends is counted as pending too.
HeldForAllAnswers(x) == Cardinality(x.pending)
\* Messages held for the answers to pending questions, other than this one.
HeldForAnswers(x) == Cardinality(x.pending) - (IF ReservedAnswer(x) THEN 1 ELSE 0)

\* The check of communication_budget_version 1.
ReserveAllows(x) ==
    LET future == x.future + HeldForAnswers(x)
        needed == IF OwnSession(x) THEN Needed(x.task) ELSE Targets(x.task)
        slot == IF x.purpose = "question" THEN 1 ELSE 0
        required == ReservedAnswer(x) \/ (OwnSession(x) /\ Owed(x))
        unsubmitted == OwnSession(x) /\ PendingReviews(x.task) # {}
    IN /\ Remaining(x.task) > future
       /\ \/ Remaining(x.task) > future + Cardinality(needed) + slot
          \/ required /\ ~unsubmitted

\* Other tasks' sessions leave a reviewer its handoffs, in every version.
OthersAllow(x) ==
    \/ x.by.kind # "task"
    \/ OwnSession(x)
    \/ ~IsReviewer(x.task)
    \/ status[x.task] \in {"accepted", "failed", "blocked"}
    \/ Remaining(x.task) \notin 1..Cardinality(OwnersOf(Producers(x.task)))

\* A reviewer's own session keeps its last messages for what it owes.
ReviewerAllows(x) ==
    \/ ~(OwnSession(x) /\ IsReviewer(x.task))
    \/ Remaining(x.task) \notin 1..Cardinality(Needed(x.task))
    \/ PendingReviews(x.task) = {} /\ Owed(x)

\* (mutant of WithinLimit) A limit that is checked one message late.
WithinLimitLate(x) == counted[x.task] <= MaxPeerMessages
WithinLimit(x) == counted[x.task] < MaxPeerMessages

Admitted(x) ==
    /\ (reserves /\ x.by.kind # "coordination") => ReserveAllows(x)
    /\ OthersAllow(x)
    /\ ReviewerAllows(x)
    /\ WithinLimit(x)

Refuse(x) ==
    /\ x \in sending
    /\ ~Admitted(x)
    /\ sending' = sending \ {x}
    /\ UNCHANGED <<taskVars, runVars, mailVars>>

Answers(x, q) ==
    /\ x.purpose = "answer"
    /\ x.re = q
    /\ question[q].state = "pending"
    /\ question[q].task = x.task
    /\ question[q].to = From(x.by)
    /\ question[q].from = x.to

\* The next free place for a question.
NextQuestion == {q \in Questions : question[q].state = "none" /\
                                   \A p \in Questions : p < q => question[p].state # "none"}

Asked(x, q) ==
    [state |-> "pending", task |-> x.task, from |-> From(x.by), to |-> x.to]

HasSession(a) ==
    \/ \E t \in Tasks : Owner[t] = a /\ status[t] = "running"
    \/ \E q \in replying : question[q].to = a
    \/ a = Master /\ phase = "coordination"

\* The message is counted and stored; a question to an agent without a session
\* starts a reply session.  A session that is about to begin does not count yet,
\* so a reply may be started beside it.
Deliver(x) ==
    /\ x \in sending
    /\ Admitted(x)
    /\ x.purpose = "question" => NextQuestion # {}
    /\ sending' = sending \ {x}
    /\ counted' = [counted EXCEPT ![x.task] = @ + 1]
    /\ told' = IF OwnSession(x) /\ x.purpose = "handoff"
                 THEN [told EXCEPT ![x.task] = @ \cup {x.to}] ELSE told
    /\ dispatched' = IF x.by.kind = "coordination"
                       THEN dispatched \cup {x.to} ELSE dispatched
    /\ question' = [q \in Questions |->
                      IF x.purpose = "question" /\ q \in NextQuestion THEN Asked(x, q)
                      ELSE IF Answers(x, q) THEN [question[q] EXCEPT !.state = "answered"]
                      ELSE question[q]]
    /\ \E spawned \in IF HasSession(x.to) THEN BOOLEAN ELSE {TRUE} :
         replying' = IF x.purpose = "question" /\ spawned
                       THEN replying \cup NextQuestion ELSE replying
    /\ UNCHANGED <<status, rounds, reviewed, resent, runVars>>

Send ==
    \/ \E by \in Senders, to \in Agents, purpose \in Purposes :
       \E t \in IF by.kind = "coordination" THEN Tasks ELSE Discussed :
         \E re \in IF purpose = "answer"
                    THEN {q \in Questions : question[q] # NoQuestion} ELSE {0} :
           BeginSend(by, to, t, purpose, re)
    \/ \E x \in sending : Refuse(x) \/ Deliver(x)

-----------------------------------------------------------------------------
(* Sessions                                                                *)

\* A command-line session may have several calls under way; it does not end
\* while one of them is.
Calling(t) == \E x \in sending : x.by = [kind |-> "task", task |-> t]

\* The coordinator ends when every owner has a stored handoff, or fails.
EndCoordination ==
    /\ phase = "coordination"
    /\ sending = {}
    /\ CoordinationTargets \subseteq dispatched
    /\ phase' = "working"
    /\ UNCHANGED <<taskVars, reserves, resumes, mailVars, sending>>

DepReady(t, d) ==
    status[d] \in {"review_pending", "accepted"}
                    \cup (IF IsReviewer(t) THEN {} ELSE {"partial"})

\* A task whose handoffs no longer fit is blocked instead of started.
Start(t) ==
    /\ phase = "working"
    /\ status[t] = "queued"
    /\ \A d \in DependsOn[t] : DepReady(t, d)
    /\ status' = [status EXCEPT ![t] =
                    IF Targets(t) # {} /\ Remaining(t) < Cardinality(Targets(t))
                      THEN "blocked" ELSE "running"]
    /\ UNCHANGED <<rounds, told, reviewed, resent, runVars, mailVars, sending>>

InSession(t) == phase = "working" /\ status[t] = "running"

\* A publication takes back the handoffs made before it.
Publish(t) ==
    /\ InSession(t)
    /\ told[t] # {}
    /\ told' = [told EXCEPT ![t] = {}]
    /\ resent' = resent \cup {t}
    /\ UNCHANGED <<status, rounds, reviewed, runVars, mailVars, sending>>

\* A verdict takes back the handoff to the owner of its target.
SubmitReview(t, d) ==
    /\ InSession(t)
    /\ IsReviewer(t)
    /\ d \in DependsOn[t]
    /\ reviewed' = [reviewed EXCEPT ![t] = @ \cup {d}]
    /\ told' = [told EXCEPT ![t] = @ \ {Owner[d]}]
    /\ resent' = IF d \in reviewed[t] /\ Owner[d] \in told[t]
                   THEN resent \cup {t} ELSE resent
    /\ UNCHANGED <<status, rounds, runVars, mailVars, sending>>

\* Somebody is still to judge what it finishes.
AwaitsReview(t) ==
    \E r \in Dependents(t) : IsReviewer(r) /\ status[r] \notin {"accepted", "partial", "failed"}

MayFinish(t) == PendingReviews(t) = {} /\ Targets(t) \subseteq told[t]

Ended(t) ==
    /\ told' = [told EXCEPT ![t] = {}]
    /\ reviewed' = [reviewed EXCEPT ![t] = {}]

\* A producer finishes, with finish_task or because nothing is left to do.
FinishProducer(t) ==
    /\ InSession(t)
    /\ ~Calling(t)
    /\ ~IsReviewer(t)
    /\ MayFinish(t)
    /\ status' = [status EXCEPT ![t] = IF AwaitsReview(t) THEN "review_pending" ELSE "accepted"]
    /\ Ended(t)
    /\ UNCHANGED <<rounds, resent, runVars, mailVars, sending>>

\* A reviewer finishes and its verdicts are applied: `failing` targets are
\* revised as long as they have rounds left.
FinishReview(t, failing) ==
    LET revised == {d \in failing : RoundsLeft(d) > 0}
    IN
    /\ InSession(t)
    /\ ~Calling(t)
    /\ IsReviewer(t)
    /\ MayFinish(t)
    /\ rounds' = [d \in Tasks |-> IF d \in revised THEN rounds[d] + 1 ELSE rounds[d]]
    /\ status' = [d \in Tasks |->
                    IF d = t THEN IF revised = {} THEN "accepted" ELSE "queued"
                    ELSE IF d \in revised THEN "queued"
                    ELSE IF d \in failing THEN "partial"
                    ELSE IF d \in DependsOn[t] THEN "accepted"
                    ELSE status[d]]
    /\ Ended(t)
    /\ UNCHANGED <<resent, runVars, mailVars, sending>>

Fail(t) ==
    /\ InSession(t)
    /\ ~Calling(t)
    /\ \E s \in {"failed", "blocked"} : status' = [status EXCEPT ![t] = s]
    /\ Ended(t)
    /\ UNCHANGED <<rounds, resent, runVars, mailVars, sending>>

\* The Master, asked about a failure, puts a task back (decide, "retry"); its new
\* session delivers its handoffs again.
Retry(t) ==
    /\ phase = "working"
    /\ resumes <= MaxRetryResumes
    /\ status[t] \in {"failed", "blocked", "partial", "review_pending"}
    /\ status' = [status EXCEPT ![t] = "queued"]
    /\ resent' = resent \cup {t}
    /\ UNCHANGED <<rounds, told, reviewed, runVars, mailVars, sending>>

EndReply(q) ==
    /\ q \in replying
    /\ ~\E x \in sending : x.by = [kind |-> "reply", to |-> q]
    /\ replying' = replying \ {q}
    /\ UNCHANGED <<taskVars, runVars, counted, question, dispatched, sending>>

\* The run is cancelled or interrupted: its sessions are gone, and their tasks
\* are queued when it is resumed.
Stop ==
    /\ phase # "stopped"
    /\ phase' = "stopped"
    /\ status' = [t \in Tasks |-> IF status[t] = "running" THEN "queued" ELSE status[t]]
    /\ told' = [t \in Tasks |-> {}]
    /\ reviewed' = [t \in Tasks |-> {}]
    /\ sending' = {}
    /\ replying' = {}
    /\ resent' = resent \cup {t \in Tasks : told[t] # {}}
    /\ UNCHANGED <<rounds, reserves, resumes, counted, question, dispatched>>

\* _execute builds the snapshot of the run anew, from the configuration, the
\* agents and the recommended team only; every session may deliver anew.
Resume ==
    /\ phase = "stopped"
    /\ resumes < MaxResumes
    /\ resumes' = resumes + 1
    /\ phase' = "coordination"
    /\ reserves' = FALSE
    /\ resent' = Tasks
    /\ UNCHANGED <<status, rounds, told, reviewed, mailVars, sending>>

\* A run that is not resumed any more is at rest.
Over == phase = "stopped" /\ resumes = MaxResumes /\ UNCHANGED vars

Next ==
    \/ Send
    \/ EndCoordination
    \/ \E t \in Tasks :
         \/ Start(t) \/ Publish(t) \/ FinishProducer(t) \/ Fail(t) \/ Retry(t)
         \/ \E d \in Tasks : SubmitReview(t, d)
         \/ \E failing \in SUBSET DependsOn[t] : FinishReview(t, failing)
    \/ \E q \in Questions : EndReply(q)
    \/ Stop \/ Resume \/ Over

Spec == Init /\ [][Next]_vars

-----------------------------------------------------------------------------
(* Properties                                                              *)

TypeOK ==
    /\ phase \in {"coordination", "working", "stopped"}
    /\ reserves \in BOOLEAN
    /\ resumes \in 0..MaxResumes
    /\ status \in [Tasks -> Statuses]
    /\ rounds \in [Tasks -> 0..MaxRevisionRounds]
    /\ counted \in [Tasks -> 0..MaxPeerMessages]
    /\ told \in [Tasks -> SUBSET Agents]
    /\ reviewed \in [Tasks -> SUBSET Tasks]
    /\ replying \subseteq Questions
    /\ dispatched \subseteq Agents
    /\ resent \subseteq Tasks

\* What is stored, owed to later sessions and held for answers fits the limit
\* of the task, whatever the sessions of the run send meanwhile.
ReserveFits ==
    \A t \in Tasks :
        counted[t] + FutureReserve(t) + Cardinality(PendingQuestions(t)) <= MaxPeerMessages

\* ... as long as the run was not resumed.
ReserveFitsUntilResume == reserves => ReserveFits

\* A session that delivers no handoff twice over can always deliver the rest,
\* and a task that is queued can still be started (scheduler.py:190).
HandoffsFit ==
    \A t \in Tasks \ resent :
        (reserves /\ status[t] \in {"queued", "running"}) =>
            counted[t] + FutureReserve(t) + Cardinality(PendingQuestions(t))
              + Cardinality(Needed(t)) <= MaxPeerMessages

\* The answer a question holds a message for is not refused: never to a reply
\* session, and to a session of the task itself only if it delivers handoffs
\* twice over.
AnswersAreAdmitted ==
    \A x \in sending :
        ( /\ reserves
          /\ ReservedAnswer(x)
          /\ x.by.kind = "reply" \/ (OwnSession(x) /\ x.task \notin resent) )
        => Admitted(x)
=============================================================================
