--------------------------- MODULE SchedulerProofs ---------------------------
(***************************************************************************)
(* What holds of every run of the scheduler, for every plan and every      *)
(* limit, and what holds of the review loop when the Master does not       *)
(* intervene and no task has two reviewers.                                *)
(***************************************************************************)
EXTENDS Scheduler, FiniteSetTheorems, TLAPS

-----------------------------------------------------------------------------
(* Facts about the operators                                               *)

LEMMA AfterAbandonedType ==
    ASSUME status \in [Tasks -> Statuses]
    PROVE  AfterAbandoned \in [Tasks -> Statuses]
  BY DEF AfterAbandoned, Statuses

LEMMA FinalStatusType ==
    ASSUME NEW s
    PROVE  FinalStatus(s) \in {"completed", "partial", "failed"}
  BY DEF FinalStatus

\* The task the loop over rt.tasks comes to next is one of those it looks for, and those
\* it has not looked at come after it.
LEMMA NextInOrder ==
    ASSUME NEW S \in SUBSET Tasks, NEW t, IsNext(t, S), cursor \in Nat
    PROVE  /\ t \in Tasks /\ t \in S /\ PlanOrder[t] > cursor
           /\ \A u \in S : PlanOrder[u] > cursor => PlanOrder[t] <= PlanOrder[u]
  BY DEF IsNext, Ahead

\* Two tasks are not at the same place.
LEMMA OneTaskAtAPlace ==
    ASSUME NEW t \in Tasks, NEW u \in Tasks, PlanOrder[t] = PlanOrder[u]
    PROVE  t = u
  BY TasksAssumption

-----------------------------------------------------------------------------
(* Types                                                                   *)

LEMMA NoVerdictsType == NoReview \in Review /\ NoVerdicts \in [Tasks -> Review]
  BY LimitsAssumption DEF NoVerdicts, NoReview, Review

LEMMA InitType == Init => TypeOK
  <1> SUFFICES ASSUME Init PROVE TypeOK
    OBVIOUS
  <1>1. /\ status \in [Tasks -> Statuses]
        /\ session \in [Tasks -> {"none", "live", "done"}]
        /\ outcome \in [Tasks -> Outcomes]
        /\ informed \subseteq Tasks
        /\ orphans \in [Tasks -> Nat]
    BY DEF Init, Statuses, Outcomes
  <1>2. /\ review \in [Tasks -> Review]
        /\ verdicts \in [Tasks -> [Tasks -> Review]]
    BY NoVerdictsType DEF Init
  <1>3. /\ rev \in [Tasks -> 0..MaxRevisions]
        /\ rounds \in [Tasks -> 0..MaxRevisionRounds]
        /\ replans \in 0..MaxReplans
        /\ questions \in 0..MaxQuestions
    BY LimitsAssumption DEF Init
  <1> QED BY <1>1, <1>2, <1>3 DEF Init, TypeOK, RunStatuses

LEMMA DropSessionType ==
    ASSUME TypeOK, NEW S, DropSession(S)
    PROVE  /\ session' \in [Tasks -> {"none", "live", "done"}]
           /\ outcome' \in [Tasks -> Outcomes]
           /\ verdicts' \in [Tasks -> [Tasks -> Review]]
           /\ informed' \subseteq Tasks
  BY NoVerdictsType DEF TypeOK, DropSession, Outcomes

LEMMA PopType ==
    ASSUME TypeOK, NEW t \in Tasks, Pop(t)
    PROVE  /\ session' \in [Tasks -> {"none", "live", "done"}]
           /\ outcome' \in [Tasks -> Outcomes]
           /\ verdicts' \in [Tasks -> [Tasks -> Review]]
           /\ informed' \subseteq Tasks
           /\ batch' \in SUBSET Tasks
           /\ UNCHANGED <<rev, orphans, envVars, replyVars, result>>
  BY DropSessionType DEF TypeOK, Pop

\* Every step keeps every variable in its type.
LEMMA NextType == TypeOK /\ [Next]_vars => TypeOK'
  <1> SUFFICES ASSUME TypeOK, [Next]_vars PROVE TypeOK'
    OBVIOUS
  <1> USE DEF taskVars, sessionVars, flagVars, loopVars, masterVars, replyVars, envVars
  <1>1. CASE Cancel BY <1>1 DEF Cancel, TypeOK
  <1>2. CASE TimeOut BY <1>2 DEF TimeOut, TypeOK
  <1>3. ASSUME NEW t \in Tasks, Publish(t) PROVE TypeOK'
    BY <1>3, LimitsAssumption DEF Publish, TypeOK
  <1>4. ASSUME NEW r \in Tasks, NEW t \in Tasks, NEW v \in Verdicts, SubmitReview(r, t, v)
        PROVE TypeOK'
    <2>1. [rev |-> rev[t], verdict |-> v] \in Review
      BY DEF TypeOK, Review
    <2> QED BY <1>4, <2>1 DEF SubmitReview, TypeOK
  <1>5. ASSUME NEW t \in Tasks, SessionEnds(t) PROVE TypeOK'
    BY <1>5 DEF SessionEnds, EndSession, TypeOK, Outcomes
  <1>6. ASSUME NEW t \in Tasks, OrphanEnd(t) PROVE TypeOK'
    BY <1>6 DEF OrphanEnd, TypeOK
  <1>7. CASE SpawnReply
    BY <1>7, LimitsAssumption DEF SpawnReply, TypeOK
  <1>8. CASE EndReply BY <1>8 DEF EndReply, TypeOK
  <1>9. ASSUME CancelAll, NEW r \in RunStatuses, Return(r) PROVE TypeOK'
    <2>1. status' \in [Tasks -> Statuses]
      BY <1>9 DEF CancelAll, AfterCancelAll, TypeOK, Statuses
    <2> QED BY <1>9, <2>1, DropSessionType DEF CancelAll, Return, TypeOK
  <1>10. CASE StopCancelled \/ StopTimedOut \/ StopFatal
    BY <1>9, <1>10, FinalStatusType DEF StopCancelled, StopTimedOut, StopFatal, RunStatuses
  <1>11. CASE Pass
    BY <1>11, AfterAbandonedType DEF Pass, TypeOK
  <1>28. ASSUME NEW t \in Tasks, Promote(t) PROVE TypeOK'
    BY <1>28, TasksAssumption DEF Promote, TypeOK, Statuses
  <1>29. Cardinality(Running) + replies \in Nat
    <2>1. Cardinality(Running) \in Nat
      BY TasksAssumption, FS_Subset, FS_CardinalityType DEF Running
    <2> QED BY <2>1 DEF TypeOK
  <1>30. CASE Promoted \/ StartsEnd
    BY <1>29, <1>30 DEF Promoted, StartsEnd, AfterStarts, TypeOK
  <1>31. ASSUME NEW t \in Tasks, Start(t) PROVE TypeOK'
    BY <1>31, TasksAssumption DEF Start, TypeOK, Statuses
  <1>32. ASSUME NEW t \in Tasks, Launch(t) PROVE TypeOK'
    <2>1. /\ orphans' \in [Tasks -> Nat]
          /\ session' \in [Tasks -> {"none", "live", "done"}]
          /\ outcome' \in [Tasks -> Outcomes]
          /\ informed' \subseteq Tasks /\ feedback' \subseteq Tasks
      BY <1>32 DEF Launch, TypeOK, Outcomes
    <2>2. verdicts' \in [Tasks -> [Tasks -> Review]]
      BY <1>32, NoVerdictsType DEF Launch, TypeOK
    <2> QED BY <1>32, <2>1, <2>2 DEF Launch, TypeOK
  <1>12. CASE Wait BY <1>12 DEF Wait, TypeOK
  <1>13. CASE IdlePaused BY <1>13 DEF IdlePaused, Return, TypeOK, RunStatuses
  <1>14. AfterGiveUp \in [Tasks -> Statuses]
    BY DEF AfterGiveUp, TypeOK, Statuses
  <1>15. CASE IdleReturn
    BY <1>14, <1>15, FinalStatusType DEF IdleReturn, Return, TypeOK, RunStatuses
  <1>16. CASE IdleReplan
    BY <1>14, <1>16, LimitsAssumption DEF IdleReplan, MayReplan, TypeOK
  <1>17. ASSUME NEW t \in Tasks, HandleFinished(t) PROVE TypeOK'
    BY <1>17, PopType DEF HandleFinished, GoOn, TypeOK, Statuses
  <1>18. ASSUME NEW r \in Tasks, HandleReview(r) PROVE TypeOK'
    BY <1>18, TasksAssumption DEF HandleReview, TypeOK, Statuses, Outcomes
  <1>33. ASSUME NEW rest, NextVerdict(rest)
         PROVE  /\ pc' \in {"review", "top", "handle"}
                /\ cursor' \in Nat
    BY <1>33 DEF NextVerdict, TypeOK
  <1>34. ASSUME NEW r \in Reviewers, NEW t \in Tasks, Look(r, t) PROVE TypeOK'
    BY <1>34 DEF Look, TypeOK
  <1>35. ASSUME NEW r \in Reviewers, NEW t \in Tasks, NEW n \in 0..MaxRevisions,
                Judge(r, t, n)
         PROVE  TypeOK'
    <2>1. r \in Tasks
      BY TasksAssumption
    <2>2. TargetStatus(r, t, n) \in Statuses
      BY DEF TargetStatus, Statuses
    <2>3. status' \in [Tasks -> Statuses]
      BY <1>35, <2>2 DEF Judge, TypeOK
    <2>4. review' \in [Tasks -> Review]
      BY <1>35, <2>1, NoVerdictsType DEF Judge, TypeOK
    <2>5. Revise(r, t, n) => rounds[t] + 1 \in 0..MaxRevisionRounds
      BY LimitsAssumption DEF Revise, TypeOK
    <2>6. rounds' \in [Tasks -> 0..MaxRevisionRounds]
      BY <1>35, <2>5 DEF Judge, TypeOK
    <2>7. feedback' \subseteq Tasks
      BY <1>35 DEF Judge, Findings, TypeOK
    <2>8. verdicts' \in [Tasks -> [Tasks -> Review]]
      BY <1>35, <2>1, NoVerdictsType DEF Judge, TypeOK
    <2>9. /\ pc' \in {"settle", "review", "top", "handle"}
          /\ cursor' \in Nat
          /\ look' \subseteq Tasks \X (0..MaxRevisions)
      BY <1>33, <1>35 DEF Judge, TypeOK
    <2>10. UNCHANGED <<rev, session, outcome, informed, orphans, active, batch, masterVars,
                       flagVars, envVars, replyVars, result>>
      BY <1>35 DEF Judge
    <2> QED BY <2>3, <2>4, <2>6, <2>7, <2>8, <2>9, <2>10 DEF TypeOK
  <1>36. ASSUME NEW r \in Reviewers, NEW t \in Tasks, Settle(r, t) PROVE TypeOK'
    <2>1. r \in Tasks
      BY TasksAssumption
    <2>2. /\ pc' \in {"review", "top", "handle"}
          /\ cursor' \in Nat
          /\ look' = {}
      BY <1>33, <1>36 DEF Settle
    <2>3. status' \in [Tasks -> Statuses]
      BY <1>36, <2>1 DEF Settle, TypeOK
    <2> QED BY <1>36, <2>2, <2>3 DEF Settle, TypeOK
  <1>19. ASSUME NEW t \in Tasks, HandleCancelled(t) PROVE TypeOK'
    BY <1>19, PopType DEF HandleCancelled, GoOn, TypeOK, Statuses
  <1>20. ASSUME NEW t \in Tasks, HandleApproval(t) PROVE TypeOK'
    BY <1>20, PopType DEF HandleApproval, GoOn, TypeOK, Statuses
  <1>21. ASSUME NEW t \in Tasks, HandleFatal(t) PROVE TypeOK'
    BY <1>21, PopType DEF HandleFatal, GoOn, TypeOK, Statuses
  <1>22. ASSUME NEW t \in Tasks, HandleCrashed(t) PROVE TypeOK'
    BY <1>22, PopType DEF HandleCrashed, GoOn, TypeOK, Statuses
  <1>23. ASSUME NEW t \in Tasks, HandleFailed(t) PROVE TypeOK'
    BY <1>23, PopType DEF HandleFailed, GoOn, TypeOK, Statuses
  <1>24. ASSUME NEW t \in Tasks, NEW a \in MasterActions, Decide(t, a) PROVE TypeOK'
    BY <1>24 DEF Decide, MasterActions, TypeOK, Statuses
  <1>25. ASSUME NEW t \in Tasks, AddTask(t) PROVE TypeOK'
    BY <1>25 DEF AddTask, TypeOK, Statuses
  <1>26. CASE MasterEnd
    BY <1>26, FinalStatusType
    DEF MasterEnd, ExceptionEnd, MilestoneEnd, MilestoneRaised, Return, TypeOK, RunStatuses
  <1>27. CASE UNCHANGED vars BY <1>27 DEF vars, TypeOK
  <1> QED
    BY <1>1, <1>2, <1>3, <1>4, <1>5, <1>6, <1>7, <1>8, <1>10, <1>11, <1>12, <1>13, <1>15,
       <1>16, <1>17, <1>18, <1>19, <1>20, <1>21, <1>22, <1>23, <1>24, <1>25, <1>26, <1>27,
       <1>28, <1>30, <1>31, <1>32, <1>34, <1>35, <1>36
    DEF Next, Loop, Handle, Returned

\* Every variable of the scheduler keeps its type, for every plan and limit: in
\* particular no task is revised more than max_revision_rounds times.
THEOREM TypeCorrect == Spec => []TypeOK
  <1> QED BY InitType, NextType, PTL DEF Spec

-----------------------------------------------------------------------------
(* Sessions and the main loop                                              *)

\* LoopInv without its type part, which NextType preserves.
LoopRest ==
    /\ RunningHasSession
    /\ pc \in {"idle", "milestone", "returned"} => Running = {}
    /\ PassInv
    /\ LookInv

\* Steps of the sessions and of the environment.
LEMMA LoopFrame ==
    ASSUME LoopInv, UNCHANGED <<status, pc, loopVars, paused>>, Running' = Running
    PROVE  LoopRest'
  <1> USE DEF LoopInv, loopVars
  <1>1. RunningHasSession' /\ (pc' \in {"idle", "milestone", "returned"} => Running' = {})
    BY DEF RunningHasSession, Launching
  <1>2. PassInv' /\ LookInv'
    BY DEF PassInv, LookInv, DepsReady, Ahead, Startable
  <1> QED BY <1>1, <1>2 DEF LoopRest

\* Steps outside a pass that make no task running.
LEMMA NoPassKeeps ==
    ASSUME LoopInv, cursor = 0, UNCHANGED loopVars,
           pc \notin {"promote", "start", "launch", "review", "judge", "settle", "idle"},
           pc' \notin {"promote", "start", "launch", "review", "judge", "settle", "idle"},
           \A t \in Tasks : status'[t] = "running" => status[t] = "running" /\ session'[t] # "none",
           pc' \in {"milestone", "returned"} => Running' = {}
    PROVE  LoopRest'
  <1>1. look = {} /\ look' = {}
    BY DEF LoopInv, LookInv, loopVars
  <1>2. RunningHasSession'
    BY DEF RunningHasSession, Running
  <1>3. PassInv' /\ LookInv'
    BY <1>1 DEF PassInv, LookInv, loopVars
  <1> QED BY <1>2, <1>3 DEF LoopRest

\* Stopping the run leaves no task running and no entry in _running.
LEMMA CancelAllStops ==
    ASSUME LoopInv, pc = "top", CancelAll, pc' = "returned"
    PROVE  LoopRest'
  <1>1. Running' = {}
    BY DEF CancelAll, DropSession, Running
  <1>2. \A t \in Tasks : status'[t] # "running"
    BY DEF LoopInv, RunningHasSession, Launching, CancelAll, AfterCancelAll
  <1>3. cursor = 0 /\ UNCHANGED loopVars
    BY DEF LoopInv, PassInv, CancelAll
  <1> QED BY <1>1, <1>2, <1>3, NoPassKeeps

\* Handling a future takes its entry out of _running and sets a status that is
\* not "running"; the other tasks do not start running.
LEMMA PopKeepsLoopInv ==
    ASSUME LoopInv, NEW t \in Tasks, Pop(t), UNCHANGED loopVars, status'[t] # "running",
           \A u \in Tasks : status'[u] = "running" => status[u] = "running",
           pc' \in {"top", "handle", "exception"}
    PROVE  LoopRest'
  <1>1. \A u \in Tasks \ {t} : session'[u] = session[u]
    BY DEF Pop, DropSession
  <1>2. pc = "handle" /\ cursor = 0
    BY DEF Pop, LoopInv, PassInv
  <1>3. \A u \in Tasks : status'[u] = "running" => status[u] = "running" /\ session'[u] # "none"
    BY <1>1, <1>2 DEF LoopInv, RunningHasSession, Running, Launching
  <1> QED BY <1>2, <1>3, NoPassKeeps

\* Handling any outcome is such a step; a review is applied in steps of its own.
LEMMA HandleKeepsLoopInv ==
    ASSUME LoopInv, NEW t \in Tasks, Handle(t)
    PROVE  LoopRest'
  <1> USE DEF TypeOK, LoopInv
  <1>1. CASE HandleFinished(t)
    BY <1>1, PopKeepsLoopInv DEF HandleFinished, GoOn
  <1>2. CASE HandleReview(t)
    <2>1. pc = "handle" /\ cursor = 0 /\ look' = {} /\ pc' = "review"
      BY <1>2 DEF HandleReview, PassInv, LookInv
    <2>2. \A u \in Tasks : status'[u] = "running" => session'[u] # "none"
      BY <1>2, <2>1 DEF HandleReview, RunningHasSession, Running, Launching
    <2>3. RunningHasSession' /\ PassInv' /\ LookInv'
      BY <2>1, <2>2 DEF RunningHasSession, Running, PassInv, LookInv
    <2> QED BY <2>1, <2>3 DEF LoopRest
  <1>3. CASE HandleCancelled(t)
    BY <1>3, PopKeepsLoopInv DEF HandleCancelled, GoOn
  <1>4. CASE HandleApproval(t)
    BY <1>4, PopKeepsLoopInv DEF HandleApproval, GoOn
  <1>5. CASE HandleFatal(t)
    BY <1>5, PopKeepsLoopInv DEF HandleFatal, GoOn
  <1>6. CASE HandleCrashed(t)
    BY <1>6, PopKeepsLoopInv DEF HandleCrashed, GoOn
  <1>7. CASE HandleFailed(t)
    BY <1>7, PopKeepsLoopInv DEF HandleFailed, GoOn
  <1> QED BY <1>1, <1>2, <1>3, <1>4, <1>5, <1>6, <1>7 DEF Handle

\* A task that is not usable before it becomes ready, cancelled or running is not usable
\* afterwards: the tasks a pass has left queued still cannot run.
LEMMA PassedByStays ==
    ASSUME LoopInv, NEW t \in Tasks, NEW x \in {"ready", "cancelled", "running"},
           status[t] \in {"queued", "ready"}, status' = [status EXCEPT ![t] = x],
           NEW u \in Tasks, ~DepsReady(status, u)
    PROVE  ~DepsReady(status', u)
  <1>1. PICK d \in Deps(u) : ~DepOk(status, u, d)
    BY DEF DepsReady
  <1>2. d \in Tasks
    BY TasksAssumption DEF Deps
  <1>3. ~DepOk(status', u, d)
    BY <1>1, <1>2 DEF DepOk, DoneForDependents, LoopInv, TypeOK
  <1> QED BY <1>3 DEF DepsReady

\* The promotion loop: the tasks it has passed by cannot run.
LEMMA PromoteKeepsLoopInv ==
    ASSUME LoopInv, NEW t \in Tasks, Promote(t)
    PROVE  LoopRest'
  <1> DEFINE x == IF DepsDead(status, t) THEN "cancelled" ELSE "ready"
             S == {u \in Tasks : Promotable(u)}
  <1>1. /\ pc = "promote" /\ pc' = "promote" /\ cursor' = PlanOrder[t] /\ IsNext(t, S)
        /\ status' = [status EXCEPT ![t] = x] /\ x \in {"cancelled", "ready"}
        /\ UNCHANGED <<look, session>> /\ look = {}
    BY DEF Promote, sessionVars, LoopInv, LookInv
  <1>2. /\ Promotable(t)
        /\ \A u \in S : PlanOrder[u] > cursor => PlanOrder[t] <= PlanOrder[u]
    <2>1. cursor \in Nat /\ S \in SUBSET Tasks
      BY DEF LoopInv, TypeOK
    <2> HIDE DEF S
    <2>2. t \in S /\ \A u \in S : PlanOrder[u] > cursor => PlanOrder[t] <= PlanOrder[u]
      BY <1>1, <2>1, NextInOrder
    <2> QED BY <2>2 DEF S
  <1>3. /\ status'[t] = x
        /\ \A u \in Tasks \ {t} : status'[u] = status[u]
    BY <1>1 DEF LoopInv, TypeOK
  <1>4. ASSUME NEW u \in Tasks, status'[u] = "queued", PlanOrder[u] <= cursor'
        PROVE  ~DepsReady(status', u)
    <2>1. u # t /\ status[u] = "queued" /\ PlanOrder[u] # PlanOrder[t]
      BY <1>1, <1>3, <1>4, OneTaskAtAPlace
    <2>2. PlanOrder[u] \in Nat /\ PlanOrder[t] \in Nat /\ cursor \in Nat
      BY TasksAssumption DEF LoopInv, TypeOK
    <2>3. ~DepsReady(status, u)
      <3>1. CASE PlanOrder[u] <= cursor
        BY <1>1, <2>1, <3>1 DEF LoopInv, PassInv
      <3>2. CASE PlanOrder[u] > cursor
        <4>1. u \notin S
          BY <1>1, <1>2, <1>4, <2>1, <2>2, <3>2
        <4> QED BY <2>1, <4>1 DEF Promotable
      <3> QED BY <2>2, <3>1, <3>2
    <2>4. status[t] \in {"queued", "ready"}
      BY <1>2 DEF Promotable
    <2> QED BY <1>1, <2>3, <2>4, PassedByStays
  <1>5. RunningHasSession'
    BY <1>1, <1>3 DEF LoopInv, RunningHasSession, Running, Launching
  <1>6. PassInv' /\ LookInv'
    BY <1>1, <1>4 DEF PassInv, LookInv
  <1> QED BY <1>1, <1>5, <1>6 DEF LoopRest

\* Nothing is running and nothing may be started: nothing is ready, unless the run pauses.
LEMMA NothingReady ==
    ASSUME Running = {}, replies = 0, Startable(Cardinality(Running) + replies) = {}, ~paused
    PROVE  \A t \in Tasks : status[t] # "ready"
  <1>1. Cardinality(Running) + replies = 0
    BY FS_EmptySet
  <1> QED BY <1>1, LimitsAssumption DEF Startable

\* The count of the sessions comes after the last promotion.
LEMMA PromotedKeepsLoopInv ==
    ASSUME LoopInv, Promoted
    PROVE  LoopRest'
  <1>1. /\ pc = "promote" /\ pc' \in {"start", "idle", "wait"} /\ cursor' = 0
        /\ UNCHANGED <<status, session, replies, paused, look>> /\ look = {}
        /\ Ahead({u \in Tasks : Promotable(u)}) = {}
    BY DEF Promoted, AfterStarts, taskVars, sessionVars, replyVars, flagVars, LoopInv, LookInv
  <1>2. \A u \in Tasks : status[u] = "queued" => ~DepsReady(status, u)
    <2> SUFFICES ASSUME NEW u \in Tasks, status[u] = "queued", PlanOrder[u] > cursor
                 PROVE  ~DepsReady(status, u)
      BY <1>1, TasksAssumption DEF LoopInv, PassInv, TypeOK
    <2> QED BY <1>1 DEF Ahead, Promotable
  <1>3. \A u \in Tasks : status'[u] = "queued" => ~DepsReady(status', u)
    BY <1>1, <1>2
  <1>4. RunningHasSession' /\ Running' = Running
    BY <1>1 DEF LoopInv, RunningHasSession, Running, Launching
  <1>5. pc' = "idle" => Running = {} /\ replies = 0
                          /\ Startable(Cardinality(Running) + replies) = {}
    BY DEF Promoted, AfterStarts
  <1>6. pc' = "idle" /\ ~paused => \A t \in Tasks : status[t] # "ready"
    BY <1>5, NothingReady
  <1>7. pc' = "start" => Ahead(Startable(active))' # {}
    <2> SUFFICES ASSUME pc' = "start" PROVE Ahead(Startable(active))' # {}
      OBVIOUS
    <2>1. PICK t : t \in Startable(Cardinality(Running) + replies)
      BY DEF Promoted, AfterStarts
    <2>2. active' = Cardinality(Running) + replies
      BY DEF Promoted, AfterStarts
    <2>3. t \in Startable(active)' /\ t \in Tasks
      BY <1>1, <2>1, <2>2 DEF Startable
    <2>4. PlanOrder[t] > 0
      BY <2>3, TasksAssumption
    <2> QED BY <1>1, <2>3, <2>4 DEF Ahead
  <1>8. PassInv' /\ LookInv'
    BY <1>1, <1>3, <1>6, <1>7 DEF PassInv, LookInv
  <1> QED BY <1>1, <1>4, <1>5, <1>8 DEF LoopRest

\* Starting a task makes it running; its session follows.
LEMMA StartKeepsLoopInv ==
    ASSUME LoopInv, NEW t \in Tasks, Start(t)
    PROVE  LoopRest'
  <1>1. /\ pc = "start" /\ pc' = "launch" /\ cursor' = PlanOrder[t]
        /\ IsNext(t, Startable(active)) /\ status' = [status EXCEPT ![t] = "running"]
        /\ UNCHANGED <<look, session>> /\ look = {}
    BY DEF Start, sessionVars, LoopInv, LookInv
  <1>2. status[t] = "ready"
    BY <1>1 DEF IsNext, Ahead, Startable
  <1>3. /\ status'[t] = "running"
        /\ \A u \in Tasks \ {t} : status'[u] = status[u]
    BY <1>1 DEF LoopInv, TypeOK
  <1>4. RunningHasSession'
    BY <1>1, <1>3 DEF LoopInv, RunningHasSession, Running, Launching
  <1>5. \A u \in Tasks : status'[u] = "queued" => ~DepsReady(status', u)
    BY <1>1, <1>2, <1>3, PassedByStays DEF LoopInv, PassInv
  <1>6. PassInv' /\ LookInv'
    BY <1>1, <1>5 DEF PassInv, LookInv
  <1> QED BY <1>1, <1>4, <1>6 DEF LoopRest

LEMMA LaunchKeepsLoopInv ==
    ASSUME LoopInv, NEW t \in Tasks, Launch(t)
    PROVE  LoopRest'
  <1>1. /\ pc = "launch" /\ pc' = "start" /\ cursor = PlanOrder[t]
        /\ session' = [session EXCEPT ![t] = "live"]
        /\ UNCHANGED <<look, status>> /\ look = {}
    BY DEF Launch, Launching, LoopInv, LookInv
  <1>2. /\ session'[t] = "live"
        /\ \A u \in Tasks \ {t} : session'[u] = session[u]
    BY <1>1 DEF LoopInv, TypeOK
  <1>3. RunningHasSession'
    BY <1>1, <1>2, OneTaskAtAPlace DEF LoopInv, RunningHasSession, Running, Launching
  <1>4. Running' # {}
    BY <1>2 DEF Running
  <1>5. PassInv' /\ LookInv'
    BY <1>1, <1>4 DEF LoopInv, PassInv, LookInv
  <1> QED BY <1>1, <1>3, <1>5 DEF LoopRest

\* A pass that started a task has something to wait for.
LEMMA StartsEndKeepsLoopInv ==
    ASSUME LoopInv, StartsEnd
    PROVE  LoopRest'
  <1>1. /\ pc = "start" /\ cursor' = 0 /\ Ahead(Startable(active)) = {}
        /\ pc' = AfterStarts
        /\ UNCHANGED <<look, status, session>> /\ look = {}
    BY DEF StartsEnd, taskVars, sessionVars, LoopInv, LookInv
  <1>2. pc' = "wait"
    BY <1>1 DEF AfterStarts, LoopInv, PassInv
  <1>3. RunningHasSession'
    BY <1>1 DEF LoopInv, RunningHasSession, Running, Launching
  <1>4. PassInv' /\ LookInv'
    BY <1>1, <1>2 DEF PassInv, LookInv
  <1> QED BY <1>2, <1>3, <1>4 DEF LoopRest

\* Applying a verdict: no task becomes running, and what is looked up is settled.
LEMMA VerdictKeepsLoopInv ==
    ASSUME LoopInv, NEW r \in Reviewers, NEW t \in Tasks,
           Look(r, t) \/ Settle(r, t) \/ \E n \in 0..MaxRevisions : Judge(r, t, n)
    PROVE  LoopRest'
  <1>0. r \in Tasks
    BY TasksAssumption
  <1>1. /\ pc \in {"review", "judge", "settle"}
        /\ pc' \in {"review", "judge", "settle", "top", "handle"}
        /\ pc' \in {"top", "handle"} => cursor' = 0
        /\ session' = session
    BY DEF Look, Settle, Judge, NextVerdict, sessionVars
  <1>2. \A u \in Tasks : status'[u] = "running" => status[u] = "running"
    <2>1. CASE Look(r, t)
      BY <2>1 DEF Look, taskVars
    <2>2. CASE Settle(r, t)
      <3>1. status[t] \in {"queued", "partial"}
        BY <2>2 DEF Settle, LoopInv, LookInv
      <3> QED BY <1>0, <2>2, <3>1 DEF Settle, LoopInv, TypeOK
    <2>3. ASSUME NEW n \in 0..MaxRevisions, Judge(r, t, n)
          PROVE  \A u \in Tasks : status'[u] = "running" => status[u] = "running"
      <3>1. TargetStatus(r, t, n) # "running"
        BY DEF TargetStatus
      <3> QED BY <2>3, <3>1 DEF Judge, LoopInv, TypeOK
    <2> QED BY <2>1, <2>2, <2>3
  <1>3. RunningHasSession'
    BY <1>1, <1>2 DEF LoopInv, RunningHasSession, Running, Launching
  <1>4. PassInv'
    BY <1>1 DEF PassInv
  <1>5. LookInv'
    <2>1. CASE Look(r, t)
      BY <2>1 DEF Look, LookInv
    <2>2. CASE Settle(r, t)
      BY <2>2 DEF Settle, LookInv
    <2>3. ASSUME NEW n \in 0..MaxRevisions, Judge(r, t, n), look' # {}
          PROVE  LookInv'
      <3>1. /\ pc' = "settle" /\ look' = look /\ <<t, n>> \in look
            /\ Stale(r, t, n) \/ Revise(r, t, n)
        BY <2>3 DEF Judge
      <3>2. \A x \in look : x[1] = t
        <4>1. \A x \in look : x = <<t, n>>
          BY <3>1 DEF LoopInv, LookInv
        <4> QED BY <4>1
      <3>3. TargetStatus(r, t, n) \in {"queued", "partial"}
        BY <3>1 DEF TargetStatus
      <3>4. status'[t] = TargetStatus(r, t, n)
        BY <2>3 DEF Judge, LoopInv, TypeOK
      <3> QED BY <3>1, <3>2, <3>3, <3>4 DEF LoopInv, LookInv
    <2>4. look' = {} /\ pc' # "settle" => LookInv'
      BY DEF LookInv
    <2>5. ASSUME NEW n \in 0..MaxRevisions, Judge(r, t, n), look' = {}
          PROVE  LookInv'
      <3>1. <<t, n>> \in look
        BY <2>5 DEF Judge
      <3>2. pc' # "settle"
        BY <2>5, <3>1 DEF Judge, NextVerdict
      <3> QED BY <2>4, <2>5, <3>2
    <2> QED BY <2>1, <2>2, <2>3, <2>5
  <1> QED BY <1>1, <1>3, <1>4, <1>5 DEF LoopRest

\* The loop's bookkeeping is inductive.
LEMMA NextLoopInv == LoopInv /\ [Next]_vars => LoopInv'
  <1> SUFFICES ASSUME LoopInv, [Next]_vars PROVE LoopRest'
    BY NextType DEF LoopInv, LoopRest
  <1>0. \A t \in Tasks : status[t] = "running" => session[t] # "none" \/ Launching(t)
    BY DEF LoopInv, RunningHasSession, Running
  <1>1. CASE \/ Cancel \/ TimeOut \/ SpawnReply \/ EndReply \/ UNCHANGED vars
             \/ \E t \in Tasks : Publish(t) \/ OrphanEnd(t)
             \/ \E r, t \in Tasks, v \in Verdicts : SubmitReview(r, t, v)
    <2>1. UNCHANGED <<status, pc, loopVars, paused, session>>
      BY <1>1
      DEF Cancel, TimeOut, SpawnReply, EndReply, vars, Publish, OrphanEnd, SubmitReview,
          taskVars, sessionVars, flagVars, loopVars
    <2>2. Running' = Running
      BY <2>1 DEF Running
    <2> QED BY <2>1, <2>2, LoopFrame
  <1>2. ASSUME NEW t \in Tasks, SessionEnds(t) PROVE LoopRest'
    <2>1. /\ UNCHANGED <<status, pc, loopVars, paused>>
          /\ session' = [session EXCEPT ![t] = "done"] /\ session[t] = "live"
      BY <1>2 DEF SessionEnds, EndSession, taskVars, flagVars
    <2>2. Running' = Running
      BY <2>1 DEF Running, LoopInv, TypeOK
    <2> QED BY <2>1, <2>2, LoopFrame
  <1>3. CASE StopCancelled \/ StopTimedOut \/ StopFatal
    BY <1>3, CancelAllStops DEF StopCancelled, StopTimedOut, StopFatal, Return
  <1>4. CASE Pass
    <2>1. /\ pc = "top" /\ pc' = "promote" /\ cursor' = 0 /\ look' = {}
          /\ session' = session /\ status' = AfterAbandoned
      BY <1>4 DEF Pass, sessionVars, loopVars, LoopInv, PassInv, LookInv
    <2>2. \A t \in Tasks : PlanOrder[t] > 0
      BY TasksAssumption
    <2>3. PassInv' /\ LookInv'
      BY <2>1, <2>2, TasksAssumption DEF PassInv, LookInv
    <2>4. RunningHasSession'
      BY <1>0, <2>1 DEF RunningHasSession, Running, Launching, AfterAbandoned
    <2> QED BY <2>1, <2>3, <2>4 DEF LoopRest
  <1>5. ASSUME NEW t \in Tasks, Promote(t) \/ Start(t) \/ Launch(t) PROVE LoopRest'
    BY <1>5, PromoteKeepsLoopInv, StartKeepsLoopInv, LaunchKeepsLoopInv
  <1>6. CASE Promoted \/ StartsEnd
    BY <1>6, PromotedKeepsLoopInv, StartsEndKeepsLoopInv
  <1>7. CASE Wait
    <2>1. /\ pc = "wait" /\ pc' \in {"top", "handle"} /\ UNCHANGED <<status, session, loopVars>>
      BY <1>7 DEF Wait, taskVars, sessionVars
    <2>2. cursor = 0
      BY <2>1 DEF LoopInv, PassInv
    <2> QED BY <1>0, <2>1, <2>2, NoPassKeeps DEF Launching
  <1>8. CASE IdlePaused \/ IdleReturn \/ IdleReplan
    <2>1. /\ pc = "idle" /\ pc' \in {"milestone", "returned"} /\ UNCHANGED <<session, loopVars>>
          /\ \A t \in Tasks : status'[t] = "running" => status[t] = "running"
      BY <1>8 DEF IdlePaused, IdleReturn, IdleReplan, Return, AfterGiveUp, taskVars, sessionVars
    <2>2. Running' = {} /\ cursor' = 0 /\ look' = {}
      BY <2>1 DEF LoopInv, PassInv, LookInv, Running, loopVars
    <2>3. \A t \in Tasks : status'[t] # "running"
      BY <1>0, <2>1, <2>2 DEF Running, Launching
    <2>4. RunningHasSession'
      BY <2>3 DEF RunningHasSession
    <2>5. PassInv' /\ LookInv'
      BY <2>1, <2>2 DEF PassInv, LookInv
    <2> QED BY <2>2, <2>4, <2>5 DEF LoopRest
  <1>9. ASSUME NEW t \in Tasks, Handle(t) PROVE LoopRest'
    BY <1>9, HandleKeepsLoopInv
  <1>10. ASSUME NEW r \in Reviewers, NEW t \in Tasks,
                Look(r, t) \/ Settle(r, t) \/ \E n \in 0..MaxRevisions : Judge(r, t, n)
         PROVE  LoopRest'
    BY <1>10, VerdictKeepsLoopInv
  <1>11. ASSUME pc \in {"exception", "milestone"}, pc' \in {"top", "handle", pc, "returned"},
                pc' = "returned" => pc = "milestone", UNCHANGED <<session, loopVars>>,
                \A t \in Tasks : status'[t] = "running" => status[t] = "running"
         PROVE  LoopRest'
    <2>1. cursor = 0
      BY <1>11 DEF LoopInv, PassInv
    <2>2. pc' \in {"milestone", "returned"} => Running' = {}
      BY <1>11 DEF LoopInv, Running
    <2>3. \A t \in Tasks : status'[t] = "running" => status[t] = "running" /\ session'[t] # "none"
      BY <1>0, <1>11 DEF Launching
    <2> QED BY <1>11, <2>1, <2>2, <2>3, NoPassKeeps
  <1>12. ASSUME NEW t \in Tasks, AddTask(t) \/ \E a \in MasterActions : Decide(t, a)
         PROVE  LoopRest'
    <2>1. /\ pc \in {"exception", "milestone"} /\ pc' = pc /\ UNCHANGED <<session, loopVars>>
          /\ \A u \in Tasks : status'[u] = "running" => status[u] = "running"
      BY <1>12 DEF AddTask, Decide, MasterAwaited, MasterActions, sessionVars, LoopInv, TypeOK
    <2> QED BY <1>11, <2>1
  <1>13. CASE MasterEnd
    <2>1. /\ pc \in {"exception", "milestone"} /\ pc' \in {"top", "handle", "returned"}
          /\ pc' = "returned" => pc = "milestone"
          /\ UNCHANGED <<status, session, loopVars>>
      BY <1>13 DEF MasterEnd, ExceptionEnd, MilestoneEnd, MilestoneRaised, Return, taskVars,
         sessionVars
    <2> QED BY <1>11, <2>1
  <1> QED
    BY <1>1, <1>2, <1>3, <1>4, <1>5, <1>6, <1>7, <1>8, <1>9, <1>10, <1>12, <1>13
    DEF Next, Loop, Returned

LEMMA InitLoopInv == Init => LoopInv
  <1> SUFFICES ASSUME Init PROVE LoopRest
    BY InitType DEF LoopInv, LoopRest
  <1>1. RunningHasSession
    BY DEF Init, RunningHasSession
  <1>2. PassInv /\ LookInv
    BY DEF Init, PassInv, LookInv
  <1> QED BY <1>1, <1>2 DEF Init, LoopRest

\* The invariant of the loop holds in every state of every run of the scheduler: the types,
\* a session for every running task, and nothing running where `run` is idle, awaits the
\* Master or has returned.
THEOREM LoopInvariant == Spec => []LoopInv
  <1> QED BY InitLoopInv, NextLoopInv, PTL DEF Spec

\* No task is shown as running without a session the loop waits for.
THEOREM RunningHasSessionHolds == Spec => []RunningHasSession
  <1>1. LoopInv => RunningHasSession
    BY DEF LoopInv
  <1> QED BY <1>1, LoopInvariant, PTL

\* Whatever ends the run, run() returns with _running empty and no task shown
\* as running.
THEOREM ReturnClean == Spec => []ReturnLeavesNothingRunning
  <1>1. LoopInv => ReturnLeavesNothingRunning
    BY DEF LoopInv, RunningHasSession, ReturnLeavesNothingRunning, Launching
  <1> QED BY <1>1, LoopInvariant, PTL

-----------------------------------------------------------------------------
(* What a step may never do                                                *)

\* After a stop of the run no task is cancelled for good, by whichever of the loop, the
\* worker's result and _cancel_all sees the stop first, unless the Master does it or a
\* dependency of the task is gone; and the pass the stop overtakes is the last.
THEOREM StopsKeepTasksResumable == Spec => StopKeepsTasksResumable
  <1> DEFINE Keeps ==
        cancelled =>
          /\ \A t \in Tasks : status'[t] = "cancelled" /\ status[t] # "cancelled"
                                => MasterAwaited \/ DepsDead(status, t)
          /\ pc' = "promote" => pc = "promote"
  <1>1. LoopInv /\ [Next]_vars => [Keeps]_vars
    <2> SUFFICES ASSUME LoopInv, [Next]_vars, cancelled PROVE Keeps
      OBVIOUS
    <2> USE DEF taskVars, LoopInv, TypeOK
    <2>1. CASE UNCHANGED <<status, pc>>
      BY <2>1
    <2>2. CASE status' = status /\ pc' # "promote"
      BY <2>2
    <2>3. CASE StopCancelled \/ StopTimedOut \/ StopFatal
      BY <2>3 DEF StopCancelled, StopTimedOut, StopFatal, CancelAll, AfterCancelAll, Return
    <2>4. CASE IdlePaused \/ IdleReturn \/ IdleReplan
      BY <2>4 DEF IdlePaused, IdleReturn, IdleReplan, AfterGiveUp, Return
    <2>5. ASSUME NEW t \in Tasks, Promote(t) PROVE Keeps
      BY <2>5 DEF Promote
    <2>6. ASSUME NEW t \in Tasks, Start(t) PROVE Keeps
      BY <2>6 DEF Start
    <2>7. ASSUME NEW t \in Tasks, Handle(t) PROVE Keeps
      <3>1. pc' # "promote"
        BY <2>7 DEF Handle, HandleFinished, HandleReview, HandleCancelled, HandleApproval,
           HandleFatal, HandleCrashed, HandleFailed, GoOn
      <3>2. \A u \in Tasks : status'[u] = "cancelled" => status[u] = "cancelled"
        BY <2>7 DEF Handle, HandleFinished, HandleReview, HandleCancelled, HandleApproval,
           HandleFatal, HandleCrashed, HandleFailed
      <3> QED BY <3>1, <3>2
    <2>8. ASSUME NEW r \in Reviewers, NEW t \in Tasks, NEW n \in 0..MaxRevisions,
                 Judge(r, t, n)
          PROVE  Keeps
      <3>1. TargetStatus(r, t, n) # "cancelled"
        BY DEF TargetStatus
      <3>2. pc' # "promote"
        BY <2>8 DEF Judge, NextVerdict
      <3> QED BY <2>8, <3>1, <3>2 DEF Judge
    <2>9. ASSUME NEW r \in Reviewers, NEW t \in Tasks, Settle(r, t) PROVE Keeps
      <3>1. r \in Tasks
        BY TasksAssumption
      <3>2. status[t] \in {"queued", "partial"}
        BY <2>9 DEF Settle, LookInv
      <3>3. pc' # "promote"
        BY <2>9 DEF Settle, NextVerdict
      <3> QED BY <2>9, <3>1, <3>2, <3>3 DEF Settle
    <2>10. CASE Pass
      BY <2>10 DEF Pass
    <2>11. CASE Promoted \/ StartsEnd
      BY <2>2, <2>11 DEF Promoted, StartsEnd, AfterStarts
    <2>12. ASSUME NEW t \in Tasks, Launch(t) PROVE Keeps
      BY <2>2, <2>12 DEF Launch
    <2>13. ASSUME NEW r \in Reviewers, NEW t \in Tasks, Look(r, t) PROVE Keeps
      BY <2>2, <2>13 DEF Look
    <2>14. CASE Wait
      BY <2>2, <2>14 DEF Wait
    <2>15. ASSUME NEW t \in Tasks, AddTask(t) \/ \E a \in MasterActions : Decide(t, a)
           PROVE  Keeps
      BY <2>15 DEF AddTask, Decide, MasterAwaited
    <2>16. CASE MasterEnd
      BY <2>2, <2>16 DEF MasterEnd, ExceptionEnd, MilestoneEnd, MilestoneRaised, Return
    <2> QED
      BY <2>1, <2>3, <2>4, <2>5, <2>6, <2>7, <2>8, <2>9, <2>10, <2>11, <2>12, <2>13, <2>14,
         <2>15, <2>16 DEF Next, vars, Cancel, TimeOut, Publish, SubmitReview, SessionEnds,
         EndSession, OrphanEnd, SpawnReply, EndReply, Loop, Returned
  <1> QED BY <1>1, LoopInvariant, PTL DEF Spec, StopKeepsTasksResumable

\* The loop gives up only tasks that cannot run: each has a dependency that ended without
\* being done, whatever the order of the plan and of the promotions and starts.
THEOREM WhatIsGivenUpCannotRun == Spec => GivenUpCannotRun
  <1> DEFINE Dead == \A t \in Tasks : pc = "idle" /\ status'[t] # status[t] =>
                        \E d \in Deps(t) : ~DepOk(status', t, d)
                                             /\ status'[d] \notin {"queued", "ready", "running"}
  <1>1. LoopInv /\ [Next]_vars => [Dead]_vars
    <2> SUFFICES ASSUME LoopInv, [Next]_vars, NEW t \in Tasks, pc = "idle",
                        status'[t] # status[t]
                 PROVE  \E d \in Deps(t) : ~DepOk(status', t, d)
                                             /\ status'[d] \notin {"queued", "ready", "running"}
      OBVIOUS
    <2> USE DEF taskVars
    <2>1. IdleReturn \/ IdleReplan
      <3>1. CASE UNCHANGED status
        BY <3>1
      <3>2. CASE StopCancelled \/ StopTimedOut \/ StopFatal \/ Pass
        BY <3>2 DEF StopCancelled, StopTimedOut, StopFatal, Pass
      <3>3. ASSUME NEW u \in Tasks, Promote(u) \/ Start(u) \/ Handle(u) PROVE FALSE
        BY <3>3 DEF Promote, Start, Handle, Pop, HandleFinished, HandleReview,
           HandleCancelled, HandleApproval, HandleFatal, HandleCrashed, HandleFailed
      <3>4. ASSUME NEW r \in Reviewers, NEW u \in Tasks,
                   Settle(r, u) \/ \E n \in 0..MaxRevisions : Judge(r, u, n)
            PROVE  FALSE
        BY <3>4 DEF Settle, Judge
      <3>5. ASSUME NEW u \in Tasks, AddTask(u) \/ \E a \in MasterActions : Decide(u, a)
            PROVE  FALSE
        BY <3>5 DEF AddTask, Decide, MasterAwaited
      <3> QED
        BY <3>1, <3>2, <3>3, <3>4, <3>5 DEF Next, vars, Cancel, TimeOut, Publish,
           SubmitReview, SessionEnds, EndSession, OrphanEnd, SpawnReply, EndReply, Loop,
           Promoted, StartsEnd, Launch, Look, Wait, IdlePaused, MasterEnd, ExceptionEnd,
           MilestoneEnd, MilestoneRaised, Returned
    <2>2. status' = AfterGiveUp /\ ~paused
      BY <2>1 DEF IdleReturn, IdleReplan
    <2>3. status[t] = "queued" /\ ~DepsReady(status, t)
      BY <2>2 DEF AfterGiveUp, LoopInv, PassInv
    <2>4. PICK d \in Deps(t) : ~DepOk(status, t, d)
      BY <2>3 DEF DepsReady
    <2>5. d \in Tasks
      BY TasksAssumption DEF Deps
    <2>6. status[d] # "running"
      BY <2>5 DEF LoopInv, RunningHasSession, Launching
    <2>7. /\ status'[d] \notin {"queued", "ready", "running"}
          /\ status'[d] = status[d] \/ status'[d] = "blocked"
      BY <2>2, <2>5, <2>6 DEF AfterGiveUp
    <2>8. ~DepOk(status', t, d)
      BY <2>4, <2>7 DEF DepOk, DoneForDependents
    <2> QED BY <2>7, <2>8
  <1> QED BY <1>1, LoopInvariant, PTL DEF Spec, GivenUpCannotRun

-----------------------------------------------------------------------------
(* How many sessions the loop waits for                                    *)

\* While tasks are started, `active` counts at least the sessions in _running.
Counted ==
    /\ WorkerLimit
    /\ pc \in {"start", "launch"} => Cardinality(Running) <= active
    /\ pc = "launch" => active < MaxActiveWorkers

LEMMA RunningFinite == IsFiniteSet(Running) /\ Cardinality(Running) \in Nat
  BY TasksAssumption, FS_Subset, FS_CardinalityType DEF Running

\* Steps that make no session keep the count.
LEMMA CountFrame ==
    ASSUME TypeOK, Counted, Running' \in SUBSET Running,
           pc' \in {"start", "launch"} => pc \in {"start", "launch"} /\ active' = active,
           pc' = "launch" => pc = "launch" \/ active < MaxActiveWorkers
    PROVE  Counted'
  <1>1. /\ IsFiniteSet(Running) /\ Cardinality(Running) \in Nat
        /\ IsFiniteSet(Running')
    BY RunningFinite, FS_Subset
  <1>2. Cardinality(Running') <= Cardinality(Running) /\ Cardinality(Running') \in Nat
    BY <1>1, FS_Subset, FS_CardinalityType
  <1> QED BY <1>1, <1>2, LimitsAssumption DEF Counted, WorkerLimit, TypeOK

LEMMA NextCounted == TypeOK /\ Counted /\ [Next]_vars => Counted'
  <1> SUFFICES ASSUME TypeOK, Counted, [Next]_vars PROVE Counted'
    OBVIOUS
  <1> USE DEF taskVars, sessionVars, loopVars
  <1>1. CASE UNCHANGED <<session, pc, active>>
    <2>1. Running' = Running
      BY <1>1 DEF Running
    <2> QED BY <1>1, <2>1, CountFrame
  <1>2. ASSUME NEW t \in Tasks, SessionEnds(t) PROVE Counted'
    <2>1. Running' = Running
      BY <1>2 DEF SessionEnds, EndSession, Running, TypeOK
    <2> QED BY <1>2, <2>1, CountFrame DEF SessionEnds, EndSession
  <1>3. CASE StopCancelled \/ StopTimedOut \/ StopFatal
    <2>1. Running' = {}
      BY <1>3 DEF StopCancelled, StopTimedOut, StopFatal, CancelAll, DropSession, Running
    <2> QED BY <1>3, <2>1, CountFrame DEF StopCancelled, StopTimedOut, StopFatal, Return
  <1>4. ASSUME NEW t \in Tasks, Handle(t) PROVE Counted'
    <2>1. Running' \in SUBSET Running
      <3>1. CASE HandleReview(t)
        BY <3>1 DEF HandleReview, Running, TypeOK
      <3>2. CASE ~HandleReview(t)
        BY <1>4, <3>2 DEF Handle, Pop, DropSession, HandleFinished, HandleCancelled,
           HandleApproval, HandleFatal, HandleCrashed, HandleFailed, Running
      <3> QED BY <3>1, <3>2
    <2>2. pc' \notin {"start", "launch"}
      BY <1>4 DEF Handle, HandleFinished, HandleReview, HandleCancelled, HandleApproval,
         HandleFatal, HandleCrashed, HandleFailed, GoOn
    <2> QED BY <2>1, <2>2, CountFrame
  <1>5. CASE session' = session /\ pc' \notin {"start", "launch"}
    <2>1. Running' = Running
      BY <1>5 DEF Running
    <2> QED BY <1>5, <2>1, CountFrame
  <1>6. CASE Promoted
    <2>1. session' = session /\ Running' = Running
      BY <1>6 DEF Promoted, Running
    <2>2. CASE pc' = "start"
      <3>1. active' = Cardinality(Running) + replies
        BY <1>6, <2>2 DEF Promoted, AfterStarts
      <3> QED BY <2>1, <2>2, <3>1, RunningFinite DEF Counted, WorkerLimit, TypeOK
    <2>3. CASE pc' # "start"
      BY <1>5, <1>6, <2>1, <2>3 DEF Promoted, AfterStarts
    <2> QED BY <2>2, <2>3
  <1>7. ASSUME NEW t \in Tasks, Start(t) PROVE Counted'
    <2>1. /\ Running' = Running /\ pc = "start" /\ active' = active
          /\ active < MaxActiveWorkers
      BY <1>7 DEF Start, IsNext, Ahead, Startable, Running
    <2> QED BY <2>1, CountFrame
  <1>8. ASSUME NEW t \in Tasks, Launch(t) PROVE Counted'
    <2>1. /\ Running' = Running \cup {t} /\ pc = "launch" /\ pc' = "start"
          /\ active' = active + 1
      BY <1>8 DEF Launch, Launching, Running, TypeOK
    <2>2. /\ IsFiniteSet(Running) /\ Cardinality(Running) \in Nat
      BY RunningFinite
    <2>3. Cardinality(Running') <= Cardinality(Running) + 1 /\ Cardinality(Running') \in Nat
      <3>1. CASE t \in Running
        <4>1. Running' = Running
          BY <2>1, <3>1
        <4> QED BY <2>2, <4>1
      <3>2. CASE t \notin Running
        <4>1. Cardinality(Running \cup {t}) = Cardinality(Running) + 1
          BY <2>2, <3>2, FS_AddElement
        <4>2. Cardinality(Running') = Cardinality(Running \cup {t})
          BY <2>1
        <4> QED BY <2>2, <4>1, <4>2
      <3> QED BY <3>1, <3>2
    <2> QED BY <2>1, <2>2, <2>3, LimitsAssumption DEF Counted, WorkerLimit, TypeOK
  <1>9. CASE StartsEnd
    BY <1>5, <1>9 DEF StartsEnd, AfterStarts
  <1>10. ASSUME NEW r \in Reviewers, NEW t \in Tasks,
                Look(r, t) \/ Settle(r, t) \/ \E n \in 0..MaxRevisions : Judge(r, t, n)
         PROVE  Counted'
    BY <1>5, <1>10 DEF Look, Settle, Judge, NextVerdict
  <1>11. CASE Pass \/ Wait \/ \E t \in Tasks : Promote(t)
    BY <1>5, <1>11 DEF Pass, Wait, Promote
  <1>12. CASE IdlePaused \/ IdleReturn \/ IdleReplan
    BY <1>5, <1>12 DEF IdlePaused, IdleReturn, IdleReplan, Return
  <1>13. CASE MasterEnd
    BY <1>5, <1>13 DEF MasterEnd, ExceptionEnd, MilestoneEnd, MilestoneRaised, Return
  <1> QED
    BY <1>1, <1>2, <1>3, <1>4, <1>6, <1>7, <1>8, <1>9, <1>10, <1>11, <1>12, <1>13
    DEF Next, vars, Cancel, TimeOut, Publish, SubmitReview, OrphanEnd, SpawnReply, EndReply,
        Loop, Decide, AddTask, Returned

\* The loop never waits for more sessions than max_active_workers allows, for
\* every plan and whatever the Master, the user and the sessions do.
THEOREM WorkerLimitHolds == Spec => []WorkerLimit
  <1>1. Init => Counted
    <2> SUFFICES ASSUME Init PROVE Counted
      OBVIOUS
    <2>1. Running = {} /\ pc = "top"
      BY DEF Init, Running
    <2> QED BY <2>1, FS_EmptySet, LimitsAssumption DEF Counted, WorkerLimit
  <1>2. Counted => WorkerLimit
    BY DEF Counted
  <1> QED BY <1>1, <1>2, NextCounted, TypeCorrect, PTL DEF Spec

-----------------------------------------------------------------------------
(* The review loop of a run in which the Master does not intervene (the    *)
(* document workflow, or no enabled Master) and no task has two reviewers: *)
(* the artifacts under review hold still, no task has two sessions, a      *)
(* verdict is applied to the revision it judged, a revision is told the    *)
(* findings, and a completed run delivers only work that passed review.    *)

\* ReviewLoopInv without LoopInv, which NextLoopInv preserves, and without
\* FindingsWait, which NextInforms does.
Loops == SessionInv /\ ReviewInProgress /\ LookedUp /\ ReviewConcluded /\ CompletedIsAccepted

\* The loop applies no verdicts.
NotApplying == pc \notin {"review", "judge", "settle"}

\* A target is not a review task.
LEMMA TargetsAreProducers ==
    ASSUME NEW r \in Reviewers
    PROVE  r \in Tasks /\ Deps(r) \subseteq Tasks \ Reviewers
  BY TasksAssumption DEF Deps

\* Only one review's verdicts are applied at a time, and only one task is launched.
LEMMA OneAtATime ==
    ASSUME NEW t \in Tasks, NEW u \in Tasks
    PROVE  /\ Applying(t) /\ Applying(u) => t = u
           /\ Launching(t) /\ Launching(u) => t = u
           /\ Applying(t) \/ Launching(t) => cursor # 0
  BY TasksAssumption DEF Applying, Launching

\* A target of a review in progress, or of an accepted review, has no session.
LEMMA TargetsHaveNoSession ==
    ASSUME ReviewLoopInv, NEW r \in Reviewers, NEW t \in Deps(r),
           status[r] \in {"ready", "running", "accepted"} \/ verdicts[r][t] # NoReview
    PROVE  /\ session[t] = "none" /\ status[t] # "running"
           /\ pc # "settle" => status[t] \notin {"queued", "ready"}
  <1>1. t \in Tasks /\ r \in Tasks
    BY TargetsAreProducers
  <1>2. CASE status[r] \in {"ready", "running"} \/ verdicts[r][t] # NoReview
    BY <1>1, <1>2 DEF ReviewLoopInv, SessionInv, ReviewInProgress
  <1>3. CASE status[r] = "accepted" /\ verdicts[r][t] = NoReview
    <2>1. t \notin Judged(r)
      BY <1>3 DEF Judged
    <2>2. CASE \E x \in look : x[1] = t
      <3>1. PICK x \in look : x[1] = t
        BY <2>2
      <3>2. CASE Applying(r)
        <4>1. pc = "settle"
          BY <2>1, <3>1, <3>2 DEF ReviewLoopInv, LoopInv, LookInv, LookedUp
        <4>2. status[t] \in {"queued", "partial"}
          BY <3>1, <4>1 DEF ReviewLoopInv, LoopInv, LookInv
        <4> QED BY <1>1, <4>1, <4>2 DEF ReviewLoopInv, SessionInv
      <3>3. CASE ~Applying(r)
        BY <1>1, <1>3, <2>1, <3>3 DEF ReviewLoopInv, SessionInv, ReviewConcluded
      <3> QED BY <3>2, <3>3
    <2>3. CASE ~\E x \in look : x[1] = t
      BY <1>1, <1>3, <2>1, <2>3 DEF ReviewLoopInv, SessionInv, ReviewConcluded
    <2> QED BY <2>2, <2>3
  <1> QED BY <1>2, <1>3

\* Steps that touch none of the variables the invariant is about.
LEMMA FrameKeeps ==
    ASSUME ReviewLoopInv,
           UNCHANGED <<taskVars, rev, sessionVars, orphans, pc, loopVars, batch, result>>
    PROVE  Loops'
  <1> USE DEF taskVars, sessionVars, loopVars
  <1>1. SessionInv'
    BY DEF ReviewLoopInv, SessionInv, Launching, Applying
  <1>2. ReviewInProgress' /\ LookedUp' /\ ReviewConcluded'
    BY DEF ReviewLoopInv, ReviewInProgress, LookedUp, ReviewConcluded, Applying, Judged
  <1>3. CompletedIsAccepted'
    BY DEF ReviewLoopInv, CompletedIsAccepted, Exists
  <1> QED BY <1>1, <1>2, <1>3 DEF Loops

-----------------------------------------------------------------------------
(* Sessions                                                                *)

\* Only a running producer publishes, and none of those is being reviewed.
LEMMA PublishKeeps ==
    ASSUME ReviewLoopInv, NEW p \in Tasks, Publish(p)
    PROVE  Loops'
  <1> USE DEF taskVars, sessionVars, loopVars
  <1>1. session[p] # "none"
    BY DEF Publish, ReviewLoopInv, SessionInv, LoopInv, TypeOK
  <1>2. SessionInv' /\ CompletedIsAccepted'
    BY DEF Publish, ReviewLoopInv, SessionInv, CompletedIsAccepted, Exists, Launching, Applying
  <1>3. \A r \in Reviewers : \A t \in Deps(r) :
          status[r] \in {"ready", "running", "accepted"} \/ verdicts[r][t] # NoReview
            => rev'[t] = rev[t]
    <2> SUFFICES ASSUME NEW r \in Reviewers, NEW t \in Deps(r),
                        status[r] \in {"ready", "running", "accepted"}
                          \/ verdicts[r][t] # NoReview
                 PROVE  rev'[t] = rev[t]
      OBVIOUS
    <2>1. t # p /\ t \in Tasks
      BY <1>1, TargetsHaveNoSession, TargetsAreProducers
    <2> QED BY <2>1 DEF Publish, ReviewLoopInv, LoopInv, TypeOK
  <1>4. ReviewInProgress' /\ ReviewConcluded' /\ LookedUp'
    <2>1. UNCHANGED <<status, review, verdicts, session, outcome, pc, cursor, look>>
      BY DEF Publish
    <2>2. ReviewInProgress'
      BY <1>3, <2>1 DEF ReviewLoopInv, ReviewInProgress, Applying, Judged
    <2>3. LookedUp'
      BY <1>3, <2>1 DEF ReviewLoopInv, LookedUp, Applying, Judged
    <2>4. ReviewConcluded'
      BY <1>3, <2>1 DEF ReviewLoopInv, ReviewConcluded, Applying, Judged
    <2> QED BY <2>2, <2>3, <2>4
  <1> QED BY <1>2, <1>4 DEF Loops

\* A verdict covers the revision that is current when it is submitted.
LEMMA SubmitKeeps ==
    ASSUME ReviewLoopInv, NEW q \in Tasks, NEW u \in Tasks, NEW v \in Verdicts,
           SubmitReview(q, u, v)
    PROVE  Loops'
  <1> USE DEF taskVars, loopVars
  <1>1. SessionInv' /\ CompletedIsAccepted'
    BY DEF SubmitReview, ReviewLoopInv, SessionInv, CompletedIsAccepted, Exists, Launching,
       Applying
  <1>2. /\ q \in Reviewers /\ u \in Deps(q) /\ session[q] = "live" /\ status[q] = "running"
        /\ UNCHANGED <<status, review, rev, session, outcome, pc, cursor, look>>
    BY DEF SubmitReview, ReviewLoopInv, SessionInv
  <1>3. /\ verdicts'[q][u] = [rev |-> rev[u], verdict |-> v]
        /\ verdicts'[q][u] # NoReview /\ verdicts'[q][u].rev = rev[u]
        /\ \A r, t \in Tasks : r # q \/ t # u => verdicts'[r][t] = verdicts[r][t]
    BY DEF SubmitReview, ReviewLoopInv, LoopInv, TypeOK, Verdicts, NoReview
  <1>4. ~Applying(q)
    BY <1>2 DEF ReviewLoopInv, SessionInv
  <1>5. \A r \in Reviewers : r # q => Judged(r)' = Judged(r)
    BY <1>3, TargetsAreProducers DEF Judged
  <1>6. \A r \in Reviewers : Judged(r) \subseteq Judged(r)'
    BY <1>3, TargetsAreProducers DEF Judged
  <1>7. ReviewInProgress'
    <2>1. status[u] \in {"review_pending", "accepted"}
      BY <1>2 DEF ReviewLoopInv, ReviewInProgress
    <2>2. \A r \in Reviewers, t \in Tasks :
            t \in Deps(r) /\ status'[r] \in {"ready", "running"} =>
              /\ status'[t] \in {"review_pending", "accepted"}
              /\ outcome'[r] = "finished" => t \in Judged(r)'
      BY <1>2, <1>6 DEF ReviewLoopInv, ReviewInProgress
    <2>3. \A r, t \in Tasks : verdicts'[r][t] # NoReview =>
            /\ r \in Reviewers /\ t \in Deps(r) /\ (session'[r] # "none" \/ Applying(r)')
            /\ verdicts'[r][t].rev = rev'[t]
            /\ status'[t] \in {"review_pending", "accepted"}
      <3> SUFFICES ASSUME NEW r \in Tasks, NEW t \in Tasks, verdicts'[r][t] # NoReview
                   PROVE  /\ r \in Reviewers /\ t \in Deps(r)
                          /\ session[r] # "none" \/ Applying(r)
                          /\ verdicts'[r][t].rev = rev[t]
                          /\ status[t] \in {"review_pending", "accepted"}
        BY <1>2 DEF Applying
      <3>1. CASE r = q /\ t = u
        BY <1>2, <1>3, <2>1, <3>1
      <3>2. CASE r # q \/ t # u
        BY <1>3, <3>2 DEF ReviewLoopInv, ReviewInProgress
      <3> QED BY <3>1, <3>2
    <2> QED BY <2>2, <2>3 DEF ReviewInProgress
  <1>8. LookedUp'
    BY <1>2, <1>4, <1>5 DEF ReviewLoopInv, LookedUp, Applying
  <1>9. ReviewConcluded'
    BY <1>2, <1>6 DEF ReviewLoopInv, ReviewConcluded, Applying
  <1> QED BY <1>1, <1>7, <1>8, <1>9 DEF Loops

\* A review session finishes only with a verdict on every target.
LEMMA EndSessionKeeps ==
    ASSUME ReviewLoopInv, NEW p \in Tasks, SessionEnds(p)
    PROVE  Loops'
  <1> USE DEF taskVars, loopVars
  <1>1. PICK o \in SessionOutcomes : EndSession(p, o)
    BY DEF SessionEnds
  <1>2. SessionInv' /\ CompletedIsAccepted'
    BY <1>1 DEF EndSession, ReviewLoopInv, SessionInv, CompletedIsAccepted, Exists,
       LoopInv, TypeOK, Launching, Applying
  <1>3. /\ UNCHANGED <<status, review, rev, verdicts, pc, cursor, look>>
        /\ session' = [session EXCEPT ![p] = "done"]
        /\ outcome' = [outcome EXCEPT ![p] = o]
        /\ o = "finished" => MayFinish(p)
    BY <1>1 DEF EndSession
  <1>4. \A r \in Reviewers : Judged(r)' = Judged(r) /\ Applying(r)' = Applying(r)
    BY <1>3 DEF Judged, Applying
  <1>5. \A t \in Tasks : session[t] # "none" => session'[t] # "none"
    BY <1>3 DEF ReviewLoopInv, LoopInv, TypeOK
  <1>6. p \in Reviewers /\ o = "finished" => Judged(p) = Deps(p)
    BY <1>3 DEF MayFinish, Judged
  <1>7. ReviewInProgress'
    <2>1. \A r \in Reviewers, t \in Tasks :
            t \in Deps(r) /\ status'[r] \in {"ready", "running"} =>
              /\ status'[t] \in {"review_pending", "accepted"}
              /\ outcome'[r] = "finished" => t \in Judged(r)'
      BY <1>3, <1>4, <1>6, TargetsAreProducers
      DEF ReviewLoopInv, ReviewInProgress, LoopInv, TypeOK
    <2>2. \A r, t \in Tasks : verdicts'[r][t] # NoReview =>
            /\ r \in Reviewers /\ t \in Deps(r) /\ (session'[r] # "none" \/ Applying(r)')
            /\ verdicts'[r][t].rev = rev'[t]
            /\ status'[t] \in {"review_pending", "accepted"}
      BY <1>3, <1>4, <1>5 DEF ReviewLoopInv, ReviewInProgress
    <2> QED BY <2>1, <2>2 DEF ReviewInProgress
  <1>8. LookedUp' /\ ReviewConcluded'
    BY <1>3, <1>4 DEF ReviewLoopInv, LookedUp, ReviewConcluded
  <1> QED BY <1>2, <1>7, <1>8 DEF Loops

-----------------------------------------------------------------------------
(* A pass                                                                  *)

\* Outside the application of verdicts, only a session's context has verdicts.
LEMMA VerdictsOfSessions ==
    ASSUME ReviewLoopInv, NotApplying
    PROVE  /\ \A r, t \in Tasks : verdicts[r][t] # NoReview =>
                 /\ r \in Reviewers /\ t \in Deps(r)
                 /\ session[r] # "none" /\ status[r] = "running"
                 /\ status[t] \in {"review_pending", "accepted"}
           /\ look = {}
           /\ \A r \in Tasks : ~Applying(r)
           /\ \A r \in Reviewers : status[r] = "accepted" =>
                 \A t \in Deps(r) :
                   \/ status[t] = "partial"
                   \/ status[t] = "accepted" /\ review[t] = [rev |-> rev[t], verdict |-> "pass"]
  BY DEF ReviewLoopInv, ReviewInProgress, ReviewConcluded, SessionInv, LoopInv, LookInv,
     NotApplying, Applying

\* A run reported completed has only accepted tasks.
LEMMA FinalStatusCompleted ==
    ASSUME NEW s, FinalStatus(s) = "completed"
    PROVE  \A t \in Exists(s) : s[t] = "accepted"
  BY DEF FinalStatus

\* Steps that leave sessions and artifacts alone, while no verdicts are applied: the
\* targets of reviews in progress and of accepted reviews keep their status.
LEMMA StatusStepKeeps ==
    ASSUME ReviewLoopInv, NotApplying, NotApplying', look' = {},
           UNCHANGED <<review, rev, session, outcome, verdicts>>,
           \A r \in Reviewers : status'[r] \in {"ready", "running"} =>
              /\ status[r] \in {"ready", "running"} \/ session[r] = "none"
              /\ \A t \in Deps(r) : status'[t] \in {"review_pending", "accepted"},
           \A t \in Tasks : /\ status[t] = "running" => status'[t] = "running"
                            /\ status[t] \in {"partial", "accepted"} => status'[t] = status[t]
                            /\ status'[t] = "accepted" => status[t] = "accepted"
    PROVE  ReviewInProgress' /\ LookedUp' /\ ReviewConcluded'
  <1>1. \A r \in Reviewers : Judged(r)' = Judged(r)
    BY DEF Judged
  <1>2. \A r \in Reviewers, t \in Tasks : t \in Deps(r) /\ outcome[r] = "finished"
           /\ status'[r] \in {"ready", "running"} => t \in Judged(r)
    <2> SUFFICES ASSUME NEW r \in Reviewers, NEW t \in Deps(r), outcome[r] = "finished",
                        status'[r] \in {"ready", "running"}
                 PROVE  t \in Judged(r)
      OBVIOUS
    <2>1. r \in Tasks /\ t \in Tasks
      BY TargetsAreProducers
    <2>2. session[r] # "none"
      BY <2>1 DEF ReviewLoopInv, SessionInv
    <2> QED BY <2>1, <2>2 DEF ReviewLoopInv, ReviewInProgress
  <1>3. ReviewInProgress'
    <2>1. \A r, t \in Tasks : verdicts'[r][t] # NoReview =>
            /\ r \in Reviewers /\ t \in Deps(r) /\ (session'[r] # "none" \/ Applying(r)')
            /\ verdicts'[r][t].rev = rev'[t]
            /\ status'[t] \in {"review_pending", "accepted"}
      <3> SUFFICES ASSUME NEW r \in Tasks, NEW t \in Tasks, verdicts[r][t] # NoReview
                   PROVE  /\ r \in Reviewers /\ t \in Deps(r) /\ session[r] # "none"
                          /\ verdicts[r][t].rev = rev[t]
                          /\ status'[t] \in {"review_pending", "accepted"}
        OBVIOUS
      <3>1. r \in Reviewers /\ t \in Deps(r) /\ session[r] # "none" /\ status[r] = "running"
        BY VerdictsOfSessions
      <3>2. status'[t] \in {"review_pending", "accepted"}
        BY <3>1
      <3> QED BY <3>1, <3>2 DEF ReviewLoopInv, ReviewInProgress
    <2> QED BY <1>1, <1>2, <2>1 DEF ReviewInProgress
  <1>4. ReviewConcluded'
    <2> SUFFICES ASSUME NEW r \in Reviewers, status'[r] = "accepted", NEW t \in Deps(r)
                 PROVE  \/ status'[t] = "partial"
                        \/ /\ status'[t] = "accepted"
                           /\ review'[t] = [rev |-> rev'[t], verdict |-> "pass"]
      BY DEF ReviewConcluded
    <2>1. r \in Tasks /\ t \in Tasks
      BY TargetsAreProducers
    <2> QED BY <2>1, VerdictsOfSessions
  <1> QED BY <1>3, <1>4 DEF LookedUp

\* A pass begins: what is given up as partial is in nobody's review.
LEMMA PassKeeps ==
    ASSUME ReviewLoopInv, Pass
    PROVE  Loops'
  <1>1. /\ pc = "top" /\ pc' = "promote" /\ status' = AfterAbandoned
        /\ UNCHANGED <<review, rev, session, outcome, verdicts, orphans, look, batch, result>>
    BY DEF Pass, sessionVars, loopVars
  <1>2. NotApplying /\ NotApplying'
    BY <1>1 DEF NotApplying
  <1>3. look' = {}
    BY <1>1, <1>2, VerdictsOfSessions
  <1>4. \A t \in Tasks : status'[t] # status[t] =>
           status[t] = "review_pending" /\ status'[t] = "partial" /\ Abandoned(t)
    BY <1>1 DEF AfterAbandoned, Abandoned
  <1>5. ASSUME NEW r \in Reviewers, status[r] \in {"ready", "running"}, NEW t \in Deps(r)
        PROVE  status'[t] \in {"review_pending", "accepted"}
    <2>1. r \in Tasks /\ t \in Tasks
      BY TargetsAreProducers
    <2>2. status[t] \in {"review_pending", "accepted"}
      BY <1>5, <2>1 DEF ReviewLoopInv, ReviewInProgress
    <2>3. r \in PendingReviewTasks(status, t)
      BY <1>5 DEF PendingReviewTasks, ReviewTasksFor, TerminalTaskStates
    <2>4. ~Abandoned(t)
      BY <2>3 DEF Abandoned
    <2> QED BY <1>4, <2>1, <2>2, <2>4
  <1>6. ReviewInProgress' /\ LookedUp' /\ ReviewConcluded'
    <2>1. \A r \in Reviewers : status'[r] \in {"ready", "running"} =>
              /\ status[r] \in {"ready", "running"} \/ session[r] = "none"
              /\ \A t \in Deps(r) : status'[t] \in {"review_pending", "accepted"}
      BY <1>4, <1>5, TargetsAreProducers
    <2>2. \A t \in Tasks : /\ status[t] = "running" => status'[t] = "running"
                           /\ status[t] \in {"partial", "accepted"} => status'[t] = status[t]
                           /\ status'[t] = "accepted" => status[t] = "accepted"
      BY <1>4
    <2> QED BY <1>1, <1>2, <1>3, <2>1, <2>2, StatusStepKeeps
  <1>7. SessionInv'
    BY <1>1, <1>4 DEF ReviewLoopInv, SessionInv, Launching, Applying
  <1>8. CompletedIsAccepted'
    BY <1>1 DEF ReviewLoopInv, SessionInv, CompletedIsAccepted
  <1> QED BY <1>6, <1>7, <1>8 DEF Loops

\* A review that becomes ready has targets that wait for it or are accepted.
LEMMA PromoteKeeps ==
    ASSUME ReviewLoopInv, NEW p \in Tasks, Promote(p)
    PROVE  Loops'
  <1>1. /\ pc = "promote" /\ pc' = "promote" /\ Promotable(p)
        /\ UNCHANGED <<review, rev, session, outcome, verdicts, orphans, look, batch, result>>
    BY DEF Promote, IsNext, Ahead, sessionVars
  <1>2. /\ status[p] = "queued" /\ status'[p] \in {"ready", "cancelled"}
        /\ status'[p] = "ready" => DepsReady(status, p)
        /\ \A t \in Tasks \ {p} : status'[t] = status[t]
    BY <1>1 DEF Promote, Promotable, ReviewLoopInv, LoopInv, TypeOK
  <1>3. NotApplying /\ NotApplying' /\ look' = {}
    BY <1>1, VerdictsOfSessions DEF NotApplying
  <1>4. session[p] = "none"
    BY <1>2 DEF ReviewLoopInv, SessionInv
  <1>5. ASSUME NEW r \in Reviewers, status'[r] \in {"ready", "running"}, NEW t \in Deps(r)
        PROVE  status'[t] \in {"review_pending", "accepted"}
    <2>1. r \in Tasks /\ t \in Tasks
      BY TargetsAreProducers
    <2>2. CASE r = p
      <3>1. DepOk(status, r, t)
        BY <1>2, <1>5, <2>2 DEF DepsReady
      <3> QED BY <1>2, <2>1, <3>1 DEF DepOk
    <2>3. CASE r # p
      BY <1>2, <1>5, <2>1, <2>3 DEF ReviewLoopInv, ReviewInProgress
    <2> QED BY <2>2, <2>3
  <1>6. ReviewInProgress' /\ LookedUp' /\ ReviewConcluded'
    <2>1. \A r \in Reviewers : status'[r] \in {"ready", "running"} =>
              /\ status[r] \in {"ready", "running"} \/ session[r] = "none"
              /\ \A t \in Deps(r) : status'[t] \in {"review_pending", "accepted"}
      BY <1>2, <1>4, <1>5, TargetsAreProducers
    <2>2. \A t \in Tasks : /\ status[t] = "running" => status'[t] = "running"
                           /\ status[t] \in {"partial", "accepted"} => status'[t] = status[t]
                           /\ status'[t] = "accepted" => status[t] = "accepted"
      BY <1>2
    <2> QED BY <1>1, <1>3, <2>1, <2>2, StatusStepKeeps
  <1>7. SessionInv'
    BY <1>1, <1>2 DEF ReviewLoopInv, SessionInv, Launching, Applying
  <1>8. CompletedIsAccepted'
    BY <1>1 DEF ReviewLoopInv, SessionInv, CompletedIsAccepted
  <1> QED BY <1>6, <1>7, <1>8 DEF Loops

LEMMA StartKeeps ==
    ASSUME ReviewLoopInv, NEW p \in Tasks, Start(p)
    PROVE  Loops'
  <1>1. /\ pc = "start" /\ pc' = "launch" /\ cursor' = PlanOrder[p]
        /\ UNCHANGED <<review, rev, session, outcome, verdicts, orphans, look, batch, result>>
    BY DEF Start, sessionVars
  <1>2. /\ status[p] = "ready" /\ status'[p] = "running"
        /\ \A t \in Tasks \ {p} : status'[t] = status[t]
    BY DEF Start, IsNext, Ahead, Startable, ReviewLoopInv, LoopInv, TypeOK
  <1>3. NotApplying /\ NotApplying' /\ look' = {}
    BY <1>1, VerdictsOfSessions DEF NotApplying
  <1>4. ReviewInProgress' /\ LookedUp' /\ ReviewConcluded'
    <2>1. \A r \in Reviewers : status'[r] \in {"ready", "running"} =>
              /\ status[r] \in {"ready", "running"} \/ session[r] = "none"
              /\ \A t \in Deps(r) : status'[t] \in {"review_pending", "accepted"}
      BY <1>2, TargetsAreProducers DEF ReviewLoopInv, ReviewInProgress
    <2>2. \A t \in Tasks : /\ status[t] = "running" => status'[t] = "running"
                           /\ status[t] \in {"partial", "accepted"} => status'[t] = status[t]
                           /\ status'[t] = "accepted" => status[t] = "accepted"
      BY <1>2
    <2> QED BY <1>1, <1>3, <2>1, <2>2, StatusStepKeeps
  <1>5. SessionInv'
    <2>1. \A t \in Tasks : Launching(t)' <=> t = p
      BY <1>1, OneTaskAtAPlace DEF Launching
    <2>2. \A t \in Tasks : ~Launching(t) /\ ~Applying(t)'
      BY <1>1 DEF Launching, Applying
    <2>3. \A t \in Tasks : session'[t] # "none" <=> status'[t] = "running" /\ ~Launching(t)'
      BY <1>1, <1>2, <2>1, <2>2 DEF ReviewLoopInv, SessionInv
    <2> QED BY <1>1, <1>2, <2>1, <2>2, <2>3, TargetsAreProducers DEF ReviewLoopInv, SessionInv
  <1>6. CompletedIsAccepted'
    BY <1>1 DEF ReviewLoopInv, SessionInv, CompletedIsAccepted
  <1> QED BY <1>4, <1>5, <1>6 DEF Loops

LEMMA LaunchKeeps ==
    ASSUME ReviewLoopInv, NEW p \in Tasks, Launch(p)
    PROVE  Loops'
  <1>1. /\ pc = "launch" /\ Launching(p) /\ pc' = "start"
        /\ UNCHANGED <<status, review, rev, look, batch, result>>
    BY DEF Launch, Launching
  <1>2. session[p] = "none" /\ status[p] = "running" /\ orphans[p] = 0
    BY <1>1 DEF ReviewLoopInv, SessionInv
  <1>3. /\ session'[p] = "live" /\ outcome'[p] = "none" /\ verdicts'[p] = NoVerdicts
        /\ \A t \in Tasks \ {p} : /\ session'[t] = session[t] /\ outcome'[t] = outcome[t]
                                  /\ verdicts'[t] = verdicts[t]
        /\ \A t \in Tasks : orphans'[t] = orphans[t]
    BY <1>2 DEF Launch, ReviewLoopInv, LoopInv, TypeOK
  <1>4. NotApplying /\ \A t \in Tasks : ~Applying(t)' /\ ~Launching(t)'
    BY <1>1 DEF NotApplying, Applying, Launching
  <1>5. SessionInv'
    <2>1. \A t \in Tasks : session'[t] # "none" <=> status'[t] = "running" /\ ~Launching(t)'
      BY <1>1, <1>2, <1>3, <1>4, OneAtATime DEF ReviewLoopInv, SessionInv
    <2>2. batch = {}
      BY <1>1 DEF ReviewLoopInv, SessionInv
    <2> QED
      BY <1>1, <1>3, <1>4, <2>1, <2>2, TargetsAreProducers DEF ReviewLoopInv, SessionInv
  <1>6. ReviewInProgress'
    <2>1. \A r \in Reviewers, t \in Tasks :
            t \in Deps(r) /\ status'[r] \in {"ready", "running"} =>
              /\ status'[t] \in {"review_pending", "accepted"}
              /\ outcome'[r] = "finished" => t \in Judged(r)'
      BY <1>1, <1>3, TargetsAreProducers DEF ReviewLoopInv, ReviewInProgress, Judged
    <2>2. \A r, t \in Tasks : verdicts'[r][t] # NoReview =>
            /\ r \in Reviewers /\ t \in Deps(r) /\ (session'[r] # "none" \/ Applying(r)')
            /\ verdicts'[r][t].rev = rev'[t]
            /\ status'[t] \in {"review_pending", "accepted"}
      <3> SUFFICES ASSUME NEW r \in Tasks, NEW t \in Tasks, verdicts'[r][t] # NoReview
                   PROVE  /\ r \in Reviewers /\ t \in Deps(r) /\ session'[r] # "none"
                          /\ verdicts'[r][t].rev = rev[t]
                          /\ status[t] \in {"review_pending", "accepted"}
        BY <1>1
      <3>1. r # p
        BY <1>3 DEF NoVerdicts
      <3> QED BY <1>3, <1>4, <3>1, VerdictsOfSessions DEF ReviewLoopInv, ReviewInProgress
    <2> QED BY <2>1, <2>2 DEF ReviewInProgress
  <1>7. LookedUp'
    BY <1>4, TargetsAreProducers DEF LookedUp
  <1>8. ReviewConcluded'
    BY <1>1, <1>4, VerdictsOfSessions DEF ReviewConcluded
  <1>9. CompletedIsAccepted'
    BY <1>1 DEF ReviewLoopInv, SessionInv, CompletedIsAccepted
  <1> QED BY <1>5, <1>6, <1>7, <1>8, <1>9 DEF Loops

\* Steps between the parts of a pass.
LEMMA BetweenKeeps ==
    ASSUME ReviewLoopInv, pc \in {"promote", "start", "wait"},
           pc' \in {"start", "idle", "wait", "top", "handle"},
           batch' # {} => pc' = "handle", \A t \in batch' : session[t] = "done",
           UNCHANGED <<taskVars, rev, sessionVars, orphans, look, result>>
    PROVE  Loops'
  <1> USE DEF taskVars, sessionVars
  <1>1. NotApplying /\ NotApplying'
        /\ \A t \in Tasks : ~Launching(t) /\ ~Launching(t)' /\ ~Applying(t)'
    BY DEF NotApplying, Launching, Applying
  <1>2. SessionInv'
    BY <1>1, TargetsAreProducers DEF ReviewLoopInv, SessionInv
  <1>3. ReviewInProgress' /\ LookedUp' /\ ReviewConcluded'
    BY <1>1, VerdictsOfSessions, StatusStepKeeps, TargetsAreProducers
    DEF ReviewLoopInv, ReviewInProgress
  <1>4. CompletedIsAccepted'
    BY DEF ReviewLoopInv, CompletedIsAccepted, Exists
  <1> QED BY <1>2, <1>3, <1>4 DEF Loops

\* Out of work: the tasks that are given up are in nobody's review.
LEMMA IdleKeeps ==
    ASSUME ReviewLoopInv, IdlePaused \/ IdleReturn
    PROVE  Loops'
  <1>1. /\ pc = "idle" /\ pc' = "returned" /\ result' # "none"
        /\ UNCHANGED <<review, rev, session, outcome, verdicts, orphans, look, batch>>
        /\ result' = "completed" => status' = AfterGiveUp /\ result' = FinalStatus(AfterGiveUp)
    <2>1. CASE IdlePaused
      BY <2>1 DEF IdlePaused, Return, taskVars, sessionVars, loopVars
    <2>2. CASE IdleReturn
      <3>1. FinalStatus(AfterGiveUp) # "none"
        BY FinalStatusType
      <3> QED BY <2>2, <3>1 DEF IdleReturn, Return, sessionVars, loopVars
    <2> QED BY <2>1, <2>2
  <1>2. \A t \in Tasks : \/ status'[t] = status[t]
                         \/ status[t] \in {"queued", "ready"} /\ status'[t] = "blocked"
    BY DEF IdlePaused, IdleReturn, AfterGiveUp, taskVars
  <1>3. /\ NotApplying /\ NotApplying' /\ look' = {}
        /\ \A t \in Tasks : ~Launching(t) /\ ~Launching(t)' /\ ~Applying(t)'
    BY <1>1, VerdictsOfSessions DEF NotApplying, Launching, Applying
  <1>4. ReviewInProgress' /\ LookedUp' /\ ReviewConcluded'
    <2>1. \A r \in Reviewers : status'[r] \in {"ready", "running"} =>
              /\ status[r] \in {"ready", "running"} \/ session[r] = "none"
              /\ \A t \in Deps(r) : status'[t] \in {"review_pending", "accepted"}
      BY <1>2, TargetsAreProducers DEF ReviewLoopInv, ReviewInProgress
    <2>2. \A t \in Tasks : /\ status[t] = "running" => status'[t] = "running"
                           /\ status[t] \in {"partial", "accepted"} => status'[t] = status[t]
                           /\ status'[t] = "accepted" => status[t] = "accepted"
      BY <1>2
    <2> QED BY <1>1, <1>3, <2>1, <2>2, StatusStepKeeps
  <1>5. SessionInv'
    BY <1>1, <1>2, <1>3, TargetsAreProducers DEF ReviewLoopInv, SessionInv
  <1>6. CompletedIsAccepted'
    BY <1>1, FinalStatusCompleted DEF CompletedIsAccepted
  <1> QED BY <1>4, <1>5, <1>6 DEF Loops

LEMMA CancelAllKeeps ==
    ASSUME ReviewLoopInv, pc = "top", CancelAll, NEW r \in RunStatuses \ {"none"}, Return(r),
           r = "completed" => r = FinalStatus(AfterCancelAll)
    PROVE  Loops'
  <1>1. NotApplying /\ pc' = "returned"
        /\ \A t \in Tasks : ~Launching(t) /\ ~Launching(t)' /\ ~Applying(t)'
    BY DEF NotApplying, Launching, Applying, Return
  <1>2. /\ \A t \in Tasks : /\ session'[t] = "none"
                            /\ outcome'[t] = "none"
                            /\ verdicts'[t] = NoVerdicts
                            /\ status'[t] # "running"
                            /\ status[t] # "running" => status'[t] = status[t]
                            /\ status[t] = "running" => status'[t] = "interrupted"
        /\ UNCHANGED <<review, rev, orphans, batch, look>>
    BY <1>1 DEF CancelAll, AfterCancelAll, DropSession, ReviewLoopInv, SessionInv, Running,
       loopVars
  <1>3. SessionInv'
    BY <1>1, <1>2, TargetsAreProducers DEF ReviewLoopInv, SessionInv, Return
  <1>4. ReviewInProgress'
    BY <1>2, TargetsAreProducers DEF ReviewLoopInv, ReviewInProgress, NoVerdicts
  <1>5. LookedUp'
    BY <1>1, TargetsAreProducers DEF LookedUp
  <1>6. ReviewConcluded'
    BY <1>1, <1>2, VerdictsOfSessions, TargetsAreProducers DEF ReviewConcluded
  <1>7. CompletedIsAccepted'
    <2>1. CASE r = "completed"
      BY <2>1, FinalStatusCompleted DEF CompletedIsAccepted, CancelAll, Exists
    <2>2. CASE r # "completed"
      BY <2>2 DEF Return, CompletedIsAccepted
    <2> QED BY <2>1, <2>2
  <1> QED BY <1>3, <1>4, <1>5, <1>6, <1>7 DEF Loops

-----------------------------------------------------------------------------
(* Handling a finished future                                              *)

\* What Pop does, given that only done sessions are in the batch.
LEMMA PopSessions ==
    ASSUME ReviewLoopInv, NEW p \in Tasks, Pop(p), GoOn
    PROVE  /\ session[p] = "done" /\ status[p] = "running" /\ session'[p] = "none"
           /\ outcome'[p] = "none" /\ verdicts'[p] = NoVerdicts
           /\ \A t \in Tasks \ {p} : /\ session'[t] = session[t]
                                     /\ outcome'[t] = outcome[t]
                                     /\ verdicts'[t] = verdicts[t]
           /\ UNCHANGED <<rev, orphans, result, cursor, look>>
           /\ pc = "handle" /\ result = "none" /\ batch' = batch \ {p}
           /\ pc' = IF batch' = {} THEN "top" ELSE "handle"
           /\ NotApplying /\ \A t \in Tasks : ~Launching(t) /\ ~Launching(t)' /\ ~Applying(t)'
  BY DEF Pop, GoOn, DropSession, ReviewLoopInv, LoopInv, TypeOK, SessionInv, loopVars,
     NotApplying, Launching, Applying

\* A session that ends in any way but a finished review changes the status of
\* its own task only, and that task is in nobody's review.
LEMMA HandleOwnKeeps ==
    ASSUME ReviewLoopInv, NEW p \in Tasks, Pop(p), GoOn, review' = review,
           NEW x \in {"accepted", "review_pending", "interrupted", "cancelled",
                      "approval_required", "failed", "blocked"},
           status' = [status EXCEPT ![p] = x], p \in Reviewers => x # "accepted"
    PROVE  Loops'
  <1>1. /\ status'[p] = x
        /\ \A t \in Tasks \ {p} : status'[t] = status[t]
    BY DEF ReviewLoopInv, LoopInv, TypeOK
  <1>2. /\ session[p] = "done" /\ status[p] = "running" /\ session'[p] = "none"
        /\ outcome'[p] = "none" /\ verdicts'[p] = NoVerdicts
        /\ \A t \in Tasks \ {p} : /\ session'[t] = session[t]
                                  /\ outcome'[t] = outcome[t]
                                  /\ verdicts'[t] = verdicts[t]
        /\ UNCHANGED <<rev, orphans, result, cursor, look>>
        /\ pc = "handle" /\ result = "none" /\ batch' = batch \ {p}
        /\ pc' = IF batch' = {} THEN "top" ELSE "handle"
        /\ NotApplying /\ \A t \in Tasks : ~Launching(t) /\ ~Launching(t)' /\ ~Applying(t)'
    BY PopSessions
  <1>3. SessionInv'
    <2>1. batch \subseteq Tasks
      BY DEF ReviewLoopInv, LoopInv, TypeOK
    <2> QED BY <1>1, <1>2, <2>1, TargetsAreProducers DEF ReviewLoopInv, SessionInv
  <1>4. \A r \in Reviewers : status'[r] \in {"ready", "running", "accepted"} =>
          /\ r # p /\ r \in Tasks
          /\ \A t \in Deps(r) : t # p /\ t \in Tasks
    BY <1>1, <1>2, TargetsAreProducers, TargetsHaveNoSession
  <1>5. ReviewInProgress'
    <2>1. \A r \in Reviewers, t \in Tasks :
            t \in Deps(r) /\ status'[r] \in {"ready", "running"} =>
              /\ status'[t] \in {"review_pending", "accepted"}
              /\ outcome'[r] = "finished" => t \in Judged(r)'
      BY <1>1, <1>2, <1>4 DEF ReviewLoopInv, ReviewInProgress, Judged
    <2>2. \A r, t \in Tasks : verdicts'[r][t] # NoReview =>
            /\ r \in Reviewers /\ t \in Deps(r) /\ (session'[r] # "none" \/ Applying(r)')
            /\ verdicts'[r][t].rev = rev'[t]
            /\ status'[t] \in {"review_pending", "accepted"}
      <3> SUFFICES ASSUME NEW r \in Tasks, NEW t \in Tasks, verdicts'[r][t] # NoReview
                   PROVE  /\ r \in Reviewers /\ t \in Deps(r) /\ session'[r] # "none"
                          /\ verdicts'[r][t].rev = rev[t]
                          /\ status'[t] \in {"review_pending", "accepted"}
        BY <1>2
      <3>1. r # p /\ verdicts[r][t] # NoReview
        BY <1>2 DEF NoVerdicts
      <3>2. /\ r \in Reviewers /\ t \in Deps(r) /\ session[r] # "none"
            /\ status[t] \in {"review_pending", "accepted"}
        BY <1>2, <3>1, VerdictsOfSessions
      <3>3. verdicts[r][t].rev = rev[t]
        BY <3>1 DEF ReviewLoopInv, ReviewInProgress
      <3> QED BY <1>1, <1>2, <3>1, <3>2, <3>3
    <2> QED BY <2>1, <2>2 DEF ReviewInProgress
  <1>6. LookedUp'
    BY <1>2, TargetsAreProducers DEF LookedUp
  <1>7. ReviewConcluded'
    BY <1>1, <1>2, <1>4, VerdictsOfSessions DEF ReviewConcluded
  <1>8. CompletedIsAccepted'
    BY <1>2 DEF CompletedIsAccepted
  <1> QED BY <1>3, <1>5, <1>6, <1>7, <1>8 DEF Loops

\* A finished review has judged every target: they are about to be settled.
LEMMA HandleReviewKeeps ==
    ASSUME ReviewLoopInv, NEW q \in Tasks, HandleReview(q)
    PROVE  Loops'
  <1>1. /\ pc = "handle" /\ q \in batch /\ q \in Reviewers /\ outcome[q] = "finished"
        /\ batch' = batch \ {q} /\ pc' = "review" /\ cursor' = PlanOrder[q]
        /\ UNCHANGED <<review, rev, verdicts, orphans, look, result>>
    BY DEF HandleReview
  <1>2. /\ status'[q] = "accepted" /\ session'[q] = "none" /\ outcome'[q] = "none"
        /\ \A t \in Tasks \ {q} : /\ status'[t] = status[t] /\ session'[t] = session[t]
                                  /\ outcome'[t] = outcome[t]
    BY DEF HandleReview, ReviewLoopInv, LoopInv, TypeOK
  <1>3. session[q] = "done" /\ status[q] = "running"
    BY <1>1 DEF ReviewLoopInv, SessionInv
  <1>4. /\ NotApplying /\ \A t \in Tasks : ~Launching(t) /\ ~Launching(t)'
        /\ \A t \in Tasks : Applying(t)' <=> t = q
    BY <1>1, OneTaskAtAPlace DEF NotApplying, Applying, Launching
  <1>5. look' = {}
    BY <1>1, <1>4, VerdictsOfSessions
  <1>6. \A r \in Reviewers : Judged(r)' = Judged(r)
    BY <1>1 DEF Judged
  <1>7. Judged(q) = Deps(q)
    BY <1>1, <1>3, TargetsAreProducers DEF ReviewLoopInv, ReviewInProgress, Judged
  <1>8. SessionInv'
    <2>1. batch \subseteq Tasks
      BY DEF ReviewLoopInv, LoopInv, TypeOK
    <2> QED BY <1>1, <1>2, <1>4, <2>1, TargetsAreProducers DEF ReviewLoopInv, SessionInv
  <1>9. ReviewInProgress'
    <2>1. \A r \in Reviewers, t \in Tasks :
            t \in Deps(r) /\ status'[r] \in {"ready", "running"} =>
              /\ status'[t] \in {"review_pending", "accepted"}
              /\ outcome'[r] = "finished" => t \in Judged(r)'
      BY <1>1, <1>2, <1>6, TargetsAreProducers DEF ReviewLoopInv, ReviewInProgress
    <2>2. \A r, t \in Tasks : verdicts'[r][t] # NoReview =>
            /\ r \in Reviewers /\ t \in Deps(r) /\ (session'[r] # "none" \/ Applying(r)')
            /\ verdicts'[r][t].rev = rev'[t]
            /\ status'[t] \in {"review_pending", "accepted"}
      BY <1>1, <1>2, <1>4, VerdictsOfSessions, TargetsAreProducers
      DEF ReviewLoopInv, ReviewInProgress
    <2> QED BY <2>1, <2>2 DEF ReviewInProgress
  <1>10. LookedUp'
    BY <1>5 DEF LookedUp
  <1>11. ReviewConcluded'
    <2> SUFFICES ASSUME NEW r \in Reviewers, status'[r] = "accepted", NEW t \in Deps(r)
                 PROVE  \/ status'[t] = "partial"
                        \/ /\ status'[t] = "accepted"
                           /\ review'[t] = [rev |-> rev'[t], verdict |-> "pass"]
                        \/ Applying(r)' /\ t \in Judged(r)'
      BY DEF ReviewConcluded
    <2>1. r \in Tasks /\ t \in Tasks /\ t # q
      BY <1>1, TargetsAreProducers
    <2>2. CASE r = q
      BY <1>4, <1>6, <1>7, <2>2
    <2>3. CASE r # q
      BY <1>1, <1>2, <1>4, <2>1, <2>3, VerdictsOfSessions
    <2> QED BY <2>2, <2>3
  <1>12. CompletedIsAccepted'
    BY <1>1 DEF ReviewLoopInv, SessionInv, CompletedIsAccepted
  <1> QED BY <1>8, <1>9, <1>10, <1>11, <1>12 DEF Loops

LEMMA HandleKeeps ==
    ASSUME ReviewLoopInv, Unattended, NEW p \in Tasks, Handle(p)
    PROVE  Loops'
  <1> DEFINE Own(x) == /\ Pop(p) /\ GoOn /\ review' = review
                       /\ status' = [status EXCEPT ![p] = x]
  <1>1. ASSUME NEW x \in {"accepted", "review_pending", "interrupted", "cancelled",
                          "approval_required", "failed", "blocked"},
               Own(x), p \in Reviewers => x # "accepted"
        PROVE  Loops'
    BY <1>1, HandleOwnKeeps
  <1>2. CASE HandleFinished(p)
    <2>1. Own("accepted") \/ Own("review_pending")
      BY <1>2 DEF HandleFinished
    <2> HIDE DEF Own
    <2> QED BY <1>1, <1>2, <2>1 DEF HandleFinished
  <1>3. CASE HandleReview(p)
    BY <1>3, HandleReviewKeeps
  <1>4. CASE HandleCancelled(p)
    <2>1. Own("interrupted") \/ Own("cancelled")
      BY <1>4 DEF HandleCancelled
    <2> HIDE DEF Own
    <2> QED BY <1>1, <2>1
  <1>5. CASE HandleApproval(p)
    <2>1. Own("approval_required")
      BY <1>5 DEF HandleApproval
    <2> HIDE DEF Own
    <2> QED BY <1>1, <2>1
  <1>6. CASE HandleFatal(p) \/ HandleCrashed(p)
    <2>1. Own("failed") \/ Own("blocked")
      BY <1>6 DEF HandleFatal, HandleCrashed
    <2> HIDE DEF Own
    <2> QED BY <1>1, <2>1
  <1>7. CASE HandleFailed(p)
    <2>1. Own("failed") \/ Own("blocked")
      BY <1>7 DEF HandleFailed, Unattended
    <2> HIDE DEF Own
    <2> QED BY <1>1, <2>1
  <1> QED BY <1>1, <1>2, <1>3, <1>4, <1>5, <1>6, <1>7 DEF Handle

-----------------------------------------------------------------------------
(* Applying a verdict                                                      *)

LEMMA LookKeeps ==
    ASSUME ReviewLoopInv, NEW q \in Reviewers, NEW u \in Tasks, Look(q, u)
    PROVE  Loops'
  <1>1. /\ pc = "review" /\ pc' = "judge" /\ Applying(q) /\ u \in Judged(q)
        /\ look' = {<<u, rev[u]>>}
        /\ UNCHANGED <<status, review, rev, session, outcome, verdicts, orphans, cursor, batch,
                       result>>
    BY DEF Look, taskVars, sessionVars
  <1>2. /\ \A t \in Tasks : Applying(t)' <=> Applying(t)
        /\ \A t \in Tasks : ~Launching(t) /\ ~Launching(t)'
        /\ \A r \in Reviewers : Judged(r)' = Judged(r)
    BY <1>1 DEF Applying, Launching, Judged
  <1>3. SessionInv'
    BY <1>1, <1>2, TargetsAreProducers DEF ReviewLoopInv, SessionInv
  <1>4. ReviewInProgress'
    BY <1>1, <1>2 DEF ReviewLoopInv, ReviewInProgress
  <1>5. LookedUp'
    <2>1. u \in Deps(q)
      BY <1>1 DEF Judged
    <2>2. \A r \in Reviewers : Applying(r)' => r = q
      BY <1>1, <1>2, OneAtATime, TargetsAreProducers
    <2> QED BY <1>1, <1>2, <2>1, <2>2 DEF LookedUp
  <1>6. look = {}
    BY <1>1 DEF ReviewLoopInv, LoopInv, LookInv
  <1>7. ReviewConcluded'
    BY <1>1, <1>2, <1>6, TargetsAreProducers DEF ReviewLoopInv, ReviewConcluded
  <1>8. CompletedIsAccepted'
    BY <1>1 DEF ReviewLoopInv, CompletedIsAccepted, Exists
  <1> QED BY <1>3, <1>4, <1>5, <1>7, <1>8 DEF Loops

\* Where the loop goes after a verdict.
LEMMA NextVerdictGoes ==
    ASSUME ReviewLoopInv, NEW q \in Reviewers, Applying(q), NEW rest, NextVerdict(rest),
           batch' = batch
    PROVE  /\ pc' \in {"review", "top", "handle"}
           /\ batch' # {} => pc' \in {"review", "handle"}
           /\ \A t \in Tasks : Applying(t)' => t = q
           /\ rest # {} => Applying(q)'
           /\ \A t \in Tasks : ~Launching(t)'
  <1>1. q \in Tasks /\ pc' \in {"review", "top", "handle"}
    BY TargetsAreProducers DEF NextVerdict
  <1>2. \A t \in Tasks : Applying(t)' => t = q
    <2> SUFFICES ASSUME NEW t \in Tasks, Applying(t)' PROVE t = q
      OBVIOUS
    <2>1. cursor' = cursor \/ cursor' = 0
      BY DEF NextVerdict
    <2>2. cursor' = PlanOrder[t] /\ cursor = PlanOrder[q] /\ PlanOrder[t] # 0
      BY TasksAssumption DEF Applying
    <2> QED BY <1>1, <2>1, <2>2, OneTaskAtAPlace
  <1> QED BY <1>1, <1>2 DEF NextVerdict, Applying, Launching

\* A verdict that is applied covers what its target has published last.
LEMMA JudgedIsCurrent ==
    ASSUME ReviewLoopInv, NEW q \in Reviewers, NEW u \in Tasks, NEW n \in 0..MaxRevisions,
           Judge(q, u, n)
    PROVE  /\ u \in Deps(q) /\ u \in Judged(q) /\ n = rev[u] /\ look = {<<u, n>>}
           /\ verdicts[q][u] \in Review /\ verdicts[q][u].rev = rev[u] /\ ~Stale(q, u, n)
           /\ status[u] \in {"review_pending", "accepted"}
  <1>1. pc = "judge" /\ Applying(q) /\ <<u, n>> \in look /\ q \in Tasks
    BY TargetsAreProducers DEF Judge
  <1>2. look = {<<u, n>>}
    BY <1>1 DEF ReviewLoopInv, LoopInv, LookInv
  <1>3. u \in Deps(q) /\ u \in Judged(q) /\ n = rev[u]
    BY <1>1 DEF ReviewLoopInv, LookedUp
  <1>4. verdicts[q][u] \in Review /\ verdicts[q][u] # NoReview
    BY <1>1, <1>3 DEF Judged, ReviewLoopInv, LoopInv, TypeOK
  <1>5. verdicts[q][u].rev = rev[u] /\ status[u] \in {"review_pending", "accepted"}
    BY <1>1, <1>4 DEF ReviewLoopInv, ReviewInProgress
  <1> QED BY <1>2, <1>3, <1>4, <1>5 DEF Stale

LEMMA JudgeKeeps ==
    ASSUME ReviewLoopInv, SingleReviewer, NEW q \in Reviewers, NEW u \in Tasks,
           NEW n \in 0..MaxRevisions, Judge(q, u, n)
    PROVE  Loops'
  <1>1. /\ pc = "judge" /\ Applying(q) /\ q \in Tasks
        /\ UNCHANGED <<rev, session, outcome, orphans, batch, result>>
    BY TargetsAreProducers DEF Judge
  <1>2. /\ u \in Deps(q) /\ u \in Judged(q) /\ n = rev[u] /\ look = {<<u, n>>}
        /\ verdicts[q][u] \in Review /\ verdicts[q][u].rev = rev[u] /\ ~Stale(q, u, n)
        /\ status[u] \in {"review_pending", "accepted"}
    BY JudgedIsCurrent
  <1>3. /\ status'[u] = TargetStatus(q, u, n) /\ review'[u] = verdicts[q][u]
        /\ \A t \in Tasks \ {u} : status'[t] = status[t] /\ review'[t] = review[t]
        /\ verdicts'[q][u] = NoReview
        /\ \A r, t \in Tasks : r # q \/ t # u => verdicts'[r][t] = verdicts[r][t]
    BY <1>1, <1>2 DEF Judge, ReviewLoopInv, LoopInv, TypeOK
  <1>4. TargetStatus(q, u, n) \in {"queued", "accepted", "partial"}
    BY DEF TargetStatus
  <1>5. \/ /\ Revise(q, u, n) /\ pc' = "settle" /\ look' = look /\ cursor' = cursor
        \/ /\ ~Revise(q, u, n) /\ look' = {} /\ NextVerdict(Judged(q) \ {u})
    BY <1>2 DEF Judge
  <1>6. /\ \A t \in Tasks : Applying(t)' => t = q
        /\ \A t \in Tasks : ~Launching(t) /\ ~Launching(t)'
        /\ Judged(q) \ {u} # {} \/ Revise(q, u, n) => Applying(q)'
        /\ pc' \in {"settle", "review", "top", "handle"}
        /\ batch # {} => pc' \in {"settle", "review", "handle"}
        /\ pc' = "judge" => FALSE
    <2>1. CASE pc' = "settle" /\ cursor' = cursor
      BY <1>1, <1>5, <2>1, OneTaskAtAPlace DEF Applying, Launching
    <2>2. CASE ~Revise(q, u, n) /\ NextVerdict(Judged(q) \ {u})
      BY <1>1, <2>2, NextVerdictGoes DEF Launching
    <2> QED BY <1>5, <2>1, <2>2
  \* Another review has no target in common with this one.
  <1>7. ASSUME NEW r \in Reviewers, r # q
        PROVE  r \in Tasks /\ u # r /\ u \notin Deps(r) /\ ~Applying(r)
    BY <1>1, <1>2, <1>7, OneAtATime, TargetsAreProducers DEF SingleReviewer
  <1>8. u # q
    BY <1>2, TargetsAreProducers
  <1>9. SessionInv'
    BY <1>1, <1>2, <1>3, <1>4, <1>6, <1>8, TargetsAreProducers DEF ReviewLoopInv, SessionInv
  <1>10. status[q] \notin {"ready", "running"} /\ result = "none"
    BY <1>1 DEF ReviewLoopInv, SessionInv
  <1>11. ReviewInProgress'
    <2>1. ASSUME NEW r \in Reviewers, NEW t \in Tasks, t \in Deps(r),
                 status'[r] \in {"ready", "running"}
          PROVE  /\ status'[t] \in {"review_pending", "accepted"}
                 /\ outcome'[r] = "finished" => t \in Judged(r)'
      <3>1. r # q
        BY <1>3, <1>8, <1>10, <2>1, <1>1
      <3>2. r \in Tasks /\ u # r /\ u # t
        BY <1>7, <2>1, <3>1
      <3>3. Judged(r)' = Judged(r)
        BY <1>3, <3>1, <3>2, TargetsAreProducers DEF Judged
      <3> QED BY <1>1, <1>3, <2>1, <3>2, <3>3 DEF ReviewLoopInv, ReviewInProgress
    <2>2. ASSUME NEW r \in Tasks, NEW t \in Tasks, verdicts'[r][t] # NoReview
          PROVE  /\ r \in Reviewers /\ t \in Deps(r) /\ (session'[r] # "none" \/ Applying(r)')
                 /\ verdicts'[r][t].rev = rev'[t]
                 /\ status'[t] \in {"review_pending", "accepted"}
      <3>1. r # q \/ t # u
        BY <1>3, <2>2
      <3>2. verdicts[r][t] # NoReview /\ verdicts'[r][t] = verdicts[r][t]
        BY <1>1, <1>3, <2>2, <3>1
      <3>3. /\ r \in Reviewers /\ t \in Deps(r) /\ (session[r] # "none" \/ Applying(r))
            /\ verdicts[r][t].rev = rev[t]
            /\ status[t] \in {"review_pending", "accepted"}
        BY <3>2 DEF ReviewLoopInv, ReviewInProgress
      <3>4. t # u
        BY <1>7, <3>1, <3>3
      <3>5. session'[r] # "none" \/ Applying(r)'
        <4>1. CASE r = q
          <5>1. t \in Judged(q) \ {u}
            BY <3>2, <3>3, <3>4, <4>1 DEF Judged
          <5> QED BY <1>6, <4>1, <5>1
        <4>2. CASE r # q
          BY <1>1, <1>7, <3>3, <4>2
        <4> QED BY <4>1, <4>2
      <3> QED BY <1>1, <1>3, <3>2, <3>3, <3>4, <3>5
    <2> QED BY <2>1, <2>2 DEF ReviewInProgress
  <1>12. LookedUp'
    <2>1. u \notin Judged(q)'
      BY <1>1, <1>3 DEF Judged
    <2> QED BY <1>2, <1>5, <1>6, <2>1, TargetsAreProducers DEF LookedUp
  <1>13. ReviewConcluded'
    <2> SUFFICES ASSUME NEW r \in Reviewers, status'[r] = "accepted", NEW t \in Deps(r)
                 PROVE  \/ status'[t] = "partial"
                        \/ /\ status'[t] = "accepted"
                           /\ review'[t] = [rev |-> rev'[t], verdict |-> "pass"]
                        \/ Applying(r)' /\ (t \in Judged(r)' \/ \E x \in look' : x[1] = t)
      BY DEF ReviewConcluded
    <2>1. r \in Tasks /\ t \in Tasks /\ r # u /\ status[r] = "accepted"
      BY <1>2, <1>3, TargetsAreProducers
    <2>2. CASE r # q
      BY <1>1, <1>3, <1>7, <2>1, <2>2 DEF ReviewLoopInv, ReviewConcluded
    <2>3. CASE r = q /\ t # u
      <3>1. ~\E x \in look : x[1] = t
        BY <1>2, <2>3
      <3>2. t \in Judged(q) => t \in Judged(q)' /\ Applying(q)'
        BY <1>1, <1>3, <1>6, <2>1, <2>3 DEF Judged
      <3> QED BY <1>1, <1>3, <2>1, <2>3, <3>1, <3>2 DEF ReviewLoopInv, ReviewConcluded
    <2>4. CASE r = q /\ t = u
      <3>1. CASE Revise(q, u, n)
        <4>1. <<u, n>> \in look' /\ <<u, n>>[1] = t
          BY <1>2, <1>5, <2>4, <3>1
        <4> QED BY <1>6, <2>4, <3>1, <4>1
      <3>2. CASE ~Revise(q, u, n) /\ verdicts[q][u].verdict = "pass"
        <4>1. verdicts[q][u] = [rev |-> rev[u], verdict |-> "pass"]
          BY <1>2, <3>2 DEF Review
        <4> QED BY <1>1, <1>2, <1>3, <2>4, <3>2, <4>1 DEF TargetStatus
      <3>3. CASE ~Revise(q, u, n) /\ verdicts[q][u].verdict # "pass"
        BY <1>3, <2>4, <3>3 DEF TargetStatus
      <3> QED BY <3>1, <3>2, <3>3
    <2> QED BY <2>2, <2>3, <2>4
  <1>14. CompletedIsAccepted'
    BY <1>1, <1>10 DEF CompletedIsAccepted
  <1> QED BY <1>9, <1>11, <1>12, <1>13, <1>14 DEF Loops

LEMMA SettleKeeps ==
    ASSUME ReviewLoopInv, NEW q \in Reviewers, NEW u \in Tasks, Settle(q, u)
    PROVE  Loops'
  <1>1. /\ pc = "settle" /\ Applying(q) /\ q \in Tasks /\ look' = {}
        /\ NextVerdict(Judged(q))
        /\ UNCHANGED <<review, rev, session, outcome, verdicts, orphans, batch, result>>
    BY TargetsAreProducers DEF Settle, sessionVars
  <1>2. /\ status'[q] \in {"queued", "partial"}
        /\ \A t \in Tasks \ {q} : status'[t] = status[t]
    BY <1>1 DEF Settle, ReviewLoopInv, LoopInv, LookInv, TypeOK
  <1>3. /\ \A t \in Tasks : Applying(t)' => t = q
        /\ \A t \in Tasks : ~Launching(t) /\ ~Launching(t)'
        /\ Judged(q) # {} => Applying(q)'
        /\ pc' \in {"review", "top", "handle"}
        /\ batch # {} => pc' \in {"review", "handle"}
    BY <1>1, NextVerdictGoes DEF Launching
  <1>4. status[q] \notin {"ready", "running"} /\ result = "none"
    BY <1>1 DEF ReviewLoopInv, SessionInv
  <1>5. SessionInv'
    BY <1>1, <1>2, <1>3, <1>4, TargetsAreProducers DEF ReviewLoopInv, SessionInv
  <1>6. \A r \in Reviewers : Judged(r)' = Judged(r)
    BY <1>1 DEF Judged
  <1>7. \A r \in Reviewers : q \notin Deps(r) /\ (r # q => ~Applying(r))
    BY <1>1, OneAtATime, TargetsAreProducers
  <1>8. ReviewInProgress'
    <2>1. \A r \in Reviewers, t \in Tasks :
            t \in Deps(r) /\ status'[r] \in {"ready", "running"} =>
              /\ status'[t] \in {"review_pending", "accepted"}
              /\ outcome'[r] = "finished" => t \in Judged(r)'
      BY <1>1, <1>2, <1>6, <1>7, TargetsAreProducers DEF ReviewLoopInv, ReviewInProgress
    <2>2. ASSUME NEW r \in Tasks, NEW t \in Tasks, verdicts'[r][t] # NoReview
          PROVE  /\ r \in Reviewers /\ t \in Deps(r) /\ (session'[r] # "none" \/ Applying(r)')
                 /\ verdicts'[r][t].rev = rev'[t]
                 /\ status'[t] \in {"review_pending", "accepted"}
      <3>1. /\ r \in Reviewers /\ t \in Deps(r) /\ (session[r] # "none" \/ Applying(r))
            /\ verdicts[r][t].rev = rev[t]
            /\ status[t] \in {"review_pending", "accepted"} /\ t \in Judged(r)
        BY <1>1, <2>2 DEF ReviewLoopInv, ReviewInProgress, Judged
      <3> QED BY <1>1, <1>2, <1>3, <1>7, <3>1
    <2> QED BY <2>1, <2>2 DEF ReviewInProgress
  <1>9. LookedUp'
    BY <1>1 DEF LookedUp
  <1>10. ReviewConcluded'
    BY <1>1, <1>2, <1>7, TargetsAreProducers DEF ReviewLoopInv, ReviewConcluded
  <1>11. CompletedIsAccepted'
    BY <1>1, <1>4 DEF CompletedIsAccepted
  <1> QED BY <1>5, <1>8, <1>9, <1>10, <1>11 DEF Loops

-----------------------------------------------------------------------------
(* The findings of a failing verdict                                       *)

Informs == FindingsWait' /\ (RevisionIsInformed => RevisionIsInformed')

\* A task whose findings wait, and that may still be told.
Waits(t) == status[t] \in {"queued", "ready"} \/ Launching(t)

\* Steps that make no task wait and no session begin.
LEMMA NoNewSession ==
    ASSUME ReviewLoopInv, UNCHANGED <<review, feedback>>,
           \A t \in Tasks : /\ Waits(t)' => Waits(t)
                            /\ session'[t] # "none"
                                 => session[t] # "none" /\ (t \in informed => t \in informed')
    PROVE  Informs
  <1>1. FindingsWait'
    BY DEF ReviewLoopInv, FindingsWait, Waits
  <1>2. RevisionIsInformed => RevisionIsInformed'
    BY DEF RevisionIsInformed
  <1> QED BY <1>1, <1>2 DEF Informs

\* What a session is told when it is made is what waits for it.
LEMMA LaunchInforms ==
    ASSUME ReviewLoopInv, NEW p \in Tasks, Launch(p)
    PROVE  Informs
  <1>1. /\ Launching(p) /\ UNCHANGED <<status, review>> /\ pc' = "start"
        /\ informed' = (informed \ {p}) \cup ({p} \cap feedback)
        /\ feedback' = feedback \ {p}
    BY DEF Launch
  <1>2. \A t \in Tasks : t # p => session'[t] = session[t]
    BY DEF Launch, ReviewLoopInv, LoopInv, TypeOK
  <1>3. status[p] = "running"
    BY <1>1 DEF ReviewLoopInv, SessionInv
  <1>4. FindingsWait'
    BY <1>1, <1>3 DEF ReviewLoopInv, FindingsWait, Launching
  <1>5. RevisionIsInformed => RevisionIsInformed'
    BY <1>1, <1>2 DEF ReviewLoopInv, FindingsWait, RevisionIsInformed
  <1> QED BY <1>4, <1>5 DEF Informs

\* A failing verdict that sends its target back leaves its findings; no target
\* has a session when its verdict is applied.
LEMMA JudgeInforms ==
    ASSUME ReviewLoopInv, NEW q \in Reviewers, NEW u \in Tasks, NEW n \in 0..MaxRevisions,
           Judge(q, u, n)
    PROVE  Informs
  <1>1. /\ pc = "judge" /\ UNCHANGED <<session, informed>>
        /\ feedback' = feedback \cup Findings(q, u, n)
    BY DEF Judge
  <1>2. u \in Deps(q) /\ u \in Judged(q) /\ u \notin Reviewers
    BY JudgedIsCurrent, TargetsAreProducers
  <1>3. /\ status'[u] = TargetStatus(q, u, n)
        /\ \A t \in Tasks \ {u} : status'[t] = status[t] /\ review'[t] = review[t]
    BY DEF Judge, ReviewLoopInv, LoopInv, TypeOK
  <1>4. session[u] = "none"
    BY <1>2, TargetsHaveNoSession DEF Judged
  <1>5. \A t \in Tasks : ~Launching(t)'
    BY DEF Judge, NextVerdict, Launching
  <1>6. FindingsWait'
    <2> SUFFICES ASSUME NEW t \in Tasks
                 PROVE  /\ t \in Reviewers => review'[t] = NoReview
                        /\ status'[t] \in {"queued", "ready"} /\ review'[t].verdict = "fail"
                             => t \in feedback'
      BY <1>5 DEF FindingsWait
    <2>1. CASE t # u
      BY <1>1, <1>3, <2>1 DEF ReviewLoopInv, FindingsWait
    <2>2. CASE t = u
      <3>1. TargetStatus(q, u, n) \in {"queued", "ready"} => Revise(q, u, n)
        BY DEF TargetStatus
      <3> QED BY <1>1, <1>2, <1>3, <2>2, <3>1 DEF Findings
    <2> QED BY <2>1, <2>2
  <1>7. RevisionIsInformed => RevisionIsInformed'
    BY <1>1, <1>3, <1>4 DEF RevisionIsInformed
  <1> QED BY <1>6, <1>7 DEF Informs

\* Every step keeps the findings until the session they are for has them.
LEMMA NextInforms ==
    ASSUME Unattended, ReviewLoopInv, [Next]_vars
    PROVE  Informs
  <1> USE DEF taskVars, sessionVars, loopVars
  <1>1. CASE UNCHANGED <<status, review, feedback, session, informed, pc, cursor>>
    BY <1>1, NoNewSession DEF Waits, Launching
  <1>2. ASSUME NEW t \in Tasks, SessionEnds(t) PROVE Informs
    BY <1>2, NoNewSession DEF SessionEnds, EndSession, ReviewLoopInv, LoopInv, TypeOK, Waits,
       Launching
  <1>3. CASE StopCancelled \/ StopTimedOut \/ StopFatal
    <2>1. /\ \A t \in Tasks : session'[t] = "none"
          /\ \A t \in Tasks : Waits(t)' => Waits(t)
          /\ UNCHANGED <<review, feedback>>
      BY <1>3 DEF StopCancelled, StopTimedOut, StopFatal, CancelAll, DropSession,
         AfterCancelAll, Return, Waits, Launching
    <2> QED BY <2>1, NoNewSession
  <1>4. CASE Pass \/ \E t \in Tasks : Promote(t) \/ Start(t)
    <2>1. UNCHANGED <<review, feedback, session, informed>>
      BY <1>4 DEF Pass, Promote, Start
    <2>2. CASE Pass
      BY <2>1, <2>2, NoNewSession DEF Pass, AfterAbandoned, Waits, Launching
    <2>3. ASSUME NEW t \in Tasks, Promote(t) PROVE Informs
      <3>1. status[t] = "queued" /\ pc' = "promote"
        BY <2>3 DEF Promote, IsNext, Ahead, Promotable
      <3>2. \A u \in Tasks : Waits(u)' => Waits(u)
        BY <2>3, <3>1 DEF Promote, Waits, Launching, ReviewLoopInv, LoopInv, TypeOK
      <3> QED BY <2>1, <3>2, NoNewSession
    <2>4. ASSUME NEW t \in Tasks, Start(t) PROVE Informs
      <3>1. status[t] = "ready" /\ pc' = "launch" /\ cursor' = PlanOrder[t]
        BY <2>4 DEF Start, IsNext, Ahead, Startable
      <3>2. \A u \in Tasks : Waits(u)' => Waits(u)
        BY <2>4, <3>1, OneTaskAtAPlace
        DEF Start, Waits, Launching, ReviewLoopInv, LoopInv, TypeOK
      <3> QED BY <2>1, <3>2, NoNewSession
    <2> QED BY <1>4, <2>2, <2>3, <2>4
  <1>5. ASSUME NEW t \in Tasks, Launch(t) PROVE Informs
    BY <1>5, LaunchInforms
  <1>6. CASE UNCHANGED <<status, review, feedback, session, informed>>
             /\ \A t \in Tasks : ~Launching(t)'
    BY <1>6, NoNewSession DEF Waits
  <1>7. CASE Promoted \/ StartsEnd
    BY <1>6, <1>7 DEF Promoted, StartsEnd, AfterStarts, Launching
  <1>8. CASE IdleReturn
    BY <1>8, NoNewSession DEF IdleReturn, AfterGiveUp, Waits, Launching, Return
  <1>9. ASSUME NEW p \in Tasks, Handle(p) PROVE Informs
    <2>1. UNCHANGED <<review, feedback>> /\ pc = "handle" /\ pc' # "launch"
      BY <1>9 DEF Handle, Pop, HandleFinished, HandleReview, HandleCancelled, HandleApproval,
         HandleFatal, HandleCrashed, HandleFailed, GoOn
    <2>2. \A t \in Tasks : status'[t] \in {"queued", "ready"}
                             => status[t] \in {"queued", "ready"}
      BY <1>9 DEF Handle, HandleFinished, HandleReview, HandleCancelled, HandleApproval,
         HandleFatal, HandleCrashed, HandleFailed, ReviewLoopInv, LoopInv, TypeOK
    <2>3. \A t \in Tasks : session'[t] # "none"
              => session[t] # "none" /\ (t \in informed => t \in informed')
      <3>1. CASE HandleReview(p)
        BY <3>1 DEF HandleReview, ReviewLoopInv, LoopInv, TypeOK
      <3>2. CASE ~HandleReview(p)
        <4>1. Pop(p)
          BY <1>9, <3>2 DEF Handle, HandleFinished, HandleCancelled, HandleApproval,
             HandleFatal, HandleCrashed, HandleFailed
        <4> QED BY <4>1 DEF Pop, DropSession
      <3> QED BY <3>1, <3>2
    <2> QED BY <2>1, <2>2, <2>3, NoNewSession DEF Waits, Launching
  <1>10. ASSUME NEW q \in Reviewers, NEW u \in Tasks, Settle(q, u) PROVE Informs
    <2>1. /\ UNCHANGED <<review, feedback, session, informed>>
          /\ \A t \in Tasks \ {q} : status'[t] = status[t]
          /\ \A t \in Tasks : ~Launching(t)'
      BY <1>10 DEF Settle, NextVerdict, Launching, ReviewLoopInv, LoopInv, TypeOK
    <2>2. review[q] = NoReview /\ NoReview.verdict # "fail"
      BY TargetsAreProducers DEF ReviewLoopInv, FindingsWait, NoReview
    <2> QED BY <2>1, <2>2
        DEF Informs, FindingsWait, RevisionIsInformed, ReviewLoopInv, NoReview
  <1>11. ASSUME NEW q \in Reviewers, NEW u \in Tasks, Look(q, u) PROVE Informs
    BY <1>6, <1>11 DEF Look, Launching
  <1>12. ASSUME NEW q \in Reviewers, NEW u \in Tasks, NEW n \in 0..MaxRevisions, Judge(q, u, n)
         PROVE  Informs
    BY <1>12, JudgeInforms
  <1>13. CASE Wait \/ IdlePaused
    BY <1>6, <1>13 DEF Wait, IdlePaused, Return, Launching
  <1>14. ~(IdleReplan \/ MasterEnd \/ \E t \in Tasks :
            AddTask(t) \/ \E a \in MasterActions : Decide(t, a))
    BY DEF Unattended, IdleReplan, MayReplan, MasterEnd, ExceptionEnd, MilestoneEnd,
       MilestoneRaised, AddTask, Decide, MasterAwaited, ReviewLoopInv, SessionInv
  <1> QED
    BY <1>1, <1>2, <1>3, <1>4, <1>5, <1>7, <1>8, <1>9, <1>10, <1>11, <1>12, <1>13, <1>14
    DEF Next, vars, Cancel, TimeOut, Publish, SubmitReview, OrphanEnd, SpawnReply, EndReply,
        Loop, Returned

-----------------------------------------------------------------------------
(* The invariant and what follows from it                                  *)

LEMMA InitReviewLoop == Init => ReviewLoopInv
  <1> SUFFICES ASSUME Init PROVE Loops /\ FindingsWait
    BY InitLoopInv DEF ReviewLoopInv, Loops
  <1>1. SessionInv /\ CompletedIsAccepted
    BY DEF Init, SessionInv, CompletedIsAccepted, Launching, Applying
  <1>2. ReviewInProgress /\ ReviewConcluded /\ LookedUp
    BY TasksAssumption DEF Init, ReviewInProgress, ReviewConcluded, LookedUp, NoVerdicts
  <1>3. FindingsWait
    BY DEF Init, FindingsWait, NoVerdicts, NoReview
  <1> QED BY <1>1, <1>2, <1>3 DEF Loops

LEMMA NextReviewLoop ==
    ASSUME Unattended, SingleReviewer
    PROVE  ReviewLoopInv /\ [Next]_vars => ReviewLoopInv'
  <1> SUFFICES ASSUME ReviewLoopInv, [Next]_vars PROVE Loops'
    BY NextLoopInv, NextInforms DEF ReviewLoopInv, Loops, Informs
  <1>1. CASE Cancel \/ TimeOut \/ SpawnReply \/ EndReply \/ UNCHANGED vars
    BY <1>1, FrameKeeps
    DEF Cancel, TimeOut, SpawnReply, EndReply, vars, taskVars, sessionVars, loopVars
  <1>2. ASSUME NEW t \in Tasks, OrphanEnd(t) PROVE Loops'
    BY <1>2 DEF OrphanEnd, ReviewLoopInv, SessionInv
  <1>3. ASSUME NEW t \in Tasks, Publish(t) PROVE Loops'
    BY <1>3, PublishKeeps
  <1>4. ASSUME NEW r \in Tasks, NEW t \in Tasks, NEW v \in Verdicts, SubmitReview(r, t, v)
        PROVE  Loops'
    BY <1>4, SubmitKeeps
  <1>5. ASSUME NEW t \in Tasks, SessionEnds(t) PROVE Loops'
    BY <1>5, EndSessionKeeps
  <1>6. CASE StopCancelled
    BY <1>6, CancelAllKeeps DEF StopCancelled, RunStatuses, Return
  <1>7. CASE StopTimedOut
    BY <1>7, CancelAllKeeps DEF StopTimedOut, RunStatuses, Return
  <1>8. CASE StopFatal
    BY <1>8, CancelAllKeeps, FinalStatusType DEF StopFatal, RunStatuses, Return
  <1>9. CASE Pass
    BY <1>9, PassKeeps
  <1>10. ASSUME NEW t \in Tasks, Promote(t) \/ Start(t) \/ Launch(t) PROVE Loops'
    BY <1>10, PromoteKeeps, StartKeeps, LaunchKeeps
  <1>11. CASE Promoted \/ StartsEnd
    <2>1. batch = {}
      BY <1>11 DEF Promoted, StartsEnd, ReviewLoopInv, SessionInv
    <2> QED BY <1>11, <2>1, BetweenKeeps DEF Promoted, StartsEnd, AfterStarts
  <1>12. CASE Wait
    BY <1>12, BetweenKeeps DEF Wait, loopVars
  <1>13. CASE IdlePaused \/ IdleReturn
    BY <1>13, IdleKeeps
  <1>14. ASSUME NEW t \in Tasks, Handle(t) PROVE Loops'
    BY <1>14, HandleKeeps
  <1>15. ASSUME NEW r \in Reviewers, NEW t \in Tasks, Look(r, t) \/ Settle(r, t) PROVE Loops'
    BY <1>15, LookKeeps, SettleKeeps
  <1>16. ASSUME NEW r \in Reviewers, NEW t \in Tasks, NEW n \in 0..MaxRevisions, Judge(r, t, n)
         PROVE  Loops'
    BY <1>16, JudgeKeeps
  <1>17. CASE \/ IdleReplan \/ MasterEnd
              \/ \E t \in Tasks : AddTask(t) \/ \E a \in MasterActions : Decide(t, a)
    BY <1>17 DEF Unattended, IdleReplan, MayReplan, MasterEnd, ExceptionEnd, MilestoneEnd,
       MilestoneRaised, AddTask, Decide, MasterAwaited, ReviewLoopInv, SessionInv
  <1> QED
    BY <1>1, <1>2, <1>3, <1>4, <1>5, <1>6, <1>7, <1>8, <1>9, <1>10, <1>11, <1>12, <1>13,
       <1>14, <1>15, <1>16, <1>17
    DEF Next, Loop, Returned

\* When the Master does not intervene and no task has two reviewers, the review
\* loop keeps sessions, verdicts and statuses consistent.
THEOREM ReviewLoop ==
    ASSUME Unattended, SingleReviewer
    PROVE  Spec => []ReviewLoopInv
  <1>1. ReviewLoopInv /\ [Next]_vars => ReviewLoopInv'
    BY NextReviewLoop
  <1> QED BY <1>1, InitReviewLoop, PTL DEF Spec

\* No task then ever has two sessions, and so none is lost to the scheduler.
THEOREM SessionsAreNotLost ==
    ASSUME Unattended, SingleReviewer
    PROVE  Spec => []OneSessionPerTask
  <1>1. ReviewLoopInv => OneSessionPerTask
    BY DEF ReviewLoopInv, SessionInv, OneSessionPerTask
  <1> QED BY <1>1, ReviewLoop, PTL

\* The artifacts a reviewer reads do not move under it.
THEOREM ReviewedArtifactsHoldStill ==
    ASSUME Unattended, SingleReviewer
    PROVE  Spec => []TargetsHoldStill
  <1>1. ReviewLoopInv => TargetsHoldStill
    <2> SUFFICES ASSUME ReviewLoopInv, NEW r \in Reviewers, session[r] = "live",
                        NEW t \in Deps(r)
                 PROVE  session[t] = "none" /\ orphans[t] = 0
      BY DEF TargetsHoldStill
    <2>1. r \in Tasks /\ t \in Tasks /\ status[r] = "running"
      BY TargetsAreProducers DEF ReviewLoopInv, SessionInv
    <2> QED BY <2>1, TargetsHaveNoSession DEF ReviewLoopInv, SessionInv
  <1> QED BY <1>1, ReviewLoop, PTL

\* A verdict is applied only to the revision it was submitted for, although the answer
\* it is compared with was waited for: nobody publishes between the two.
THEOREM VerdictsCoverCurrentRevision ==
    ASSUME Unattended, SingleReviewer
    PROVE  Spec => VerdictCoversCurrentRevision
  <1> DEFINE Covers == \A t \in Tasks : review'[t] # review[t] /\ review'[t] # NoReview
                                          => review'[t].rev = rev[t]
  <1>1. ReviewLoopInv /\ [Next]_vars => [Covers]_vars
    <2> SUFFICES ASSUME ReviewLoopInv, [Next]_vars, NEW t \in Tasks,
                        review'[t] # review[t], review'[t] # NoReview
                 PROVE  review'[t].rev = rev[t]
      OBVIOUS
    <2> USE DEF taskVars
    <2>1. review' # review
      OBVIOUS
    <2>2. PICK r \in Reviewers, u \in Tasks, n \in 0..MaxRevisions : Judge(r, u, n)
      BY <2>1 DEF Next, vars, Cancel, TimeOut, Publish, SubmitReview, SessionEnds, EndSession,
         OrphanEnd, SpawnReply, EndReply, Loop, StopCancelled, StopTimedOut, StopFatal,
         CancelAll, Pass, Promote, Promoted, Start, Launch, StartsEnd, Wait, IdlePaused,
         IdleReturn, IdleReplan, Handle, HandleFinished, HandleReview, HandleCancelled,
         HandleApproval, HandleFatal, HandleCrashed, HandleFailed, Look, Settle, Decide,
         AddTask, MasterEnd, ExceptionEnd, MilestoneEnd, MilestoneRaised, Returned
    <2>3. verdicts[r][u].rev = rev[u] /\ ~Stale(r, u, n)
      BY <2>2, JudgedIsCurrent
    <2>4. t = u /\ review'[t] = verdicts[r][u]
      BY <2>2, <2>3 DEF Judge, ReviewLoopInv, LoopInv, TypeOK
    <2> QED BY <2>3, <2>4
  <1> QED BY <1>1, ReviewLoop, PTL DEF Spec, VerdictCoversCurrentRevision

\* A run reported completed delivers only work whose latest revision passed the
\* review the plan asked for.
THEOREM CompletedRunsPassedReview ==
    ASSUME Unattended, SingleReviewer
    PROVE  Spec => []CompletedIsReviewed
  <1>1. ReviewLoopInv => CompletedIsReviewed
    <2> SUFFICES ASSUME ReviewLoopInv, result = "completed", NEW t \in Tasks,
                        NEW r \in ReviewTasksFor(t), r \in Exists(status)
                 PROVE  review[t] = [rev |-> rev[t], verdict |-> "pass"]
      BY DEF CompletedIsReviewed
    <2>1. r \in Reviewers /\ t \in Deps(r)
      BY DEF ReviewTasksFor
    <2>2. status[r] = "accepted"
      BY DEF ReviewLoopInv, CompletedIsAccepted
    <2>3. status[t] # "partial"
      BY DEF ReviewLoopInv, CompletedIsAccepted, Exists
    <2>4. pc = "returned"
      BY DEF ReviewLoopInv, SessionInv
    <2> QED BY <2>1, <2>2, <2>3, <2>4 DEF ReviewLoopInv, ReviewConcluded, Applying
  <1> QED BY <1>1, ReviewLoop, PTL

\* A session that revises work after a failing verdict was told the findings:
\* they wait in _feedback over promotion, retries and other sessions' ends.
THEOREM RevisionsAreInformed ==
    ASSUME Unattended, SingleReviewer
    PROVE  Spec => []RevisionIsInformed
  <1>1. Init => RevisionIsInformed
    BY DEF Init, RevisionIsInformed
  <1>2. ReviewLoopInv /\ RevisionIsInformed /\ [Next]_vars => RevisionIsInformed'
    BY NextInforms DEF Informs
  <1> QED BY <1>1, <1>2, ReviewLoop, PTL DEF Spec
=============================================================================
