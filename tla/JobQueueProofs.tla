--------------------------- MODULE JobQueueProofs ---------------------------
(***************************************************************************)
(* Proofs about the durable queue, for any runs, slots and limits, and any *)
(* number of crashes.                                                      *)
(***************************************************************************)
EXTENDS JobQueue, FiniteSetTheorems, TLAPS

\* A job belongs to a run.
LEMMA RunOfJob == \A j \in Jobs : RunOf(j) \in Runs
  BY DEF Jobs, RunOf

\* A delivery that is not idle has a job of its own run.
LEMMA DeliveryHasJob ==
  ASSUME TypeOK, OwnDelivery, NEW r \in Runs, phase[r] # "idle"
  PROVE  task[r] \in Jobs /\ RunOf(task[r]) = r
  BY DEF TypeOK, OwnDelivery

-----------------------------------------------------------------------------
(* Types                                                                   *)

LEMMA CancelDeliveriesType ==
  ASSUME TypeOK, NEW S \in SUBSET Runs, CancelDeliveries(S)
  PROVE  /\ phase' \in [Runs -> Phases]
         /\ task' \in [Runs -> Jobs \cup {None}]
         /\ reason' \subseteq Runs
         /\ terminal' \subseteq Runs
         /\ exec' \in [Jobs -> {"none", "starting", "live", "stopping", "closing", "done"}]
  BY DEF TypeOK, CancelDeliveries, AfterExecCancel, Phases

LEMMA TypeNext ==
  ASSUME TypeOK, OwnDelivery, Next
  PROVE  TypeOK'
<1> USE RunOfJob, QueueAssumption DEF TypeOK, Statuses, Phases, dbVars, taskVars, execVars
<1>1. ASSUME NEW r \in Runs, Request(r) PROVE TypeOK'
  BY <1>1 DEF Request, CreateRun, BlockRun, RequestResume, Refuse
<1>2. ASSUME NEW r \in Runs, AcquireSlot(r) \/ LoseLease(r) PROVE TypeOK'
  BY <1>2 DEF AcquireSlot, LoseLease, AfterExecCancel
<1>3. ASSUME NEW r \in Runs, Claim(r) PROVE TypeOK'
  BY <1>3, DeliveryHasJob DEF Claim, EndDelivery
<1>4. ASSUME NEW r \in Runs, BeginExecution(r) PROVE TypeOK'
  BY <1>4, DeliveryHasJob DEF BeginExecution
<1>5. ASSUME NEW r \in Runs, ReadStatus(r) PROVE TypeOK'
  BY <1>5 DEF ReadStatus
<1>6. ASSUME NEW r \in Runs, Finish(r) PROVE TypeOK'
  BY <1>6, DeliveryHasJob DEF Finish
<1>7. ASSUME NEW r \in Runs, MarkInterrupted(r) \/ GiveUp(r) PROVE TypeOK'
  BY <1>7 DEF MarkInterrupted, GiveUp, EndDelivery
<1>8. ASSUME NEW r \in Runs, CancelRequest(r) PROVE TypeOK'
  <2>1. CASE {j \in QueuedJobs : RunOf(j) = r} # {}
    <3>1. CancelDeliveries({q \in {r} : task[q] # None})
      BY <1>8, <2>1 DEF CancelRequest
    <3>2. QED
      BY <1>8, <2>1, <3>1, CancelDeliveriesType DEF CancelRequest, AfterJoin
  <2>2. CASE {j \in QueuedJobs : RunOf(j) = r} = {}
    BY <1>8, <2>2 DEF CancelRequest
  <2>3. QED
    BY <2>1, <2>2
<1>9. ASSUME NEW r \in Runs, CancelDelivery(r) PROVE TypeOK'
  BY <1>9, CancelDeliveriesType DEF CancelDelivery, AfterJoin
<1>10. ASSUME NEW r \in Runs, CancelWrite(r) \/ CancelLive(r) \/ CancelPaused(r)
       PROVE TypeOK'
  BY <1>10 DEF CancelWrite, CancelLive, CancelPaused
<1>11. ASSUME NEW j \in Jobs, Enqueue(j) \/ Schedule(j) PROVE TypeOK'
  BY <1>11 DEF Enqueue, Schedule
<1>12. ASSUME NEW j \in Jobs, Execute(j) PROVE TypeOK'
  BY <1>12 DEF Execute, ExecLive, ExecRaise, ExecRun, ExecPlan, ExecEnd, Outcomes,
               ExecInterrupted, ExecClosed
<1>13. ASSUME Poll PROVE TypeOK'
  BY <1>13 DEF Poll, QueuedJobs
<1>14. ASSUME Shutdown PROVE TypeOK'
  <2>1. CancelDeliveries({r \in Runs : task[r] # None})
    BY <1>14 DEF Shutdown
  <2>2. QED
    BY <1>14, <2>1, CancelDeliveriesType DEF Shutdown
<1>15. ASSUME ShutdownEnd \/ Crash PROVE TypeOK'
  BY <1>15 DEF ShutdownEnd, Crash, ProcessGone
<1>16. ASSUME Start \/ Recover PROVE TypeOK'
  BY <1>16 DEF Start, Recover, QueuedJobs
<1>17. QED
  BY <1>1, <1>2, <1>3, <1>4, <1>5, <1>6, <1>7, <1>8, <1>9, <1>10, <1>11, <1>12, <1>13,
     <1>14, <1>15, <1>16 DEF Next, Deliver, CancelRun

-----------------------------------------------------------------------------
(* Deliveries and their executions                                         *)

\* What Task.cancel does to one delivery.
LEMMA CancelDeliveriesPhase ==
  ASSUME TypeOK, OwnDelivery, NEW S \in SUBSET Runs, CancelDeliveries(S), NEW r \in Runs
  PROVE  \/ phase'[r] = phase[r] /\ task'[r] = task[r]
         \/ /\ phase[r] \in {"wait", "gather", "giveup"}
            /\ phase'[r] \in {"gather", "giveup"}
            /\ task'[r] = task[r]
         \/ /\ phase[r] \notin {"wait", "gather", "giveup"}
            /\ phase'[r] = "idle" /\ task'[r] = None
  BY DEF TypeOK, CancelDeliveries

\* Nothing begins to execute because something was cancelled.
LEMMA CancelDeliveriesExec ==
  ASSUME TypeOK, NEW S \in SUBSET Runs, CancelDeliveries(S), NEW j \in Jobs
  PROVE  /\ exec'[j] = exec[j] \/ exec'[j] \in {"stopping", "closing", "done"}
         /\ exec'[j] \in {"stopping", "closing"} => exec[j] \in {"live", "stopping", "closing"}
         /\ exec[j] = "none" => exec'[j] = "none"
         /\ (\A r \in S : task[r] # j) => exec'[j] = exec[j]
  BY DEF TypeOK, CancelDeliveries, AfterExecCancel

\* The executions that are cancelled are those of the deliveries that wait for one.
LEMMA CancelDeliveriesTasks ==
  ASSUME NEW S, CancelDeliveries(S)
  PROVE  exec' = AfterExecCancel(
             {task[r] : r \in {r \in S : phase[r] \in {"wait", "gather", "giveup"}}})
<1> DEFINE cleaning == {r \in S : phase[r] = "wait"}
           waiting == {r \in S : phase[r] \in {"gather", "giveup"}}
<1>1. cleaning \cup waiting = {r \in S : phase[r] \in {"wait", "gather", "giveup"}}
  OBVIOUS
<1>2. exec' = AfterExecCancel({task[r] : r \in cleaning \cup waiting})
  BY DEF CancelDeliveries
<1> HIDE DEF cleaning, waiting
<1>3. QED
  BY <1>1, <1>2

LEMMA CancelDeliveriesExecuting ==
  ASSUME TypeOK, NEW S \in SUBSET Runs, CancelDeliveries(S)
  PROVE  Executing' \subseteq Executing
  BY CancelDeliveriesExec DEF Executing

LEMMA OwnNext ==
  ASSUME TypeOK, OwnDelivery, Next
  PROVE  OwnDelivery'
<1> USE RunOfJob, NoneAssumption DEF TypeOK, OwnDelivery, taskVars
<1>1. CASE UNCHANGED <<task, phase>>
  BY <1>1
<1>2. ASSUME NEW r \in Runs, AcquireSlot(r) \/ BeginExecution(r) \/ LoseLease(r)
                              \/ ReadStatus(r) \/ Finish(r)
      PROVE  OwnDelivery'
  BY <1>2 DEF AcquireSlot, BeginExecution, LoseLease, ReadStatus, Finish
<1>3. ASSUME NEW r \in Runs, Claim(r) PROVE OwnDelivery'
  BY <1>3 DEF Claim, EndDelivery
<1>4. ASSUME NEW r \in Runs, MarkInterrupted(r) \/ GiveUp(r) PROVE OwnDelivery'
  BY <1>4 DEF MarkInterrupted, GiveUp, EndDelivery
<1>5. ASSUME NEW S \in SUBSET Runs, CancelDeliveries(S) PROVE OwnDelivery'
  BY <1>5, CancelDeliveriesPhase
<1>6. ASSUME NEW j \in Jobs, Schedule(j) PROVE OwnDelivery'
  BY <1>6 DEF Schedule
<1>7. ASSUME ProcessGone PROVE OwnDelivery'
  BY <1>7 DEF ProcessGone
<1>8. QED
  <2>1. ASSUME NEW r \in Runs, CancelRequest(r) PROVE OwnDelivery'
    BY <1>1, <1>5, <2>1 DEF CancelRequest
  <2>2. ASSUME NEW r \in Runs, CancelDelivery(r) PROVE OwnDelivery'
    BY <1>5, <2>2 DEF CancelDelivery
  <2>3. ASSUME NEW r \in Runs, Request(r) \/ CancelWrite(r) \/ CancelLive(r) \/ CancelPaused(r)
        PROVE  UNCHANGED <<task, phase>>
    BY <2>3 DEF Request, CreateRun, BlockRun, RequestResume, Refuse, CancelWrite, CancelLive,
                CancelPaused
  <2>4. ASSUME NEW j \in Jobs, Enqueue(j) \/ Execute(j) PROVE UNCHANGED <<task, phase>>
    BY <2>4 DEF Enqueue, Execute, ExecLive, ExecRaise, ExecRun, ExecPlan, ExecEnd,
                ExecInterrupted, ExecClosed
  <2>5. ASSUME Poll \/ Start \/ Recover PROVE UNCHANGED <<task, phase>>
    BY <2>5 DEF Poll, Start, Recover
  <2>6. ASSUME Shutdown \/ ShutdownEnd \/ Crash PROVE OwnDelivery'
    BY <1>5, <1>7, <2>6 DEF Shutdown, ShutdownEnd, Crash
  <2>7. QED
    BY <1>1, <1>2, <1>3, <1>4, <1>6, <2>1, <2>2, <2>3, <2>4, <2>5, <2>6
       DEF Next, Deliver, CancelRun

\* Before the service is up no coroutine takes a step.
LEMMA NothingNext ==
  ASSUME TypeOK, OwnDelivery, NothingYet, Next
  PROVE  NothingYet'
<1> USE RunOfJob DEF TypeOK, NothingYet, taskVars, execVars, dbVars
<1>1. ASSUME ProcessGone PROVE NothingYet'
  BY <1>1 DEF ProcessGone
<1>2. ASSUME NEW r \in Runs, Deliver(r) \/ LoseLease(r) PROVE NothingYet'
  BY <1>2 DEF Deliver, AcquireSlot, Claim, BeginExecution, ReadStatus, Finish,
              MarkInterrupted, GiveUp, LoseLease
<1>3. ASSUME NEW r \in Runs, Request(r) \/ CancelRun(r) PROVE NothingYet'
  BY <1>3 DEF Request, CreateRun, BlockRun, RequestResume, Refuse, CancelRun, CancelRequest,
              CancelDelivery, CancelWrite, CancelLive, CancelPaused
<1>4. ASSUME NEW j \in Jobs, Enqueue(j) \/ Schedule(j) PROVE NothingYet'
  BY <1>4 DEF Enqueue, Schedule
<1>5. ASSUME NEW j \in Jobs, Execute(j) PROVE NothingYet'
  BY <1>5 DEF Execute, ExecLive, ExecRaise, ExecRun, ExecPlan, ExecEnd, ExecInterrupted,
              ExecClosed
<1>6. ASSUME Poll \/ Shutdown \/ Start \/ Recover PROVE NothingYet'
  BY <1>6 DEF Poll, Shutdown, Start, Recover
<1>7. QED
  BY <1>1, <1>2, <1>3, <1>4, <1>5, <1>6 DEF Next, ShutdownEnd, Crash

LEMMA ExecutingNext ==
  ASSUME TypeOK, OwnDelivery, ExecutingIsDelivered, Next
  PROVE  ExecutingIsDelivered'
<1> USE RunOfJob, NoneAssumption DEF TypeOK, OwnDelivery, ExecutingIsDelivered, taskVars, execVars
<1>1. ASSUME UNCHANGED <<task, phase>>, Executing' \subseteq Executing
      PROVE  ExecutingIsDelivered'
  BY <1>1
<1>2. ASSUME NEW r \in Runs, AcquireSlot(r) PROVE ExecutingIsDelivered'
  BY <1>2 DEF AcquireSlot, Executing
<1>3. ASSUME NEW r \in Runs, Claim(r) PROVE ExecutingIsDelivered'
  BY <1>3 DEF Claim, EndDelivery, Executing
<1>4. ASSUME NEW r \in Runs, BeginExecution(r) PROVE ExecutingIsDelivered'
  BY <1>4 DEF BeginExecution, Executing
<1>5. ASSUME NEW r \in Runs, LoseLease(r) PROVE ExecutingIsDelivered'
  BY <1>5 DEF LoseLease, Executing, AfterExecCancel
<1>6. ASSUME NEW r \in Runs, ReadStatus(r) PROVE ExecutingIsDelivered'
  BY <1>6 DEF ReadStatus, Executing
<1>7. ASSUME NEW r \in Runs, Finish(r) PROVE ExecutingIsDelivered'
  BY <1>7 DEF Finish, Executing
<1>8. ASSUME NEW r \in Runs, MarkInterrupted(r) \/ GiveUp(r) PROVE ExecutingIsDelivered'
  BY <1>8 DEF MarkInterrupted, GiveUp, EndDelivery, Executing
<1>9. ASSUME NEW S \in SUBSET Runs, CancelDeliveries(S) PROVE ExecutingIsDelivered'
  <2>1. Executing' \subseteq Executing
    BY <1>9, CancelDeliveriesExecuting
  <2> QED
    BY <1>9, <2>1, CancelDeliveriesPhase DEF Executing
<1>10. ASSUME NEW j \in Jobs, Schedule(j) PROVE ExecutingIsDelivered'
  BY <1>10 DEF Schedule, Executing
<1>11. ASSUME NEW j \in Jobs, Execute(j) PROVE ExecutingIsDelivered'
  BY <1>1, <1>11 DEF Execute, ExecLive, ExecRaise, ExecRun, ExecPlan, ExecEnd,
     ExecInterrupted, ExecClosed, Executing
<1>12. ASSUME ProcessGone PROVE ExecutingIsDelivered'
  BY <1>12 DEF ProcessGone, Executing
<1>13. ASSUME NEW r \in Runs, CancelRun(r) PROVE ExecutingIsDelivered'
  <2>1. CASE \E S \in SUBSET Runs : CancelDeliveries(S)
    BY <1>9, <2>1
  <2>2. CASE UNCHANGED <<task, phase, exec>>
    BY <1>1, <2>2 DEF Executing
  <2>3. QED
    BY <1>13, <2>1, <2>2 DEF CancelRun, CancelRequest, CancelDelivery, CancelWrite,
       CancelLive, CancelPaused
<1>14. ASSUME NEW r \in Runs, Request(r) PROVE UNCHANGED <<task, phase, exec>>
  BY <1>14 DEF Request, CreateRun, BlockRun, RequestResume, Refuse
<1>15. ASSUME NEW j \in Jobs, Enqueue(j) PROVE UNCHANGED <<task, phase, exec>>
  BY <1>15 DEF Enqueue
<1>16. ASSUME Poll \/ Start \/ Recover PROVE UNCHANGED <<task, phase, exec>>
  BY <1>16 DEF Poll, Start, Recover
<1>17. ASSUME UNCHANGED <<task, phase, exec>> PROVE ExecutingIsDelivered'
  BY <1>17 DEF Executing
<1>18. QED
  BY <1>2, <1>3, <1>4, <1>5, <1>6, <1>7, <1>8, <1>9, <1>10, <1>11, <1>12, <1>13, <1>14,
     <1>15, <1>16, <1>17 DEF Next, Deliver, Shutdown, ShutdownEnd, Crash

-----------------------------------------------------------------------------
(* Leases                                                                  *)

\* A job that was leased is never queued again, and is executed by the one
\* delivery that claimed it.
LEMMA LeasedNext ==
  ASSUME TypeOK, OwnDelivery, NothingYet, LeasedByDelivery, ExecutedAtMostOnce, Next
  PROVE  LeasedByDelivery' /\ ExecutedAtMostOnce'
<1> DEFINE Goal == LeasedByDelivery' /\ ExecutedAtMostOnce'
<1> USE RunOfJob, NoneAssumption
    DEF TypeOK, OwnDelivery, LeasedByDelivery, ExecutedAtMostOnce, taskVars, execVars, dbVars
<1>1. ASSUME UNCHANGED <<job, executions, task, phase>> PROVE Goal
  BY <1>1
<1>2. ASSUME NEW r \in Runs, AcquireSlot(r) \/ LoseLease(r) \/ ReadStatus(r) PROVE Goal
  BY <1>2 DEF AcquireSlot, LoseLease, ReadStatus
<1>3. ASSUME NEW r \in Runs, Claim(r) PROVE Goal
  BY <1>3 DEF Claim, EndDelivery
<1>4. ASSUME NEW r \in Runs, BeginExecution(r) PROVE Goal
  BY <1>4 DEF BeginExecution
<1>5. ASSUME NEW r \in Runs, Finish(r) PROVE Goal
  BY <1>5 DEF Finish
<1>6. ASSUME NEW r \in Runs, MarkInterrupted(r) \/ GiveUp(r) PROVE Goal
  BY <1>6 DEF MarkInterrupted, GiveUp, EndDelivery
<1>7. ASSUME NEW S \in SUBSET Runs, CancelDeliveries(S),
             UNCHANGED executions,
             \A j \in Jobs : job'[j] # job[j] => job[j] = "queued" /\ job'[j] = "cancelled"
      PROVE  Goal
  <2>1. \A r \in Runs : phase'[r] \in {"claimed", "wait", "gather", "giveup", "finish"} =>
           /\ phase[r] \in {"claimed", "wait", "gather", "giveup", "finish"}
           /\ task'[r] = task[r] /\ task[r] \in Jobs
           /\ phase'[r] = "claimed" => phase[r] = "claimed"
    BY <1>7, CancelDeliveriesPhase
  <2>2. QED
    BY <1>7, <2>1
<1>8. ASSUME NEW j \in Jobs, Enqueue(j) PROVE Goal
  BY <1>8 DEF Enqueue, NextJob
<1>9. ASSUME NEW j \in Jobs, Schedule(j) PROVE Goal
  BY <1>9 DEF Schedule
<1>10. ASSUME ProcessGone PROVE Goal
  BY <1>10 DEF ProcessGone
<1>11. ASSUME Recover PROVE Goal
  BY <1>11 DEF Recover, NothingYet
<1>12. ASSUME NEW r \in Runs, CancelRun(r) PROVE Goal
  <2>1. CASE CancelRequest(r)
    <3>1. CASE {j \in QueuedJobs : RunOf(j) = r} = {}
      BY <1>1, <2>1, <3>1 DEF CancelRequest
    <3>2. CASE {j \in QueuedJobs : RunOf(j) = r} # {}
      BY <1>7, <2>1, <3>2 DEF CancelRequest, QueuedJobs
    <3>3. QED
      BY <3>1, <3>2
  <2>2. CASE CancelDelivery(r)
    BY <1>7, <2>2 DEF CancelDelivery
  <2>3. CASE CancelWrite(r) \/ CancelLive(r) \/ CancelPaused(r)
    BY <1>1, <2>3 DEF CancelWrite, CancelLive, CancelPaused
  <2>4. QED
    BY <1>12, <2>1, <2>2, <2>3 DEF CancelRun
<1>13. ASSUME NEW r \in Runs, Request(r) PROVE UNCHANGED <<job, executions, task, phase>>
  BY <1>13 DEF Request, CreateRun, BlockRun, RequestResume, Refuse
<1>14. ASSUME NEW j \in Jobs, Execute(j) PROVE UNCHANGED <<job, executions, task, phase>>
  BY <1>14 DEF Execute, ExecLive, ExecRaise, ExecRun, ExecPlan, ExecEnd,
     ExecInterrupted, ExecClosed
<1>15. ASSUME Poll \/ Start PROVE UNCHANGED <<job, executions, task, phase>>
  BY <1>15 DEF Poll, Start
<1>16. ASSUME Shutdown PROVE Goal
  BY <1>7, <1>16 DEF Shutdown
<1>17. QED
  BY <1>1, <1>2, <1>3, <1>4, <1>5, <1>6, <1>8, <1>9, <1>10, <1>11, <1>12, <1>13, <1>14,
     <1>15, <1>16 DEF Next, Deliver, ShutdownEnd, Crash

\* A job is inserted only while its run has no other that is queued or leased.
LEMMA OneActiveNext ==
  ASSUME TypeOK, OwnDelivery, OneActiveJob, Next
  PROVE  OneActiveJob'
<1> USE RunOfJob, NoneAssumption
    DEF TypeOK, OwnDelivery, OneActiveJob, taskVars, execVars, dbVars
<1>1. ASSUME Active' \subseteq Active PROVE OneActiveJob'
  BY <1>1
<1>2. ASSUME UNCHANGED job PROVE Active' \subseteq Active
  BY <1>2 DEF Active
<1>3. ASSUME NEW r \in Runs, Claim(r) \/ Finish(r) PROVE Active' \subseteq Active
  BY <1>3 DEF Claim, Finish, Active
<1>4. ASSUME NEW j \in Jobs, Enqueue(j) PROVE OneActiveJob'
  BY <1>4 DEF Enqueue, MayEnqueue, Active
<1>5. ASSUME NEW r \in Runs, CancelRequest(r) PROVE Active' \subseteq Active
  BY <1>5 DEF CancelRequest, Active, QueuedJobs
<1>6. ASSUME Recover PROVE Active' \subseteq Active
  BY <1>6 DEF Recover, Active
<1>7. ASSUME NEW r \in Runs, Request(r) PROVE UNCHANGED job
  BY <1>7 DEF Request, CreateRun, BlockRun, RequestResume, Refuse
<1>8. ASSUME NEW r \in Runs, CancelDelivery(r) \/ CancelWrite(r) \/ CancelLive(r)
                             \/ CancelPaused(r)
      PROVE  UNCHANGED job
  BY <1>8 DEF CancelDelivery, CancelWrite, CancelLive, CancelPaused
<1>9. ASSUME NEW r \in Runs, AcquireSlot(r) \/ BeginExecution(r) \/ ReadStatus(r)
                             \/ MarkInterrupted(r) \/ GiveUp(r) \/ LoseLease(r)
      PROVE  UNCHANGED job
  BY <1>9 DEF AcquireSlot, BeginExecution, ReadStatus, MarkInterrupted, GiveUp, LoseLease
<1>10. ASSUME NEW j \in Jobs, Schedule(j) \/ Execute(j) PROVE UNCHANGED job
  BY <1>10 DEF Schedule, Execute, ExecLive, ExecRaise, ExecRun, ExecPlan, ExecEnd,
     ExecInterrupted, ExecClosed
<1>11. ASSUME Poll \/ Shutdown \/ ShutdownEnd \/ Crash \/ Start PROVE UNCHANGED job
  BY <1>11 DEF Poll, Shutdown, ShutdownEnd, Crash, ProcessGone, Start
<1>12. QED
  BY <1>1, <1>2, <1>3, <1>4, <1>5, <1>6, <1>7, <1>8, <1>9, <1>10, <1>11
     DEF Next, Deliver, CancelRun

-----------------------------------------------------------------------------
(* Slots                                                                   *)

\* The semaphore: only AcquireSlot lets a delivery in, and it counts first.
LEMMA SlotNext ==
  ASSUME TypeOK, OwnDelivery, SlotLimit, Next
  PROVE  SlotLimit'
<1> USE RunOfJob, NoneAssumption DEF TypeOK, OwnDelivery, taskVars, execVars
<1>1. IsFiniteSet(SlotsTaken) /\ Cardinality(SlotsTaken) \in Nat
  BY QueueAssumption, FS_Subset, FS_CardinalityType DEF SlotsTaken
<1>2. ASSUME SlotsTaken' \subseteq SlotsTaken PROVE SlotLimit'
  <2>1. Cardinality(SlotsTaken') <= Cardinality(SlotsTaken)
    BY <1>1, <1>2, FS_Subset
  <2>2. IsFiniteSet(SlotsTaken') /\ Cardinality(SlotsTaken') \in Nat
    BY <1>1, <1>2, FS_Subset, FS_CardinalityType
  <2>3. QED
    BY <1>1, <2>1, <2>2, QueueAssumption DEF SlotLimit
<1>3. ASSUME NEW r \in Runs, AcquireSlot(r) PROVE SlotLimit'
  <2>1. SlotsTaken' = SlotsTaken \cup {r} /\ r \notin SlotsTaken
    BY <1>3 DEF AcquireSlot, SlotsTaken
  <2>2. Cardinality(SlotsTaken') = Cardinality(SlotsTaken) + 1
    BY <1>1, <2>1, FS_AddElement
  <2>3. QED
    BY <1>1, <1>3, <2>2, QueueAssumption DEF AcquireSlot, SlotLimit
<1>4. ASSUME UNCHANGED phase PROVE SlotsTaken' \subseteq SlotsTaken
  BY <1>4 DEF SlotsTaken
<1>5. ASSUME NEW r \in Runs, Claim(r) \/ BeginExecution(r) \/ LoseLease(r) \/ ReadStatus(r)
                             \/ Finish(r) \/ MarkInterrupted(r) \/ GiveUp(r)
      PROVE  SlotsTaken' \subseteq SlotsTaken
  BY <1>5 DEF Claim, BeginExecution, LoseLease, ReadStatus, Finish, MarkInterrupted, GiveUp,
     EndDelivery, SlotsTaken
<1>6. ASSUME NEW S \in SUBSET Runs, CancelDeliveries(S) PROVE SlotsTaken' \subseteq SlotsTaken
  BY <1>6, CancelDeliveriesPhase DEF SlotsTaken
<1>7. ASSUME NEW j \in Jobs, Schedule(j) PROVE SlotsTaken' \subseteq SlotsTaken
  BY <1>7 DEF Schedule, SlotsTaken
<1>8. ASSUME ShutdownEnd \/ Crash PROVE SlotsTaken' \subseteq SlotsTaken
  BY <1>8 DEF ShutdownEnd, Crash, ProcessGone, SlotsTaken
<1>9. ASSUME NEW r \in Runs, CancelRun(r) PROVE SlotsTaken' \subseteq SlotsTaken
  <2>1. \/ \E S \in SUBSET Runs : CancelDeliveries(S)
        \/ UNCHANGED phase
    BY <1>9 DEF CancelRun, CancelRequest, CancelDelivery, CancelWrite, CancelLive, CancelPaused
  <2>2. QED
    BY <1>4, <1>6, <2>1
<1>10. ASSUME Shutdown PROVE SlotsTaken' \subseteq SlotsTaken
  BY <1>6, <1>10 DEF Shutdown
<1>11. ASSUME NEW r \in Runs, Request(r) PROVE UNCHANGED phase
  BY <1>11 DEF Request, CreateRun, BlockRun, RequestResume, Refuse
<1>12. ASSUME NEW j \in Jobs, Enqueue(j) \/ Execute(j) PROVE UNCHANGED phase
  BY <1>12 DEF Enqueue, Execute, ExecLive, ExecRaise, ExecRun, ExecPlan, ExecEnd,
     ExecInterrupted, ExecClosed
<1>13. ASSUME Poll \/ Start \/ Recover PROVE UNCHANGED phase
  BY <1>13 DEF Poll, Start, Recover
<1>14. QED
  BY <1>2, <1>3, <1>4, <1>5, <1>7, <1>8, <1>9, <1>10, <1>11, <1>12, <1>13
     DEF Next, Deliver

-----------------------------------------------------------------------------
(* Runs that are shown running                                             *)

\* While the service is up a cancel request does not touch an execution that has
\* a runtime: it tells the policy instead.
LEMMA CancelRunExec ==
  ASSUME TypeOK, OwnDelivery, LeasedByDelivery, OneActiveJob, RunningIsLive,
         NEW r \in Runs, CancelRun(r), NEW j \in Jobs
  PROVE  exec'[j] = exec[j] \/ (exec[j] = "starting" /\ exec'[j] = "done")
<1> USE RunOfJob, NoneAssumption DEF TypeOK, OwnDelivery, execVars, taskVars
<1>1. CASE CancelRequest(r)
  <2>1. CASE {k \in QueuedJobs : RunOf(k) = r} = {}
    BY <1>1, <2>1 DEF CancelRequest
  <2>2. CASE {k \in QueuedJobs : RunOf(k) = r} # {}
    <3>1. phase[r] \notin {"claimed", "wait", "gather", "giveup", "finish"}
      BY <2>2 DEF LeasedByDelivery, OneActiveJob, Active, QueuedJobs
    <3>2. CancelDeliveries({q \in {r} : task[q] # None})
      BY <1>1, <2>2 DEF CancelRequest
    <3>3. exec' = AfterExecCancel({task[q] : q \in {q \in {p \in {r} : task[p] # None} :
                                        phase[q] \in {"wait", "gather", "giveup"}}})
      BY <3>2, CancelDeliveriesTasks
    <3>4. QED
      BY <3>1, <3>3 DEF AfterExecCancel
  <2>3. QED
    BY <2>1, <2>2
<1>2. CASE CancelDelivery(r)
  <2>1. exec' = AfterExecCancel({task[q] : q \in {q \in {r} :
                                    phase[q] \in {"wait", "gather", "giveup"}}})
    BY <1>2, CancelDeliveriesTasks DEF CancelDelivery
  <2>2. RunOf(j) = r => exec[j] \notin {"live", "stopping", "closing"}
    BY <1>2 DEF CancelDelivery, RunningIsLive
  <2>3. j = task[r] => RunOf(j) = r
    OBVIOUS
  <2>4. QED
    BY <2>1, <2>2, <2>3 DEF AfterExecCancel
<1>3. CASE CancelWrite(r) \/ CancelLive(r) \/ CancelPaused(r)
  BY <1>3 DEF CancelWrite, CancelLive, CancelPaused
<1>4. QED
  BY <1>1, <1>2, <1>3 DEF CancelRun

LEMMA RunningNext ==
  ASSUME TypeOK, OwnDelivery, NothingYet, LeasedByDelivery, ExecutingIsDelivered,
         OneActiveJob, RunningIsLive, Next
  PROVE  RunningIsLive'
<1> USE RunOfJob, NoneAssumption
    DEF TypeOK, OwnDelivery, RunningIsLive, taskVars, execVars, dbVars
<1>1. ASSUME UNCHANGED <<proc, exec, live, task, phase>>,
             \A r \in Runs : status'[r] = "running" => status[r] = "running"
      PROVE  RunningIsLive'
  BY <1>1
<1>2. ASSUME NEW r \in Runs, AcquireSlot(r) \/ ReadStatus(r) \/ Finish(r)
      PROVE  RunningIsLive'
  BY <1>2 DEF AcquireSlot, ReadStatus, Finish
<1>3. ASSUME NEW r \in Runs, Claim(r) PROVE RunningIsLive'
  BY <1>3 DEF Claim, EndDelivery
<1>4. ASSUME NEW r \in Runs, BeginExecution(r) PROVE RunningIsLive'
  <2>1. exec[task[r]] \notin {"live", "stopping"}
    BY <1>4 DEF BeginExecution, ExecutingIsDelivered, Executing
  <2>2. QED
    BY <1>4, <2>1 DEF BeginExecution
<1>5. ASSUME NEW r \in Runs, MarkInterrupted(r) \/ GiveUp(r) PROVE RunningIsLive'
  BY <1>5 DEF MarkInterrupted, GiveUp, EndDelivery
<1>6. ASSUME NEW r \in Runs, LoseLease(r) PROVE RunningIsLive'
  <2>1. task[r] \in Jobs /\ \A q \in Runs : task[q] = task[r] => q = r
    BY <1>6, NoneAssumption DEF LoseLease
  <2>2. \A j \in Jobs : \/ exec'[j] = exec[j]
                        \/ exec[j] = "live" /\ exec'[j] = "stopping"
                        \/ exec[j] \in {"starting", "closing"} /\ exec'[j] = "done"
    BY <1>6, <2>1 DEF LoseLease, AfterExecCancel
  <2>3. \A j \in Jobs : j # task[r] => exec'[j] = exec[j]
    BY <1>6, <2>1 DEF LoseLease, AfterExecCancel
  <2>4. \A q \in Runs : phase'[q] = "wait" => phase[q] = "wait" /\ q # r
    BY <1>6 DEF LoseLease
  <2>5. \A q \in Runs : phase'[q] = "wait" => exec'[task'[q]] # "stopping"
    <3> SUFFICES ASSUME NEW q \in Runs, phase'[q] = "wait" PROVE exec'[task'[q]] # "stopping"
      OBVIOUS
    <3>1. phase[q] = "wait" /\ q # r /\ task'[q] = task[q]
      BY <1>6, <2>4 DEF LoseLease
    <3>2. task[q] \in Jobs /\ task[q] # task[r]
      BY <2>1, <3>1, DeliveryHasJob
    <3>3. exec'[task[q]] = exec[task[q]]
      BY <2>3, <3>2
    <3>4. QED
      BY <3>1, <3>3
  <2>6. UNCHANGED <<proc, status, live>>
    BY <1>6 DEF LoseLease
  <2>7. \A j \in Jobs : exec'[j] \in {"live", "stopping", "closing"} => RunOf(j) \in live'
    BY <2>2, <2>6
  <2>8. \A j \in Jobs : exec[j] \in {"live", "stopping"} => exec'[j] \in {"live", "stopping"}
    <3> SUFFICES ASSUME exec[task[r]] = "stopping" PROVE FALSE
      BY <2>2, <2>3 DEF LoseLease
    <3>1. QED
      BY <1>6 DEF LoseLease
  <2>9. QED
    BY <2>5, <2>6, <2>7, <2>8
<1>7. ASSUME NEW j \in Jobs, Schedule(j) PROVE RunningIsLive'
  BY <1>7 DEF Schedule
<1>8. ASSUME NEW j \in Jobs, Enqueue(j) PROVE RunningIsLive'
  BY <1>8 DEF Enqueue
<1>9. ASSUME NEW j \in Jobs, Execute(j) PROVE RunningIsLive'
  <2>1. exec[j] # "none" /\ (proc # "starting")
    BY <1>9 DEF Execute, ExecLive, ExecRaise, ExecRun, ExecPlan, ExecEnd, ExecInterrupted,
       ExecClosed, NothingYet
  <2>2. CASE ExecLive(j) \/ ExecRaise(j) \/ ExecRun(j) \/ ExecPlan(j)
    BY <2>1, <2>2 DEF ExecLive, ExecRaise, ExecRun, ExecPlan
  <2>3. CASE (\E o \in Outcomes : ExecEnd(j, o)) \/ ExecInterrupted(j)
    <3>1. exec' = [exec EXCEPT ![j] = "closing"] /\ exec[j] \in {"live", "stopping"}
      BY <2>3 DEF ExecEnd, ExecInterrupted
    <3>2. status'[RunOf(j)] # "running"
      BY <2>3 DEF ExecEnd, ExecInterrupted, Outcomes
    <3>3. \A r \in Runs : r # RunOf(j) => status'[r] = status[r]
      BY <2>3 DEF ExecEnd, ExecInterrupted
    <3>4. UNCHANGED <<proc, live, task, phase>>
      BY <2>3 DEF ExecEnd, ExecInterrupted
    <3>5. QED
      BY <2>1, <3>1, <3>2, <3>3, <3>4
  <2>4. CASE ExecClosed(j)
    <3>1. \A k \in Jobs : k # j /\ exec[k] \in {"live", "stopping", "closing"}
                             => RunOf(k) # RunOf(j)
      BY <2>4 DEF ExecClosed, ExecutingIsDelivered, Executing
    <3>2. QED
      BY <2>1, <2>4, <3>1 DEF ExecClosed
  <2>5. QED
    BY <1>9, <2>2, <2>3, <2>4 DEF Execute
<1>10. ASSUME NEW r \in Runs, CancelRun(r) PROVE RunningIsLive'
  <2>1. \A j \in Jobs : exec'[j] = exec[j] \/ (exec[j] = "starting" /\ exec'[j] = "done")
    BY <1>10, CancelRunExec DEF RunningIsLive
  <2>2. /\ UNCHANGED <<proc, live>> /\ proc = "up"
        /\ \A q \in Runs : status'[q] = "running" => status[q] = "running"
    BY <1>10 DEF CancelRun, CancelRequest, CancelDelivery, CancelWrite, CancelLive, CancelPaused
  <2>3. \A q \in Runs : phase'[q] = "wait" => phase[q] = "wait" /\ task'[q] = task[q]
    <3>1. \/ \E S \in SUBSET Runs : CancelDeliveries(S)
          \/ UNCHANGED <<task, phase>>
      BY <1>10 DEF CancelRun, CancelRequest, CancelDelivery, CancelWrite, CancelLive, CancelPaused
    <3>2. QED
      BY <3>1, CancelDeliveriesPhase
  <2>4. QED
    BY <2>1, <2>2, <2>3
<1>11. ASSUME Shutdown PROVE RunningIsLive'
  <2> DEFINE S == {r \in Runs : task[r] # None}
  <2>1. CancelDeliveries(S) /\ proc' = "stopping" /\ UNCHANGED live
    BY <1>11 DEF Shutdown
  <2>2. \A j \in Jobs : exec'[j] \in {"live", "stopping", "closing"}
                          => exec[j] \in {"live", "stopping", "closing"}
    BY <2>1, CancelDeliveriesExec
  <2>3. \A r \in Runs : phase'[r] # "wait"
    BY <2>1 DEF CancelDeliveries
  <2>4. QED
    BY <2>1, <2>2, <2>3
<1>12. ASSUME ProcessGone PROVE RunningIsLive'
  BY <1>12 DEF ProcessGone
<1>13. ASSUME Start \/ Recover PROVE RunningIsLive'
  BY <1>13 DEF Start, Recover
<1>14. ASSUME NEW r \in Runs, Request(r) PROVE RunningIsLive'
  BY <1>14 DEF Request, CreateRun, BlockRun, RequestResume, Refuse
<1>15. ASSUME Poll PROVE RunningIsLive'
  BY <1>15 DEF Poll
<1>16. QED
  BY <1>2, <1>3, <1>4, <1>5, <1>6, <1>7, <1>8, <1>9, <1>10, <1>11, <1>12, <1>13, <1>14,
     <1>15 DEF Next, Deliver, ShutdownEnd, Crash

-----------------------------------------------------------------------------
(* The theorems                                                            *)

\* What a delivery claimed it executes once, in a slot, and finishes; a run is
\* shown running only by an execution that will write another status.  Holds of
\* every interleaving of requests, deliveries, cancellations, shutdowns and crashes.
THEOREM DeliveryInvariant == Spec => []DeliveryInv
<1>1. Init => DeliveryInv
  <2> SUFFICES ASSUME Init PROVE DeliveryInv
    OBVIOUS
  <2> USE DEF Init
  <2>1. TypeOK
    BY QueueAssumption DEF TypeOK, Statuses, Phases
  <2>2. OwnDelivery /\ NothingYet /\ LeasedByDelivery /\ ExecutedAtMostOnce
    BY DEF OwnDelivery, NothingYet, LeasedByDelivery, ExecutedAtMostOnce
  <2>3. ExecutingIsDelivered /\ OneActiveJob
    BY DEF ExecutingIsDelivered, Executing, OneActiveJob, Active
  <2>4. SlotLimit
    <3>1. SlotsTaken = {}
      BY DEF SlotsTaken
    <3>2. QED
      BY <3>1, FS_EmptySet, QueueAssumption DEF SlotLimit
  <2>5. RunningIsLive
    BY DEF RunningIsLive
  <2>6. QED
    BY <2>1, <2>2, <2>3, <2>4, <2>5 DEF DeliveryInv
<1>2. DeliveryInv /\ [Next]_vars => DeliveryInv'
  <2> SUFFICES ASSUME DeliveryInv, [Next]_vars PROVE DeliveryInv'
    OBVIOUS
  <2>1. CASE Next
    BY <2>1, TypeNext, OwnNext, NothingNext, LeasedNext, ExecutingNext, OneActiveNext,
       SlotNext, RunningNext DEF DeliveryInv
  <2>2. CASE UNCHANGED vars
    BY <2>2 DEF vars, DeliveryInv, TypeOK, OwnDelivery, NothingYet, LeasedByDelivery,
       ExecutedAtMostOnce, ExecutingIsDelivered, Executing, OneActiveJob, Active, SlotLimit,
       SlotsTaken, RunningIsLive
  <2>3. QED
    BY <2>1, <2>2
<1>3. QED
  BY <1>1, <1>2, PTL DEF Spec

\* The queue, the runs and the memory of the service stay within their types.
THEOREM TypeCorrect == Spec => []TypeOK
<1>1. DeliveryInv => TypeOK
  BY DEF DeliveryInv
<1>2. QED
  BY <1>1, DeliveryInvariant, PTL

\* No job is executed twice, whoever scheduled it and whatever was interrupted.
THEOREM ExecutedOnce == Spec => []ExecutedAtMostOnce
<1>1. DeliveryInv => ExecutedAtMostOnce
  BY DEF DeliveryInv
<1>2. QED
  BY <1>1, DeliveryInvariant, PTL

\* Two executions of a run never overlap: each is the one its delivery waits for.
THEOREM NoOverlap == Spec => []ExecutionsDoNotOverlap
<1>1. DeliveryInv => ExecutionsDoNotOverlap
  BY DEF DeliveryInv, ExecutingIsDelivered, ExecutionsDoNotOverlap
<1>2. QED
  BY <1>1, DeliveryInvariant, PTL

\* Executions inject into the deliveries that hold a slot.
THEOREM SlotsCover == Spec => []SlotsCoverExecutions
<1>1. DeliveryInv => SlotsCoverExecutions
  <2> SUFFICES ASSUME DeliveryInv PROVE Cardinality(Executing) <= Slots
    BY DEF SlotsCoverExecutions
  <2> DEFINE f == [j \in Executing |-> RunOf(j)]
  <2>1. f \in Injection(Executing, SlotsTaken)
    <3>1. \A j \in Executing : RunOf(j) \in SlotsTaken
      BY RunOfJob DEF DeliveryInv, ExecutingIsDelivered, Executing, SlotsTaken
    <3>2. \A j, k \in Executing : RunOf(j) = RunOf(k) => j = k
      BY DEF DeliveryInv, ExecutingIsDelivered
    <3>3. QED
      BY <3>1, <3>2 DEF Injection, IsInjective
  <2>2. IsFiniteSet(SlotsTaken)
    BY QueueAssumption, FS_Subset DEF SlotsTaken
  <2> HIDE DEF f
  <2>3. IsFiniteSet(Executing) /\ Cardinality(Executing) <= Cardinality(SlotsTaken)
    BY <2>1, <2>2, FS_Injection
  <2>4. Cardinality(Executing) \in Nat /\ Cardinality(SlotsTaken) \in Nat
    BY <2>2, <2>3, FS_CardinalityType
  <2>5. QED
    BY <2>3, <2>4, QueueAssumption DEF DeliveryInv, SlotLimit
<1>2. QED
  BY <1>1, DeliveryInvariant, PTL

\* While the service is up, a run is shown running only while it is executed.
THEOREM RunningExecuted == Spec => []RunningIsExecuted
<1>1. DeliveryInv => RunningIsExecuted
  BY DEF DeliveryInv, RunningIsLive, RunningIsExecuted, Executing
<1>2. QED
  BY <1>1, DeliveryInvariant, PTL

-----------------------------------------------------------------------------
(* The queue implements DeliveryPromise                                    *)

\* The state of the abstract queue.
Abstract(state) ==
  [j \in Jobs |-> CASE state[j] = "absent" -> "new"
                    [] state[j] = "queued" -> "waiting"
                    [] state[j] = "leased" -> "begun"
                    [] OTHER -> "over"]

\* The instance counts as this module does.
LEMMA SameCardinality == \A S : Promise!Cardinality(S) = Cardinality(S)
  BY DEF Promise!Cardinality, Cardinality

LEMMA PendingIsActive == TypeOK => Promise!Pending = Active
  BY DEF TypeOK, Promise!Pending, Active

\* Jobs that end together.
LEMMA EndsSome ==
  ASSUME TypeOK, TypeOK', NEW S \in SUBSET Jobs, S # {},
         \A j \in S : job[j] \in {"queued", "leased"}
                        /\ job'[j] \in {"finished", "interrupted", "cancelled"},
         \A j \in Jobs \ S : job'[j] = job[j]
  PROVE  Promise!Next
<1>1. \A j \in Jobs : Abstract(job')[j] = IF j \in S THEN "over" ELSE Abstract(job)[j]
  BY DEF Abstract
<1>2. Abstract(job') = [j \in Jobs |-> IF j \in S THEN "over" ELSE Abstract(job)[j]]
  BY <1>1 DEF Abstract
<1>3. S \subseteq Promise!Pending
  BY PendingIsActive DEF Active
<1>4. Promise!End(S)
  BY <1>2, <1>3 DEF Promise!End, Abstract
<1>5. QED
  BY <1>4 DEF Promise!Next, Promise!End

\* A job that begins.
LEMMA BeginsOne ==
  ASSUME NEW j \in Jobs, TypeOK, job[j] = "queued", job' = [job EXCEPT ![j] = "leased"]
  PROVE  Promise!Next
<1>1. job'[j] = "leased" /\ \A k \in Jobs \ {j} : job'[k] = job[k]
  BY DEF TypeOK
<1>2. Abstract(job)[j] = "waiting"
  BY DEF Abstract
<1>3. Abstract(job') = [Abstract(job) EXCEPT ![j] = "begun"]
  BY <1>1 DEF Abstract
<1>4. QED
  BY <1>2, <1>3 DEF Promise!Next, Promise!Begin, Abstract

\* Each step that writes a job accepts it, begins it or ends some.
LEMMA StepKeepsPromise ==
  ASSUME DeliveryInv, Next
  PROVE  Promise!Next \/ Abstract(job') = Abstract(job)
<1> DEFINE Goal == Promise!Next \/ Abstract(job') = Abstract(job)
<1>0. TypeOK /\ TypeOK' /\ OwnDelivery /\ LeasedByDelivery
  BY TypeNext DEF DeliveryInv
<1> USE RunOfJob, <1>0
<1>1. ASSUME UNCHANGED job PROVE Goal
  BY <1>1
<1>2. ASSUME NEW j \in Jobs, Enqueue(j) PROVE Goal
  <2>1. job[j] = "absent" /\ job' = [job EXCEPT ![j] = "queued"]
    BY <1>2 DEF Enqueue, NextJob
  <2>2. /\ Promise!Cardinality(Promise!Pending) < MaxPending
        /\ \A k \in Promise!Pending : RunOf(k) # RunOf(j)
    BY <1>2, PendingIsActive, SameCardinality DEF Enqueue, MayEnqueue
  <2>3. Abstract(job') = [Abstract(job) EXCEPT ![j] = "waiting"]
    BY <2>1 DEF TypeOK, Abstract
  <2>4. Abstract(job)[j] = "new"
    BY <2>1 DEF Abstract
  <2>5. QED
    BY <2>2, <2>3, <2>4 DEF Promise!Next, Promise!Accept, Abstract
<1>3. ASSUME NEW r \in Runs, Claim(r) PROVE Goal
  <2>1. task[r] \in Jobs
    BY <1>3, DeliveryHasJob DEF Claim
  <2>2. CASE job[task[r]] = "queued"
    BY <1>3, <2>1, <2>2, BeginsOne DEF Claim
  <2>3. CASE job[task[r]] # "queued"
    BY <1>1, <1>3, <2>3 DEF Claim
  <2>4. QED
    BY <2>2, <2>3
<1>4. ASSUME NEW r \in Runs, Finish(r) PROVE Goal
  <2>1. task[r] \in Jobs /\ job[task[r]] = "leased"
    BY <1>4, DeliveryHasJob DEF Finish, LeasedByDelivery
  <2>2. job'[task[r]] \in {"finished", "interrupted"}
    BY <1>4, <2>1 DEF Finish, TypeOK
  <2>3. \A j \in Jobs \ {task[r]} : job'[j] = job[j]
    BY <1>4 DEF Finish, TypeOK
  <2> DEFINE S == {task[r]}
  <2>4. S \in SUBSET Jobs /\ S # {} /\ \A j \in S : j = task[r]
    BY <2>1
  <2> HIDE DEF S
  <2>5. \A j \in S : job[j] \in {"queued", "leased"} /\ job'[j] \in {"finished", "interrupted"}
    BY <2>1, <2>2, <2>4
  <2>6. \A j \in Jobs \ S : job'[j] = job[j]
    BY <2>3 DEF S
  <2>7. QED
    BY <2>4, <2>5, <2>6, EndsSome
<1>5. ASSUME NEW r \in Runs, CancelRequest(r) PROVE Goal
  <2> DEFINE S == {j \in QueuedJobs : RunOf(j) = r}
  <2>1. CASE S = {}
    BY <1>1, <1>5, <2>1 DEF CancelRequest
  <2>2. CASE S # {}
    <3>1. job' = [j \in Jobs |-> IF j \in S THEN "cancelled" ELSE job[j]]
      BY <1>5, <2>2 DEF CancelRequest
    <3>2. S \in SUBSET Jobs /\ \A j \in S : job[j] = "queued"
      BY DEF QueuedJobs
    <3> HIDE DEF S
    <3>3. QED
      BY <2>2, <3>1, <3>2, EndsSome
  <2>3. QED
    BY <2>1, <2>2
<1>6. ASSUME Recover PROVE Goal
  <2> DEFINE S == {j \in Jobs : job[j] = "leased"}
  <2>1. \A j \in Jobs : IF j \in S THEN job'[j] \in {"finished", "interrupted"}
                                   ELSE job'[j] = job[j]
    BY <1>6 DEF Recover
  <2>2. S \in SUBSET Jobs /\ \A j \in S : job[j] = "leased"
    OBVIOUS
  <2> HIDE DEF S
  <2>3. CASE S = {}
    BY <1>1, <2>1, <2>3 DEF TypeOK
  <2>4. CASE S # {}
    BY <2>1, <2>2, <2>4, EndsSome
  <2>5. QED
    BY <2>3, <2>4
<1>7. ASSUME NEW r \in Runs, Request(r) PROVE UNCHANGED job
  BY <1>7 DEF Request, CreateRun, BlockRun, RequestResume, Refuse, dbVars
<1>8. ASSUME NEW r \in Runs, CancelDelivery(r) \/ CancelWrite(r) \/ CancelLive(r)
                             \/ CancelPaused(r)
      PROVE  UNCHANGED job
  BY <1>8 DEF CancelDelivery, CancelWrite, CancelLive, CancelPaused, dbVars
<1>9. ASSUME NEW r \in Runs, AcquireSlot(r) \/ BeginExecution(r) \/ ReadStatus(r)
                             \/ MarkInterrupted(r) \/ GiveUp(r) \/ LoseLease(r)
      PROVE  UNCHANGED job
  BY <1>9 DEF AcquireSlot, BeginExecution, ReadStatus, MarkInterrupted, GiveUp, LoseLease, dbVars
<1>10. ASSUME NEW j \in Jobs, Schedule(j) \/ Execute(j) PROVE UNCHANGED job
  BY <1>10 DEF Schedule, Execute, ExecLive, ExecRaise, ExecRun, ExecPlan, ExecEnd,
     ExecInterrupted, ExecClosed, dbVars
<1>11. ASSUME Poll \/ Shutdown \/ ShutdownEnd \/ Crash \/ Start PROVE UNCHANGED job
  BY <1>11 DEF Poll, Shutdown, ShutdownEnd, Crash, ProcessGone, Start, dbVars
<1> HIDE DEF Goal
<1>12. Goal
  BY <1>1, <1>2, <1>3, <1>4, <1>5, <1>6, <1>7, <1>8, <1>9, <1>10, <1>11
     DEF Next, Deliver, CancelRun
<1>13. QED
  BY <1>12 DEF Goal

\* An accepted delivery is begun at most once and never again after it ended, a
\* run has one at a time and the queue stays bounded, whatever is cancelled and
\* however often the service goes down.
THEOREM KeepsPromise == Spec => PromiseKept
<1>1. Init => Promise!Init
  BY DEF Init, Promise!Init
<1>2. DeliveryInv /\ [Next]_vars => [Promise!Next]_(Abstract(job))
  <2>1. DeliveryInv /\ Next => Promise!Next \/ Abstract(job') = Abstract(job)
    BY StepKeepsPromise
  <2>2. UNCHANGED vars => Abstract(job') = Abstract(job)
    BY DEF vars
  <2>3. QED
    BY <2>1, <2>2
<1>3. QED
  BY <1>1, <1>2, DeliveryInvariant, PTL DEF Spec, PromiseKept, Promise!Spec, Abstract
=============================================================================
