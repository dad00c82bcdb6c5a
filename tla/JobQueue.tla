------------------------------ MODULE JobQueue ------------------------------
(***************************************************************************)
(* Admission and delivery of runs in a secured installation:               *)
(* store/job_store.py with the part of runtime/orchestrator.py (RunManager)*)
(* that schedules, delivers and cancels jobs, and the recovery a service   *)
(* start performs (api/service.py).                                        *)
(*                                                                         *)
(* A request commits a job; a delivery coroutine of the run claims it,     *)
(* executes the run in a task of its own and finishes the job.  The job    *)
(* and the status of the run are written in separate transactions.         *)
(* Requests, cancellations, a lost lease, a shutdown and a crash come      *)
(* between any two of these steps.                                         *)
(***************************************************************************)
EXTENDS Naturals, FiniteSets

CONSTANTS
    Runs,
    Deliveries,     \* bound: how many deliveries of each run are explored
    Slots,          \* run_concurrency: deliveries that execute at a time
    MaxPending,     \* max_pending: queued and leased jobs
    MaxCrashes,     \* bound: crashes and shutdowns that are explored
    None            \* no job

ASSUME QueueAssumption ==
    /\ IsFiniteSet(Runs)
    /\ Deliveries \in [Runs -> Nat \ {0}]
    /\ Slots \in Nat \ {0}
    /\ MaxPending \in Nat \ {0}
    /\ MaxCrashes \in Nat

Jobs == UNION {{<<r, n>> : n \in 1..Deliveries[r]} : r \in Runs}
RunOf(j) == j[1]

ASSUME NoneAssumption == None \notin Jobs

VARIABLES
    proc,       \* the service process: "down", "starting", "up" or "stopping"
    job,        \* execution_jobs.state, "absent" before the job is inserted
    status,     \* runs.status; see Statuses
    plan,       \* runs with a stored plan
    asking,     \* execution requests between their checks and enqueue
    known,      \* jobs read by submit or the dispatcher, not scheduled yet
    task,       \* _tasks: the job whose delivery coroutine the run has
    phase,      \* where that coroutine is
    reason,     \* runs whose delivery has a reason for the interruption
    terminal,   \* runs that _deliver_job found in a terminal status
    exec,       \* the task that executes the run, per job
    live,       \* RunManager.live
    stop,       \* runs whose live policy is cancelled
    cancel,     \* where a cancel request on the run is
    executions, \* how often each job was executed
    crashes     \* crashes and shutdowns so far

dbVars   == <<job, status, plan>>
taskVars == <<task, phase, reason, terminal>>
execVars == <<exec, live, stop, executions>>
vars == <<proc, job, status, plan, asking, known, task, phase, reason, terminal,
          exec, live, stop, cancel, executions, crashes>>

\* "running" stands for planning and running, "failed" for failed and partial,
\* "interrupted" for interrupted and approval_required.
Statuses == {"none", "created", "blocked", "queued", "running", "completed",
             "failed", "cancelled", "interrupted"}
TerminalStatuses == {"completed", "failed", "cancelled"}
Phases == {"idle", "slot", "claim", "claimed", "wait", "gather", "finish", "finished", "giveup"}

TypeOK ==
    /\ proc \in {"down", "starting", "up", "stopping"}
    /\ job \in [Jobs -> {"absent", "queued", "leased", "finished", "interrupted", "cancelled"}]
    /\ status \in [Runs -> Statuses]
    /\ plan \subseteq Runs
    /\ asking \subseteq Runs
    /\ known \subseteq Jobs
    /\ task \in [Runs -> Jobs \cup {None}]
    /\ phase \in [Runs -> Phases]
    /\ reason \subseteq Runs
    /\ terminal \subseteq Runs
    /\ exec \in [Jobs -> {"none", "starting", "live", "stopping", "closing", "done"}]
    /\ live \subseteq Runs
    /\ stop \subseteq Runs
    /\ cancel \in [Runs -> {"none", "missed", "join", "write"}]
    /\ executions \in [Jobs -> Nat]
    /\ crashes \in 0..MaxCrashes

-----------------------------------------------------------------------------
(* Helpers                                                                 *)

Active == {j \in Jobs : job[j] \in {"queued", "leased"}}
QueuedJobs == {j \in Jobs : job[j] = "queued"}

\* Deliveries inside the semaphore.
SlotsTaken == {r \in Runs : phase[r] \notin {"idle", "slot"}}

\* The execution of a job has begun and its cleanup is not over.
Executing == {j \in Jobs : exec[j] \in {"starting", "live", "stopping", "closing"}}

\* The jobs of a run are inserted one after the other.
NextJob(j) ==
    /\ job[j] = "absent"
    /\ \A k \in Jobs : RunOf(k) = RunOf(j) /\ k[2] < j[2] => job[k] # "absent"

\* A delivery is over; a cancel request that waited for it goes on.
EndDelivery(r) ==
    /\ task' = [task EXCEPT ![r] = None]
    /\ phase' = [phase EXCEPT ![r] = "idle"]
    /\ reason' = reason \ {r}
    /\ terminal' = terminal \ {r}
    /\ cancel' = [cancel EXCEPT ![r] = IF @ = "join" THEN "write" ELSE @]

-----------------------------------------------------------------------------
Init ==
    /\ proc = "up"
    /\ job = [j \in Jobs |-> "absent"]
    /\ status = [r \in Runs |-> "none"]
    /\ plan = {}
    /\ asking = {}
    /\ known = {}
    /\ task = [r \in Runs |-> None]
    /\ phase = [r \in Runs |-> "idle"]
    /\ reason = {}
    /\ terminal = {}
    /\ exec = [j \in Jobs |-> "none"]
    /\ live = {}
    /\ stop = {}
    /\ cancel = [r \in Runs |-> "none"]
    /\ executions = [j \in Jobs |-> 0]
    /\ crashes = 0

-----------------------------------------------------------------------------
(* Requests                                                                *)

\* create_run, with or without start, and fork, whose run has the plan of its
\* source.  A configuration with problems blocks the run.
CreateRun(r, starts, forked) ==
    /\ proc = "up"
    /\ status[r] = "none"
    /\ status' = [status EXCEPT ![r] = "created"]
    /\ asking' = IF starts THEN asking \cup {r} ELSE asking
    /\ plan' = IF forked THEN plan \cup {r} ELSE plan
    /\ UNCHANGED <<proc, job, known, taskVars, execVars, cancel, crashes>>

BlockRun(r) ==
    /\ proc = "up"
    /\ status[r] = "none"
    /\ status' = [status EXCEPT ![r] = "blocked"]
    /\ UNCHANGED <<proc, job, plan, asking, known, taskVars, execVars, cancel, crashes>>

\* resume, also called when the approval a paused run waits for is resolved.
RequestResume(r) ==
    /\ proc = "up"
    /\ status[r] \in {"interrupted", "failed", "cancelled"}
    /\ r \in plan
    /\ asking' = asking \cup {r}
    /\ UNCHANGED <<proc, dbVars, known, taskVars, execVars, cancel, crashes>>

\* enqueue checks again in the transaction that inserts the job.
MayEnqueue(r) ==
    /\ Cardinality(Active) < MaxPending
    /\ \A j \in Active : RunOf(j) # r
    /\ status[r] \notin {"none", "running", "completed", "blocked"}

\* The handler then schedules the job, unless it is gone by then.
Enqueue(j) ==
    /\ proc = "up"
    /\ RunOf(j) \in asking
    /\ MayEnqueue(RunOf(j))
    /\ NextJob(j)
    /\ job' = [job EXCEPT ![j] = "queued"]
    /\ status' = [status EXCEPT ![RunOf(j)] = "queued"]
    /\ asking' = asking \ {RunOf(j)}
    /\ known' \in {known, known \cup {j}}
    /\ UNCHANGED <<proc, plan, taskVars, execVars, cancel, crashes>>

Refuse(r) ==
    /\ proc = "up"
    /\ r \in asking
    /\ ~MayEnqueue(r)
    /\ asking' = asking \ {r}
    /\ UNCHANGED <<proc, dbVars, known, taskVars, execVars, cancel, crashes>>

-----------------------------------------------------------------------------
(* Scheduling                                                              *)

\* (mutant of Poll) Only a start reads the queued jobs.
PollAtStartOnly ==
    /\ proc = "up"
    /\ UNCHANGED <<known, proc, dbVars, asking, taskVars, execVars, cancel, crashes>>

\* The dispatcher reads the queued jobs every second.
Poll ==
    /\ proc = "up"
    /\ known' = known \cup QueuedJobs
    /\ UNCHANGED <<proc, dbVars, asking, taskVars, execVars, cancel, crashes>>

\* _schedule_job: what was read may be out of date by now.
Schedule(j) ==
    /\ proc = "up"
    /\ j \in known
    /\ known' = known \ {j}
    /\ IF task[RunOf(j)] = None
       THEN /\ task' = [task EXCEPT ![RunOf(j)] = j]
            /\ phase' = [phase EXCEPT ![RunOf(j)] = "slot"]
       ELSE UNCHANGED <<task, phase>>
    /\ UNCHANGED <<proc, dbVars, asking, reason, terminal, execVars, cancel, crashes>>

-----------------------------------------------------------------------------
(* One delivery                                                            *)

AcquireSlot(r) ==
    /\ phase[r] = "slot"
    /\ Cardinality(SlotsTaken) < Slots
    /\ phase' = [phase EXCEPT ![r] = "claim"]
    /\ UNCHANGED <<proc, dbVars, asking, known, task, reason, terminal, execVars,
                   cancel, crashes>>

\* (mutant of Claim) The update does not ask that the job is still queued.
ClaimAnyway(r) ==
    /\ phase[r] = "claim"
    /\ job' = [job EXCEPT ![task[r]] = "leased"]
    /\ phase' = [phase EXCEPT ![r] = "claimed"]
    /\ UNCHANGED <<proc, status, plan, asking, known, task, reason, terminal, execVars,
                   cancel, crashes>>

\* One conditional update leases the job, or the delivery is over.
Claim(r) ==
    /\ phase[r] = "claim"
    /\ IF job[task[r]] = "queued"
       THEN /\ job' = [job EXCEPT ![task[r]] = "leased"]
            /\ phase' = [phase EXCEPT ![r] = "claimed"]
            /\ UNCHANGED <<task, reason, terminal, cancel>>
       ELSE EndDelivery(r) /\ UNCHANGED job
    /\ UNCHANGED <<proc, status, plan, asking, known, execVars, crashes>>

\* The claim returned: the run is executed in a task of its own.
BeginExecution(r) ==
    /\ phase[r] = "claimed"
    /\ phase' = [phase EXCEPT ![r] = "wait"]
    /\ exec' = [exec EXCEPT ![task[r]] = "starting"]
    /\ executions' = [executions EXCEPT ![task[r]] = @ + 1]
    /\ UNCHANGED <<proc, dbVars, asking, known, task, reason, terminal, live, stop,
                   cancel, crashes>>

\* What a cancellation does to the tasks that execute the jobs in S.
AfterExecCancel(S) ==
    [j \in Jobs |-> IF j \notin S THEN exec[j]
                    ELSE CASE exec[j] \in {"starting", "closing"} -> "done"
                           [] exec[j] = "live" -> "stopping"
                           [] exec[j] = "stopping" -> "closing"
                           [] OTHER -> exec[j]]

\* The heartbeat could not renew the lease: the execution is cancelled.  That
\* takes seconds, more than the execution spends on its first statements or a
\* cancel request between two of its own.
LoseLease(r) ==
    /\ phase[r] = "wait"
    /\ exec[task[r]] # "starting"
    /\ cancel[r] # "missed"
    /\ phase' = [phase EXCEPT ![r] = "gather"]
    /\ reason' = reason \cup {r}
    /\ exec' = AfterExecCancel({task[r]})
    /\ UNCHANGED <<proc, dbVars, asking, known, task, terminal, live, stop,
                   executions, cancel, crashes>>

\* (mutant of ReadStatus) The cleanup of the execution is not awaited.
ReadStatusAtOnce(r) ==
    /\ \/ phase[r] = "wait" /\ exec[task[r]] = "done"
       \/ phase[r] = "gather"
    /\ phase' = [phase EXCEPT ![r] = "finish"]
    /\ terminal' = IF status[r] \in TerminalStatuses THEN terminal \cup {r} ELSE terminal
    /\ UNCHANGED <<proc, dbVars, asking, known, task, reason, execVars, cancel, crashes>>

\* The execution, or its cleanup, is over: read how the run stands.
ReadStatus(r) ==
    /\ phase[r] \in {"wait", "gather"}
    /\ exec[task[r]] = "done"
    /\ phase' = [phase EXCEPT ![r] = "finish"]
    /\ terminal' = IF status[r] \in TerminalStatuses THEN terminal \cup {r} ELSE terminal
    /\ UNCHANGED <<proc, dbVars, asking, known, task, reason, execVars, cancel, crashes>>

\* (mutant of Finish) The job takes the status of its run.
FinishWithStatus(r) ==
    /\ phase[r] = "finish"
    /\ job' = [job EXCEPT ![task[r]] = IF @ # "leased" THEN @
                                       ELSE IF r \in terminal THEN status[r] ELSE "interrupted"]
    /\ phase' = [phase EXCEPT ![r] = "finished"]
    /\ UNCHANGED <<proc, status, plan, asking, known, task, reason, terminal, execVars,
                   cancel, crashes>>

\* The lease is still this worker's, or the update changes nothing.
Finish(r) ==
    /\ phase[r] = "finish"
    /\ job' = [job EXCEPT ![task[r]] = IF @ # "leased" THEN @
                                       ELSE IF r \in terminal THEN "finished" ELSE "interrupted"]
    /\ phase' = [phase EXCEPT ![r] = "finished"]
    /\ UNCHANGED <<proc, status, plan, asking, known, task, reason, terminal, execVars,
                   cancel, crashes>>

\* The status of the run is written in a second transaction.
MarkInterrupted(r) ==
    /\ phase[r] = "finished"
    /\ status' = IF r \in reason \ terminal THEN [status EXCEPT ![r] = "interrupted"]
                                            ELSE status
    /\ EndDelivery(r)
    /\ UNCHANGED <<proc, job, plan, asking, known, execVars, crashes>>

\* A delivery cancelled during its cleanup waits for the execution all the same,
\* then leaves without finishing the job.
GiveUp(r) ==
    /\ phase[r] = "giveup"
    /\ exec[task[r]] = "done"
    /\ EndDelivery(r)
    /\ UNCHANGED <<proc, dbVars, asking, known, execVars, crashes>>

-----------------------------------------------------------------------------
(* The execution of a run: _execute                                        *)

\* The runtime exists from here on: a cancel request reaches the policy.
ExecLive(j) ==
    /\ exec[j] = "starting"
    /\ exec' = [exec EXCEPT ![j] = "live"]
    /\ live' = live \cup {RunOf(j)}
    /\ stop' = stop \ {RunOf(j)}
    /\ UNCHANGED <<proc, dbVars, asking, known, taskVars, executions, cancel, crashes>>

\* The stored configuration does not load: nothing of the run is touched.
ExecRaise(j) ==
    /\ exec[j] = "starting"
    /\ exec' = [exec EXCEPT ![j] = "done"]
    /\ reason' = IF task[RunOf(j)] = j /\ phase[RunOf(j)] = "wait"
                 THEN reason \cup {RunOf(j)} ELSE reason
    /\ UNCHANGED <<proc, dbVars, asking, known, task, phase, terminal, live, stop,
                   executions, cancel, crashes>>

\* planning, or, for a resumed run, running.
ExecRun(j) ==
    /\ exec[j] = "live"
    /\ status' = [status EXCEPT ![RunOf(j)] = "running"]
    /\ UNCHANGED <<proc, job, plan, asking, known, taskVars, execVars, cancel, crashes>>

ExecPlan(j) ==
    /\ exec[j] = "live"
    /\ status[RunOf(j)] = "running"
    /\ plan' = plan \cup {RunOf(j)}
    /\ UNCHANGED <<proc, job, status, asking, known, taskVars, execVars, cancel, crashes>>

\* _finish, or the handler of an exception: the outcome is written.
ExecEnd(j, o) ==
    /\ exec[j] = "live"
    /\ o = "cancelled" => RunOf(j) \in stop
    /\ o # "failed" => status[RunOf(j)] = "running"
    /\ o = "completed" => RunOf(j) \in plan
    /\ status' = [status EXCEPT ![RunOf(j)] = o]
    /\ exec' = [exec EXCEPT ![j] = "closing"]
    /\ UNCHANGED <<proc, job, plan, asking, known, taskVars, live, stop, executions,
                   cancel, crashes>>

\* (mutant of ExecInterrupted) A cancelled execution leaves its status behind.
ExecInterruptedSilently(j) ==
    /\ exec[j] = "stopping"
    /\ exec' = [exec EXCEPT ![j] = "closing"]
    /\ UNCHANGED <<proc, dbVars, asking, known, taskVars, live, stop, executions,
                   cancel, crashes>>

\* A cancelled execution checkpoints and is interrupted.
ExecInterrupted(j) ==
    /\ exec[j] = "stopping"
    /\ status' = [status EXCEPT ![RunOf(j)] = "interrupted"]
    /\ exec' = [exec EXCEPT ![j] = "closing"]
    /\ UNCHANGED <<proc, job, plan, asking, known, taskVars, live, stop, executions,
                   cancel, crashes>>

\* The providers are closed and the runtime is gone.
ExecClosed(j) ==
    /\ exec[j] = "closing"
    /\ exec' = [exec EXCEPT ![j] = "done"]
    /\ live' = live \ {RunOf(j)}
    /\ UNCHANGED <<proc, dbVars, asking, known, taskVars, stop, executions, cancel, crashes>>

-----------------------------------------------------------------------------
(* Cancellation                                                            *)

\* Task.cancel on the deliveries of the runs in S.  One that waits for its
\* execution goes on to clean up, one that cleans up does no more than that, and
\* any other is over, whatever it was about to write.
CancelDeliveries(S) ==
    LET cleaning == {r \in S : phase[r] = "wait"}
        waiting == {r \in S : phase[r] \in {"gather", "giveup"}}
        over == S \ (cleaning \cup waiting)
    IN /\ phase' = [r \in Runs |-> IF r \in cleaning THEN "gather"
                                   ELSE IF r \in waiting THEN "giveup"
                                   ELSE IF r \in over THEN "idle" ELSE phase[r]]
       /\ task' = [r \in Runs |-> IF r \in over THEN None ELSE task[r]]
       /\ reason' = (reason \cup cleaning) \ over
       /\ terminal' = terminal \ over
       /\ exec' = AfterExecCancel({task[r] : r \in cleaning \cup waiting})

\* The request waits for the delivery it cancelled, if that is not over at once.
AfterJoin(r) == [cancel EXCEPT ![r] = IF task'[r] = None THEN "write" ELSE "join"]

\* cancel: cancel_queued takes a job that is still queued, and the delivery that
\* may have been scheduled for it ends.  Otherwise the request goes on below.
CancelRequest(r) ==
    /\ proc = "up"
    /\ status[r] # "none"
    /\ cancel[r] = "none"
    /\ LET queued == {j \in QueuedJobs : RunOf(j) = r}
       IN IF queued # {}
          THEN /\ job' = [j \in Jobs |-> IF j \in queued THEN "cancelled" ELSE job[j]]
               /\ status' = [status EXCEPT ![r] = "cancelled"]
               /\ CancelDeliveries({q \in {r} : task[q] # None})
               /\ cancel' = AfterJoin(r)
          ELSE /\ cancel' = [cancel EXCEPT ![r] = "missed"]
               /\ UNCHANGED <<job, status, taskVars, exec>>
    /\ UNCHANGED <<proc, plan, asking, known, live, stop, executions, crashes>>

\* A delivery without a runtime: "cancelled before runtime initialization".
CancelDelivery(r) ==
    /\ proc = "up"
    /\ cancel[r] = "missed"
    /\ r \notin live
    /\ task[r] # None
    /\ CancelDeliveries({r})
    /\ cancel' = AfterJoin(r)
    /\ UNCHANGED <<proc, dbVars, asking, known, live, stop, executions, crashes>>

\* Nothing executes the run as far as the request has seen.
CancelWrite(r) ==
    /\ proc = "up"
    /\ cancel[r] = "write"
    /\ status' = [status EXCEPT ![r] = "cancelled"]
    /\ cancel' = [cancel EXCEPT ![r] = "none"]
    /\ UNCHANGED <<proc, job, plan, asking, known, taskVars, execVars, crashes>>

\* A live run is told to stop.
CancelLive(r) ==
    /\ proc = "up"
    /\ cancel[r] = "missed"
    /\ r \in live
    /\ stop' = stop \cup {r}
    /\ cancel' = [cancel EXCEPT ![r] = "none"]
    /\ UNCHANGED <<proc, dbVars, asking, known, taskVars, exec, live, executions, crashes>>

\* A run that nothing executes is cancelled when it is paused, and left as it is
\* otherwise.  What was read of its status may be out of date when it is written.
CancelPaused(r) ==
    /\ proc = "up"
    /\ cancel[r] = "missed"
    /\ r \notin live /\ task[r] = None
    /\ cancel' = [cancel EXCEPT ![r] = IF status[r] \in {"interrupted", "created"}
                                       THEN "write" ELSE "none"]
    /\ UNCHANGED <<proc, dbVars, asking, known, taskVars, execVars, crashes>>

-----------------------------------------------------------------------------
(* Shutdown, crash and recovery                                            *)

\* shutdown: the dispatcher stops and every delivery is cancelled.
Shutdown ==
    /\ proc = "up"
    /\ crashes < MaxCrashes
    /\ crashes' = crashes + 1
    /\ proc' = "stopping"
    /\ CancelDeliveries({r \in Runs : task[r] # None})
    /\ UNCHANGED <<dbVars, asking, known, live, stop, executions, cancel>>

\* What the process had in memory is gone; what it committed is not.
ProcessGone ==
    /\ proc' = "down"
    /\ asking' = {}
    /\ known' = {}
    /\ task' = [r \in Runs |-> None]
    /\ phase' = [r \in Runs |-> "idle"]
    /\ reason' = {}
    /\ terminal' = {}
    /\ exec' = [j \in Jobs |-> "none"]
    /\ live' = {}
    /\ stop' = {}
    /\ cancel' = [r \in Runs |-> "none"]
    /\ UNCHANGED <<dbVars, executions>>

ShutdownEnd ==
    /\ proc = "stopping"
    /\ \A r \in Runs : task[r] = None
    /\ ProcessGone
    /\ UNCHANGED crashes

Crash ==
    /\ proc # "down"
    /\ crashes < MaxCrashes
    /\ crashes' = crashes + 1
    /\ ProcessGone

\* _start, holding the lock of the data directory: runs left running are
\* interrupted, never silently resumed.
Start ==
    /\ proc = "down"
    /\ proc' = "starting"
    /\ status' = [r \in Runs |-> IF status[r] = "running" THEN "interrupted" ELSE status[r]]
    /\ UNCHANGED <<job, plan, asking, known, taskVars, execVars, cancel, crashes>>

\* (mutant of Recover) Leased work is queued again.
RecoverReplaying ==
    /\ proc = "starting"
    /\ proc' = "up"
    /\ job' = [j \in Jobs |-> IF job[j] = "leased" THEN "queued" ELSE job[j]]
    /\ known' = {j \in Jobs : job'[j] = "queued"}
    /\ UNCHANGED <<status, plan, asking, taskVars, execVars, cancel, crashes>>

\* recover_jobs: leased work is ambiguous and never replayed; queued work is
\* scheduled.
Recover ==
    /\ proc = "starting"
    /\ proc' = "up"
    /\ LET over == {j \in Jobs : job[j] = "leased" /\ status[RunOf(j)] \in TerminalStatuses}
           lost == {j \in Jobs : job[j] = "leased"} \ over
       IN /\ job' = [j \in Jobs |-> IF j \in over THEN "finished"
                                    ELSE IF j \in lost THEN "interrupted" ELSE job[j]]
          /\ status' = [r \in Runs |-> IF \E j \in lost : RunOf(j) = r
                                       THEN "interrupted" ELSE status[r]]
    /\ known' = QueuedJobs
    /\ UNCHANGED <<plan, asking, taskVars, execVars, cancel, crashes>>

-----------------------------------------------------------------------------
Deliver(r) ==
    \/ AcquireSlot(r)
    \/ Claim(r)
    \/ BeginExecution(r)
    \/ ReadStatus(r)
    \/ Finish(r)
    \/ MarkInterrupted(r)
    \/ GiveUp(r)

Outcomes == {"completed", "failed", "cancelled", "interrupted", "blocked"}

Execute(j) ==
    \/ ExecLive(j) \/ ExecRaise(j) \/ ExecRun(j) \/ ExecPlan(j)
    \/ \E o \in Outcomes : ExecEnd(j, o)
    \/ ExecInterrupted(j) \/ ExecClosed(j)

CancelRun(r) ==
    \/ CancelRequest(r)
    \/ CancelDelivery(r)
    \/ CancelWrite(r)
    \/ CancelLive(r)
    \/ CancelPaused(r)

Request(r) ==
    \/ \E starts, forked \in BOOLEAN : CreateRun(r, starts, forked)
    \/ BlockRun(r)
    \/ RequestResume(r)
    \/ Refuse(r)

Next ==
    \/ \E r \in Runs : Request(r) \/ Deliver(r) \/ LoseLease(r) \/ CancelRun(r)
    \/ \E j \in Jobs : Enqueue(j) \/ Schedule(j) \/ Execute(j)
    \/ Poll
    \/ Shutdown \/ ShutdownEnd \/ Crash \/ Start \/ Recover

Spec == Init /\ [][Next]_vars

\* The process is restarted when it is down; its coroutines and the dispatcher
\* are always scheduled again; an execution is bounded by the limits of its run.
ExecutionEnds(j) ==
    \/ ExecLive(j)
    \/ status[RunOf(j)] # "running" /\ ExecRun(j)
    \/ \E o \in Outcomes : ExecEnd(j, o)
    \/ ExecInterrupted(j) \/ ExecClosed(j)

Fairness ==
    /\ WF_vars(Start) /\ WF_vars(Recover) /\ WF_vars(ShutdownEnd)
    /\ WF_vars(Poll)
    /\ \A j \in Jobs : WF_vars(Schedule(j)) /\ WF_vars(ExecutionEnds(j))
    /\ \A r \in Runs : WF_vars(Deliver(r))

FairSpec == Spec /\ Fairness

-----------------------------------------------------------------------------
(* Properties                                                              *)

\* No job is executed twice: not when submit and the dispatcher schedule it
\* both, not after a shutdown, a crash or a lost lease.
ExecutedAtMostOnce == \A j \in Jobs : executions[j] <= 1

\* Two executions of one run never overlap, not even while the cleanup of the
\* first is still going on after its delivery was cancelled.
ExecutionsDoNotOverlap ==
    \A j, k \in Executing : RunOf(j) = RunOf(k) => j = k

\* A worker slot is occupied until the cleanup of its execution is over: there
\* are never more executions than slots.
SlotsCoverExecutions == Cardinality(Executing) <= Slots

\* A run that is shown running while the service is up is being executed: it
\* will reach another status.
RunningIsExecuted ==
    proc = "up" => \A r \in Runs : status[r] = "running" =>
        \E j \in Executing : RunOf(j) = r

\* A committed job is delivered or cancelled, although the handler that
\* committed it may be gone and the process may go down.
QueuedIsDelivered == \A j \in Jobs : job[j] = "queued" ~> job[j] # "queued"

\* A start leaves no run waiting without a job: work that was not finished is
\* marked interrupted, and can be resumed.
RestartMarksUnfinished ==
    [][proc = "starting" /\ proc' = "up" =>
        \A r \in Runs : status'[r] \in {"queued", "running"} =>
            \E j \in Jobs : RunOf(j) = r /\ job'[j] = "queued"]_vars

\* The queue keeps the promise of DeliveryPromise.
Promise == INSTANCE DeliveryPromise WITH
    Jobs <- Jobs, RunOf <- RunOf, MaxPending <- MaxPending,
    state <- [j \in Jobs |-> CASE job[j] = "absent" -> "new"
                               [] job[j] = "queued" -> "waiting"
                               [] job[j] = "leased" -> "begun"
                               [] OTHER -> "over"]

PromiseKept == Promise!Spec

-----------------------------------------------------------------------------
(* The inductive invariant behind the properties above                     *)

\* The task of a delivery is in _tasks under its own run, until it is over.
OwnDelivery ==
    \A r \in Runs :
        /\ task[r] = None <=> phase[r] = "idle"
        /\ task[r] # None => RunOf(task[r]) = r

\* Nothing is in memory before the service is up.
NothingYet ==
    proc \in {"down", "starting"} =>
        /\ \A r \in Runs : phase[r] = "idle"
        /\ \A j \in Jobs : exec[j] = "none"

\* From claim to finish the job is leased, and before that it was not executed.
LeasedByDelivery ==
    /\ \A r \in Runs : phase[r] \in {"claimed", "wait", "gather", "giveup", "finish"} =>
            job[task[r]] = "leased"
    /\ \A r \in Runs : phase[r] = "claimed" => executions[task[r]] = 0
    /\ \A j \in Jobs : job[j] \in {"absent", "queued"} => executions[j] = 0

\* An execution and its cleanup belong to the delivery that waits for them.
ExecutingIsDelivered ==
    \A j \in Executing :
        /\ task[RunOf(j)] = j
        /\ phase[RunOf(j)] \in {"wait", "gather", "giveup"}

OneActiveJob == \A j, k \in Active : RunOf(j) = RunOf(k) => j = k

SlotLimit == Cardinality(SlotsTaken) <= Slots

\* A run shown as running has a runtime that will write another status.
RunningIsLive ==
    /\ \A j \in Jobs : exec[j] \in {"live", "stopping", "closing"} => RunOf(j) \in live
    /\ \A r \in Runs : phase[r] = "wait" => exec[task[r]] # "stopping"
    /\ proc = "starting" => \A r \in Runs : status[r] # "running"
    /\ proc = "up" => \A r \in Runs : status[r] = "running" =>
            \E j \in Jobs : RunOf(j) = r /\ exec[j] \in {"live", "stopping"}

DeliveryInv ==
    /\ TypeOK
    /\ OwnDelivery
    /\ NothingYet
    /\ LeasedByDelivery
    /\ ExecutedAtMostOnce
    /\ ExecutingIsDelivered
    /\ OneActiveJob
    /\ SlotLimit
    /\ RunningIsLive
=============================================================================
