# Agent Team runtime: TLA+ models, checks and proofs

This directory models the runtime of Agent Team (`src/backend/agentteam`, Python):
a service that lets a team of language-model agents work on a run, with a planner,
a scheduler, reviewers, a human who approves and cancels, and a queue that
survives restarts. The program is one asyncio process over one SQLite database.
Its hard part is not data but order: coroutines that interleave at every `await`,
two transactions where one would be needed to be atomic, a process that may end
between them.

Everything here is translated from the source; `PROJECT.json` names, for every
definition, the lines it stands for.

## 1. Inventory

| Component | State it keeps | Operations | What is hard | What makes it correct |
|---|---|---|---|---|
| Task scheduler (`runtime/scheduler.py`) | task statuses, `_running`, `_replies`, `_feedback`, rounds, flags | one loop: promote, start, wait, handle; reviews; Master sessions | sessions publish and end while the loop works through a batch; a verdict changes a task that has a session | reviewed means reviewed at the latest revision; nothing running is lost; the loop ends |
| Run manager (`runtime/orchestrator.py`) | `_tasks`, `live`, the slots | submit, schedule, deliver, execute, cancel, shutdown, resume, fork | job and run are closed in two transactions; cancel meets a delivery anywhere | one execution of a run at a time; no status that nothing will change |
| Durable queue (`store/job_store.py`) | `execution_jobs` | enqueue, claim, renew, finish, cancel, recover | crash between claim and finish; lost leases; stale reads by the dispatcher | begun at most once, bounded, recovered without replay |
| Service (`api/service.py`) | process lock, the stores | start, stop | recovery of what an earlier process left | nothing unfinished looks finished or alive |
| Agent session (`runtime/worker.py`, `session_broker.py`) | messages, reservation of the call in flight | model loop, retries, tool calls | provider calls that are cancelled or time out | every reservation released once; ends |
| Tool gateway (`runtime/tools.py`) | the session's context | publish, review, finish, approvals, messages, Master tools | approval resolved while its waiter times out | a finished session has done what its task asks |
| Policy engine (`runtime/policy.py`) | usage, reservations, counters, the cancel event | reserve, settle, release, count | concurrent sessions share the budget | no more is reserved than the budget leaves |
| Message bus (`runtime/mailbox.py`, `communication.py`, `send_message`) | messages, conditions, limits | admit, send, read with waiting, handoffs | one limit shared by concurrent sessions; a reader that is cancelled between listing and marking | owed handoffs and answers always fit; no message is marked that nobody was given, unless its reader was cut off |
| Event store and streams (`store/event_store.py`, `api/app.py`) | events, subscribers | append, notify, replay, follow | replay and live events overlap; an ending event is announced late | a stream delivers every event once and in order |
| Artifact store (`store/artifact_store.py`, `runtime/delivery.py`) | drafts, revisions, files | write, publish, finish, verify | a publication cut off between its file and its row; checks that are queries apart | what a finished task declared stays |
| Planner (`runtime/planner.py`), forks (`orchestrator.py`) | the plan | plan, validate, exception, milestone, fork | plans come from a model; a fork copies a run that may still be working | an accepted plan is acyclic and reviewed; a fork keeps nothing stale |
| Teams (`runtime/team_selection.py`) | the configuration a run keeps | recommend, select, precheck, execute | edits while a run is queued, waits or is forked | a run works with the team its plan was made for; a fork, unless the two diverged |
| HTTP API (`api/app.py`) | configuration revision, receipts, selections | create, resume, fork, cancel, adopt, configure, stream | retried requests; crashes between the steps of one request | one effect per key; a selection that names the one its user saw replaces that one |
| Configuration (`api/service.py`, `config.py`) | the revision in force, its rows, probes | edit, probe, load | the new configuration is assigned before its row is awaited | no edit undoes another setting; a check is of the settings that were tested |
| Access control (`security/`) | access file, sessions, grants, token state | issue key, login, logout, grant, authorize | a credential is taken back while its request is under way; restores bring old rows back | whatever acts was allowed to |
| Retention and backup (`operations/`) | purge journal, archives, service lock | purge, resume a purge, backup, restore | crash between rows and files | a deleted run does not come back |
| Audit collector (`operations/observer.py`) | its copy, its cursor | collect page by page | the server is replaced between two pages | its copy is a prefix of one server's log |
| Providers (`providers/`, `session_broker.py`) | processes, tokens, the broker | start, call tools, stop, probe | a process and its session end apart | a session that is over has left nothing |
| Sandbox and checks (`runtime/sandbox.py`, `checks.py`) | clients, containers, what is known of Docker | run a command, time out, cancel, clean up | to kill a client does not stop its container | nothing outlives its call; secured work is contained |
| Projections, exports, command line, demo | none | | | read-only formatting and entry points: not modelled |

Interactions: the API calls the run manager; the manager inserts a job, a
delivery coroutine claims it and runs `_execute`, which builds a runtime, plans,
and awaits `Scheduler.run`; the scheduler awaits agent sessions; sessions call the
tool gateway, which changes artifacts, messages, approvals and, for the Master,
the scheduler's tasks; events go to the store and from there to the streams.
The frontend, the documentation site, the evaluations and the scripts of the
repository are outside this inventory.

The hazards, each at its line, are in `PROJECT.json` with the properties that
cover them.

## 2. Modules

| Module | Models |
|---|---|
| `Scheduler` | the main loop of one run with its sessions and the Master |
| `MCScheduler` | small plans for it |
| `SchedulerProofs` | theorems for every run, and for runs with one reviewer per task and no Master |
| `JobQueue` | admission, delivery, execution, cancellation and recovery of runs |
| `DeliveryPromise` | the abstract queue that `JobQueue` implements |
| `MCJobQueue` | small queues |
| `JobQueueProofs` | theorems about the queue for every bound, and the refinement |
| `Approvals` | requests for approval, their waiters, the pause of the run, decisions, resume |
| `Session` | the model loops of the sessions of a run over their shared budget and limits |
| `Messages` | admission and delivery of messages under the limit of each task |
| `Mailbox` | one agent's mailbox with its waiting readers |
| `Streams` | the event log of a run and a client that follows it |
| `CliSessions` | command-line sessions, their processes, the broker, probes |
| `Commands` | commands of sessions, their clients and containers |
| `Artifacts` | workspaces, publication, `finish_task`, the end of a run |
| `Plans` | plans, their validation, and forks |
| `Requests` | requests with idempotency keys, adoptions |
| `ConfigRevisions` | concurrent edits of the configuration, probes, restarts |
| `Teams` | which team a run works with while the configuration is edited |
| `Access` | the access file, credentials, grants, requests and streams |
| `Retention` | purge, backup and restore against the service, on two installations |
| `Observer` | the audit collector |
| `Exchanges` | `Messages`, `Mailbox`, `Approvals`, `Streams`, `CliSessions`, `Commands`, side by side |
| `MCExchanges` | a small instance of it |
| `ExchangesProofs` | theorems about `Exchanges` and all its six parts |
| `Services` | `Session`, and `Artifacts` to `Observer` in this table, side by side |
| `MCService` | a small instance of it |
| `ServicesProofs` | theorems about its sessions, configuration, teams, requests, audit, files |
| `AccessProofs`, `PlansProofs` | and about its access control, its plans and forks |
| `MCApprovals`, `MCMessages`, `MCPlans` | instances for the violated runs |
| `RetentionProofs`, `ArtifactsProofs` | theorems about those modules, which `ServicesProofs` uses |

### 2.1 Scheduler

One action per stretch of code between two points where other coroutines can run
*and matter*. The loop is sequential, so `pc` says where it is:

- `top`: the checks for cancellation, time-out and fatal errors (`StopCancelled`,
  `StopTimedOut`, `StopFatal`, each with the whole of `_cancel_all`), or the beginning of a
  pass (`Pass`: abandoned reviews are partial).
- `promote`, `start`, `launch`: the rest of the pass, one task at a time, because `_set` is
  awaited for each: `Promote` makes a queued task ready or cancels it, `Promoted` counts the
  sessions, `Start` shows a task running and `Launch` makes its session, `StartsEnd` goes on.
  A stop, a publication or the end of a session may come between any two, and nothing of the
  pass looks at the stop.
- `wait`: `asyncio.wait` with its one-second time-out; `Wait` takes every future that
  is done, or none.
- `handle`: the futures of the batch are handled one at a time, in any order
  (`done` is a set): `HandleFinished`, `HandleReview`, `HandleCancelled`,
  `HandleApproval`, `HandleFatal`, `HandleCrashed`, `HandleFailed`.
- `review`, `judge`, `settle`: `_apply_review` for each verdict of a review. `Look` asks for
  the latest artifacts of the target, `Judge` compares the answer with what was judged and
  applies the verdict, `Settle` requeues the review task with its target or gives both up.
  Sessions publish in between.
- `exception`, `milestone`: the loop awaits a session of the Master, who may `Decide`
  and `AddTask` any number of times.
- `idle`: nothing runs: `IdlePaused`, `IdleReturn`, `IdleReplan`.

Sessions are coroutines beside it: `Publish`, `SubmitReview`, `EndSession` with
one of the outcomes of `AgentRunner.run` and of `_handle`, and replies to peers'
questions. A session whose entry of `_running` is overwritten by `_start` goes on as
an *orphan*: it still publishes, and its result is never read.

`cursor` is the place in the plan the loop over the tasks has reached, `active` the local
variable of that name, `look` what `_apply_review` was answered. Tasks that a loop passes over
take no step of their own: `IsNext` is the next one it does something to.

Data is abstracted to what the properties tell apart. An artifact set is its
number of publications; `same_refs` compares that number. A review is pass,
unverified or fail. Messages are only what opens a reply session. Checkpoints,
events and reasons are left out. Budget, model calls and time left at a
milestone are a free choice (`IdleReturn` is always possible). The status
`waiting` is never assigned by the code and is left out. Two assumptions on plans
are what `validate_plan` and `add_task` enforce: a reviewer task depends on
something, and a planned task depends on planned ones. That reviewers do not review
reviewers is an assumption of the model (the code would treat it as an ordinary
dependency).

### 2.2 JobQueue and DeliveryPromise

The durable path of a secured installation. A request checks the run
(`CreateRun`, `RequestResume`), and checks again in the transaction that inserts the
job (`Enqueue` or `Refuse`). The handler then schedules the job, or is gone
(`known'` has two values), and the dispatcher finds it (`Poll`). `Schedule` acts on
what was read earlier. A delivery is a coroutine whose place is `phase`: it takes
a slot, claims, begins the execution, waits, cleans up, reads the run's status,
finishes the job, marks the run. `giveup` is the cleanup of a delivery that was
cancelled again: `asyncio.gather` still waits for its children, and the code
after it is skipped. The execution is a task of its own (`exec`) that becomes
live, plans, runs, writes its outcome and closes; a cancellation reaches it where
it is. A cancel request is a coroutine too: what it read of `live`, `_tasks` and the
status may be out of date when it acts.

`Shutdown` cancels every delivery and waits; `Crash` does not. Both lose what was
in memory (`ProcessGone`) and nothing that was committed. `Start` and `Recover`
are the two steps of `AppService._start` that write; the process lock keeps any other
process out between them, and a crash may come there too.

Merged statuses: *running* is planning and running, *failed* is failed and
partial, *interrupted* is interrupted and approval_required: the queue treats each
pair alike. Not modelled: the admission lock of the API (a bound on requests, not a
guarantee the queue relies on), the path without a queue, receipts.
`cancel_queued` and cancelling the delivery of the job it took are one step: only
the closing of a connection lies between. A lease is lost after seconds without
renewal; it is not lost while the execution is at its first statements or a cancel
request is between two of its own (`LoseLease`).

`DeliveryPromise` says the same from outside: a delivery is accepted when there is
room and its run has no other, begun at most once, and over for good. The mapping
in `JobQueue` sends `absent` to new, `queued` to waiting, `leased` to begun,
everything else to over.

### 2.3 Approvals

Three kinds of coroutines meet. A *session* inserts the row of an approval
(`Request`), registers a waiter (`Register`), waits, and is woken (`Answer`) or times
out (`TimeOut`). A user's *request* reads the row (`ReadApproval`), writes the decision
(`WriteDecision`), wakes whoever waits (`Notify`), reads the status of the run and
asks for a resume (`ReadRunStatus`, `AskResume`, `Resume`); `resolver` holds its place and what
it read. The *execution* schedules tasks, pauses when a task waits for an approval
and nothing else runs, stores the status, closes, and on a resume prepares the
tasks again (`PrepareResume`, `PrepareRefused`).

Scheduling is reduced to when a run pauses, delivery to one job at a time; `Scheduler`
and `JobQueue` have the rest. *edited* is merged into *approved*. A command-line
session may finish while its approval is pending, because the process and not the
loop decides what comes next. `PrepareRefused` leaves the order of the rows open,
so it may have requeued any of the tasks that come before the one it fails on. A handler may
end in an error after it has written its decision (`Refused`): the event is not stored, the
queue is at its limit, whatever runs fill it (`job_store.py:44-46`), or the service is
shutting down (`orchestrator.py:55`).

### 2.4 Session

`place` says where a session is: at the start of a `turn`, `calling` a provider,
waiting before a retry (`backoff`), with an answer, running `tools`. A call reserves
an amount, awaits, and settles or releases (`Call`, `Answer`, `CallFails`,
`CallTimesOut`); all sessions share `spent`, `reserved`, `modelCalls` and `toolCalls` of one
`PolicyEngine`. A command-line session (`CliSessions`) is one process per round, two rounds
at most, whose tools come in through the broker while the process runs.

Costs are whole units. What is reserved is an estimate (a third of the characters of the
prompt, `worker.py:342`) and what an answer costs is settled unchecked (`policy.py:82-103`):
`Answer` may cost `MaxExcess` more than was held, and `excess` sums up by how much.
A call that leaves the loop in any other way (`Raise`: its task is cancelled, or
something raises that is no `ProviderError`) releases nothing; `lost` counts what it
held. Single calls of the command-line driver (`complete`, used by the planner) are
not modelled; tokens, prompts and the compaction of conversations are left out.

### 2.5 What the sessions of a run exchange

`Messages`. A call of `send_message` takes a lock, counts what is stored, and admits
or refuses; sessions start, publish, review, finish and are asked in between, so what
a task owes (`FutureReserve`, `PendingQuestions`, `Needed`) moves under the call.
*handoff* stands for handoff, finding and decision. The run is an adaptive one whose plan
passed `communication_budget_errors` (`BudgetAssumption`), all its agents are enabled,
and the verdict of a review and its checkpoint are one step. The Master may put a task that
failed, or ended in part, back (`Retry`), whose session then delivers its handoffs again. Its
sessions after an exception do not send, and calls still under way when a command-line process
is killed are absent. What a reviewer's task holds for revisions is a sum over its producers in
the code (`communication.py:66`); `RevisionsLeft` is the set of the pairs of a producer and
a round still to come, and its size that sum.

`Mailbox`. `Store` and `Wake` of a message are two steps, and so are listing and
marking, the UPDATE of the marks and the event about it, and the return to the session
(`Mark`, `Return`, `NoteFails`): a reader may time out, be cancelled or lose a wake-up between
any of them, and a cancellation may leave the UPDATE to the database thread (`MarkAnyway`). A
prompt that is built again lists all messages of the agent (`Reread`, `ListAll`).
A wake-up that comes before the wait begins is lost (`mailbox.py:53-66`); the reader
then sleeps until its time-out although `tools.py:166` suggests that it would be
woken, and the second listing finds the message. The property is therefore that no
message is lost, not that no reader waits; and those that were marked for a reader that was
then cut off are its named exception (`dropped`).

`Streams`. Rows are inserted and announced in two steps; an ending event is announced
only after the status is stored, so an event may overtake it. The client reconnects
with the last id it got.

`CliSessions`. A session starts the broker or waits for it, starts a process at most
twice, and classifies how it ended. Process, session and calls inside the gateway end
separately; a call has its token looked up (`LookUp`) and enters the gateway some awaits
later (`Enter`), when the session may be over. A probe is a session of another kind.

`Commands`. The choice of a backend with what is remembered of Docker, the preparation,
and then three things that end apart: the client, the container, the call. The helper
processes of a preparation (pull, info) are not modelled.

### 2.6 What a run leaves and what it starts from

`Artifacts`. A publication is three stretches (the check of the owner; the number and the
file under the write lock; the row), `finish_task` is one query after another, and a cancellation or a crash may come
between any two. Each path has an artifact id of its own: two paths that map to one
id (`a/b.md`, `a-b.md`, `artifact_store.py:19`) are left out.

`Plans`. The Master proposes any plan, up to three times; `Valid` is `validate_plan` with its
search for cycles. Until a fork copies the run, the scheduler is reduced to one step
per session; decisions of the Master are left out.

`Teams`. A run is recommended, given or configured a team; its snapshot is compared with
the configuration in force when it is checked, queued, resumed and forked. A plan is
the set of its tasks' owners. A fork takes the plan of its source whatever the configuration
in force has become: `Diverged` says when its team may lack an owner. Only the model of an agent and whether it is enabled
can be edited, which covers deletion; the team mode is chosen at the beginning and never
edited; the document workflow is left out.

`Requests`, `ConfigRevisions`. Each handler of the API is one action per stretch between
two awaits. A request may be repeated while the first is still inside, its answer may
be lost, the process may die. `enqueue` checks again in its transaction (`Enqueue`): a
decision on an approval resumes a run outside the lock of admissions (`ResumeByDecision`), and
a request may be refused after its run was made (`Conflict`). An adoption names the selection
its user saw, or none (`app.py:880`). `save_config` assigns before it writes; rows are written
in the order of the assignments, and a row may fail (`RowFails`).

`Retention`. A purge journals, deletes rows, deletes files; a backup copies the database and the
files; a restore makes the second of two installations. The lock file of a data
directory is held by the service or one of the tools, and freed when its holder is killed.

`Access`. A request is identified, its account looked up, its role and grants checked, and its
handler reached, at four different moments. `entitled` records what of this was true at
some moment since the request came. A stream is checked again before each batch of events:
the replay, one live event, or what is flushed at the end (`Recheck`, `Act`, `BatchEnds`); a
batch takes as long as its client reads.

`Observer`. Pages are collected in one cycle and stored with the cursor in one
transaction; the server records, fails, or is replaced by a snapshot meanwhile.

### 2.7 The sums

The parts of `Exchanges`, and those of `Services`, share no variable. Checking them in
one run is a matter of economy: the initial state chooses the `part` that moves and
`Only` keeps the others where they are, so the reachable states are the sum of those of
the parts and no interleaving of two parts is explored, nor would it show anything.
Each property is guarded by its part. Both sums have their parameters as constants, so that
their theorems are about any instance.

## 3. Runs

| Run | Instance | Shows |
|---|---|---|
| `SchedulerPair` | two producers in a chain, one reviewer of both, one revision round, every outcome, one question | reviewers' targets hold still; a verdict is applied to the revision it covers; a revision knows its findings; a completed run is reviewed; `ReviewLoopInv` |
| `SchedulerTwoReviewers` | one producer, two reviewers, two rounds, every outcome | statuses and sessions stay in step although sessions are lost; clean return |
| `SchedulerMilestone` | a producer and its reviewer, a producer the Master may add, one replan, one worker; fairness | the run returns; a stop leaves the tasks resumable; what is given up cannot run; worker limit |
| `JobQueue` | one run, two deliveries, two crashes or shutdowns; fairness | implements `DeliveryPromise`; executed at most once; no overlap; running means executed; `DeliveryInv`; a committed job is delivered or cancelled |
| `Exchanges` | the six parts of `Exchanges` (symmetric) | owed handoffs and answers fit until a resume; no mail is lost but with its reader; approvals are answered, paused and resumed consistently, and a decision on a run at rest resumes it unless it is refused; a client follows the log; command-line sessions and commands leave nothing |
| `Service` | the nine parts of `Services`; fairness of the sessions | the budget holds but for answers above their estimate, and every session ends; edits and checks stand and a run keeps its team; a key acts once; files match rows; plans end in review and forks rerun what is downstream; finished outputs stand; the audit copy is the log; whatever acts was allowed to |
| `SchedulerStuck` | a producer and a reviewer | *violated*: a task is left waiting for review |
| `SchedulerStale` | a producer and two reviewers | *violated*: completed without a passing review |
| `JobQueueStuck` | as `JobQueue` with one crash | *violated*: a restart leaves a queued run without a job |
| `ApprovalLost` | one task, one request, no crash | *violated*: everything is decided and the run stays paused |
| `MessagesResumed` | a producer and its reviewer, one question, one resume | *violated*: after a resume what a task owes no longer fits |
| `ForkStale` | three tasks, one fork | *violated*: a fork keeps tasks whose inputs it runs again |

Bounds. `MaxRevisions = 2` lets an artifact change after a verdict, which is all a
stale verdict needs; one revision round shows both a revision and its exhaustion,
the second round in `SchedulerTwoReviewers` is what it takes to start a task whose
session is still live. One worker (`SchedulerMilestone`) makes ready tasks wait.
`SessionOutcomes` is complete in `SchedulerPair` and `SchedulerTwoReviewers` and reduced elsewhere. Two deliveries of one
run are a first execution and one that follows it or a restart; two crashes allow one
during the recovery from the other. A `JobQueue` run has at most one active job, so a
second run matters only for slots and for the queue limit; that executions never outnumber
the slots is therefore left to the theorem `SlotsCover`,
and the proofs cover any number of runs, slots and crashes.

In `Exchanges`: the plan of two tasks is admitted with a limit of three messages, and five
are the fewest with which a question is admitted, and few enough for everything to be refused
somewhere; retries are followed up to the first resume (`MaxRetryResumes`), because the
reservation contract ends there; three messages and two readers let one reader take what another was
woken for; two users' requests are what it takes for one to act on what another
changed, one refusal of such a request, and two tasks for one decision to resume a run whose other approval is
pending; four events over two connections leave room for a replay, a live event, an
ending event and one that overtakes it; a worker and a probe compete for the
broker; a secured command, an open one and a check with a worker process are the three ways to
run something.

In `Service`: the budget is smaller than what both sessions may reserve at once, and four
calls are enough for three attempts beside the call of the other session, one unit above the
estimate is enough to pass the budget; two edits of
one setting and one of another with one probe and one crash; two requests with one key,
one that resumes, a queue of one job, and two adopters; two runs, a key and two kills, so that the recovery
from one is killed too; three tasks are the shortest loop of producers with a reviewer
outside, or the shortest chain whose middle is kept; two tasks that publish at the same
path; pages of one record, two restores; four agents, one of them locked with the id and
name a generated member would take; two accounts, a replaced key and a revoked one.

Every bound that is not a constant of the program is marked `(bound)` where it is
declared.

Deadlock. The schedulers and the queue are checked for it; `Scheduler` stutters
explicitly where it may come to rest (`Returned`). `Exchanges`, `Service` and
`ForkStale` do not check it: their parts do stop, when all messages are read, all
requests answered, all commands over, or a bound is reached, and what must not be left
behind then is stated as an invariant.

Fairness. In `Scheduler`: the loop and the Master's sessions are coroutines that
are scheduled again, and every session ends because turns, calls and waits are
bounded; nothing is assumed of the user, of the clock or of what sessions do before
they end. In `JobQueue`: the process is restarted when it is down, the dispatcher
polls, deliveries proceed and executions end. In `Service`, for the part of the sessions: a
call ends, because the drivers and the deadline of the run bound it, and a loop that can
go on does; `EverySessionEnds` discharges what `Scheduler` assumes. No fairness for
requests, crashes, lost leases or cancellations.

## 4. What the violated runs show

- `SchedulerStuck`. `scheduler.py:344` promises that a task whose review tasks all
  ended without a verdict is partial. The condition asks that the task has no
  verdict at all, but a task sent back for revision keeps the one that sent it
  back. If its reviewer then fails, it stays `review_pending` when the run returns.
- `SchedulerStale`. With two reviewers of one task a verdict is applied while the
  task is being revised. The task is queued again under a live session, or accepted
  when it finishes because no review task is pending at that moment; the run is
  completed although its last verdict is not a pass on its latest revision.
  `validate_plan` allows such plans. With one reviewer per task this cannot happen
  (section 5).
- `JobQueueStuck`. The delivery closes the job and the run in two transactions. An
  execution that raised before its first write leaves the run `queued`; if the
  process ends between the transactions, the restart sees neither a running run
  nor a leased job, and the run stays queued: it can be neither resumed nor
  cancelled.
- `ApprovalLost`. A decision reaches a session that waits for it, or a run whose status is
  `approval_required`. If the wait has timed out and the pause is not stored yet
  (other tasks of the run may go on for long), it reaches neither; the run then
  pauses with everything decided, and stays so until a user resumes it by hand.
- `MessagesResumed`. `docs/quality/integration.md:130` says that a plan persists the version
  of its communication budget and that only this version reserves compulsory
  handoffs. `_execute` builds the snapshot anew before it looks at `resume`
  (`orchestrator.py:289`), so a resumed run reserves nothing and its tasks can spend
  the messages they owe. Until then the reservation holds (`Exchanges`).
- `ForkStale`. The comment at `orchestrator.py:527` says that whatever is downstream of a
  task that runs again must run again. The closure starts from the tasks the
  user named; those that were not accepted in the source run again too, and what
  was accepted downstream of them is kept.

Seen on the way and not stated as properties, because the repository promises
nothing about them or because they are outside what is modelled:

- *Queue and runs.* A cancel request that arrives between the end of the execution and the end of the
  delivery overwrites a finished status with `cancelled` and leaves the job leased until
  a restart; the last write of a delivery may overwrite the `queued` of a resume
  admitted in between. A request whose enqueue is refused has made its run, which stays
  `created` without a receipt: a repeat with the same key makes another
  (`orchestrator.py:55`, `job_store.py:44-58`). A milestone session that only retries a task ends the run with
  that task queued (`scheduler.py:397`).
- *Passes and reviews.* A stop that arrives during a pass still sees tasks cancelled for good or
  started by that pass (`scheduler.py:347-364`). With two reviewers a session that was lost publishes
  between the look-up of `_apply_review` and its use, and a verdict is applied to a revision it
  did not cover.
- *Approvals.* Two decisions made at once on one approval overwrite each other; when two tasks
  wait the first decision resumes the run and the resume fails on the other one; a
  decision made while the job of the paused run is still being closed is refused
  the resume; so is one made when the queue is full, and the run stays paused.
- *Sessions.* A reservation whose call was torn down blocks its part of the budget until the
  run is resumed; an answer may cost more than its estimate and take the run past its budget
  (`docs/quality/integration.md:49` says the figures are no cap); a call whose token was
  looked up before its session ended may still do its work
  (`session_broker.py:35-41`); a command-line session may count more model calls than the limit,
  since it reports them after they were made. A broker whose start fails keeps its
  server without a port (`session_broker.py:47-62`), and later sessions talk to nobody.
- *Messages.* The older checks (`tools.py:640-668`) also apply under the reservation and may refuse
  a reviewer's session an answer that a message is held for, if it delivered a
  handoff twice over (the exception in `AnswersAreAdmitted`). `communication.py:55` speaks of persisted
  round usage; the rounds are in memory. Instructions of a user compare the last event without
  a lock (`app.py:633-641`).
- *Mailbox.* Messages that were marked when their reader was cancelled or failed are given to nobody,
  unless a prompt of that agent is built again (`worker.py:266`).
- *Streams.* A stream checks its client before each batch of events: the rest of a replay or of
  the last flush goes out after a revocation (`app.py:665-667`, `680-682`;
  `docs/PRODUCTION.md:12` says between events). An ending event that another event overtook while its status was stored is
  skipped by the client (the exception in `StreamFollowsLog`).
- *Configuration.* A second edit from the same revision passes the check while the row of the
  first is being written: both are kept, although its author did not see the first
  (`service.py:127-132`; `docs/blueprint/IMPLEMENTATION_BRIEF.md:40`; the exception in
  `EditsReplaceWhatTheyRead`). A probe writes its result over the connection in force when
  it ends, which may have been edited since it began (`app.py:487-496`; the exception in
  `ChecksAreOfTheirSettings`). An edit whose row fails is refused to its author and stays in
  force until a restart (`service.py:127-132`).
- *Adoptions.* A client that shows no selection sends no expectation, and its first selection
  is unconditional (`app.py:880`; `docs/quality/integration.md:28` keeps it so).
- *Teams and forks.* A fork without a selection takes the configuration in force and the plan of its source:
  an owner that is disabled there works all the same, one that is gone raises at
  `scheduler.py:186`, although `README.md:46` invites to fork with another model (`Diverged`).
- *Artifacts.* Two paths with one artifact id share one history of revisions. Two tasks that publish
  at the same path, which nobody declared, both pass the check of its owner
  (`tools.py:845-856`) and revise each other's artifact; for declared paths this cannot happen.
- *Retention.* A restore that is killed leaves a directory that looks like data; nobody starts
  the service on it (`DURABLE_EXECUTION.md:20`).
- *Commands.* A container whose id is written after the cleanup looked, and one that Docker does not
  remove in time, go on (the exceptions in `NothingOutlivesItsCall`). The helper
  processes of a preparation are not stopped by a cancellation.

## 5. Proofs

`SchedulerProofs` first holds for every plan, every limit, with or without the Master and
however many reviewers a task has:

- `TypeCorrect`: `Spec => []TypeOK`.
- `LoopInvariant`: `LoopInv`, which is `TypeOK`, `RunningHasSession`, that
  `_running` is empty where the loop is idle, awaits a milestone or has returned, what a pass
  has done up to its cursor (`PassInv`) and which verdict is being applied (`LookInv`). The
  third part is what makes the second inductive: a return must not leave a status
  behind. `RunningHasSession` and `ReturnLeavesNothingRunning` follow.
- `WhatIsGivenUpCannotRun`: a task that the idle loop blocks has a dependency that is over
  and not done, from `PassInv`: no queued task that could run is behind the cursor, and a pass
  that could start something has left the loop something to wait for. Here the order of
  the promotions and of the starts, and the count of the sessions, have to be right.
- `WorkerLimitHolds`: a pass starts no more tasks than there are free workers, for any
  number of workers; nothing else adds to `_running`.
- `StopsKeepTasksResumable`: an action property, one step per action, with the tasks that the
  pass under way cancels for a dependency as its exception.

Then it assumes `Unattended` (no Master: the document workflow) and `SingleReviewer`.
`ReviewLoopInv` adds to the types `SessionInv` (a
task is running exactly when it has a session; nothing is lost),
`ReviewInProgress` (from the moment a review task is ready until its verdicts are
applied its targets are finished, and a verdict stays current),
`LookedUp` (what was looked up is still so when it is used),
`ReviewConcluded` (an accepted review task has settled its targets) and `FindingsWait`
(a task sent back has findings in `_feedback` until it starts). None of them
is inductive alone: that a verdict stays current needs that the target has no
session, which needs that it is not requeued, which needs that nobody else
reviews it. `CompletedRunsPassedReview` is the result a reader should
know: with one reviewer per task, a run reported completed delivers only work
whose latest revision passed. `SchedulerStale` shows that the assumption is needed.
`RevisionsAreInformed` says that such a revision knows what it is to repair, and
`VerdictsCoverCurrentRevision` that no verdict is applied to a revision it did not cover, although
the comparison uses an answer that was awaited.

`JobQueueProofs` holds for any runs, slots, limits, deliveries and crashes.
`DeliveryInv` adds to the types what ties the actors together: a delivery is the
one its run has in `_tasks`, its job is leased from claim to finish and was not executed before,
nothing is in memory before the service is up, an execution
belongs to a delivery that waits for it or cleans up after it, a run has one
active job, deliveries past the semaphore never exceed the slots, and a run shown
running is live. None is inductive alone: that two executions never overlap needs
that a run has one active job, which needs that the job is finished only after the
execution closed. `ExecutedOnce`, `NoOverlap`, `SlotsCover` and `RunningExecuted` follow, and
`KeepsPromise` is the refinement: every step maps to a step of `DeliveryPromise` or a
stutter.

`RetentionProofs` (assuming `IdsGiven`: `Nothing` is no run and `MaxJobs` is a natural number)
holds for any runs, keys, jobs and kills. `RetentionInv` ties four things together:
the rows of a database among themselves, on both installations and in the snapshot
(`DbOK`); who holds the lock of a directory to what its journal and its list of files
still to delete say (`HolderOK`); files to rows or to what is pending (`FilesOK`); and
every job to one owner, begun exactly when it is leased there (`JobsOK`).
`FilesAndRowsAgree` needs the second: while rows and files disagree, the journal
names the run, and the service does not start before the purge was resumed.
`JobsBeginOnce` needs the last: a restored copy must not own what the original began.
`TypeCorrect` adds the counters.

`ArtifactsProofs` (assuming `PlanGiven`: declared paths are paths, `Nobody` is no task) has two
parts. `Publishing`: whoever is between the number and the row of a publication holds the
write lock of the database, so that number is still the next one, and a file left
behind by a crash is the one that is overwritten. `Ending`: what `finish_task` found at each
query is still so at the next ones, because only the owner
writes its drafts and its paths. `PublishedRevisionsHaveTheirFiles` and
`FinishedOutputsAreKept` follow. `TypeCorrect` adds that what is in a draft or a file is content
of its path.

`ServicesProofs`, `AccessProofs` and `PlansProofs`, each on top of the one before, prove every
invariant of the run `Service`, and its action property, for any instance. The assumptions
are those of `Services`: bounds are numbers; what stands for nobody, no answer or no run
is none of them; a configuration has a model and a plan can have two tasks; the first
access file has an administrator, as `validate_config` demands; clients ask for what the service
has routes for. `StepOfEachPart` says that
a step of the sum is a step of each part or leaves it alone; each part has an invariant
of its own, and `DataRuns` and `StoreRuns` carry the theorems of `RetentionProofs` and
`ArtifactsProofs` over.

- `BudgetIsKept`, from `SessionInv`: a session holds a reservation exactly while it calls
  (`PlaceOK`), so that what is reserved is the sum of what the sessions hold and of what calls
  that were torn down left behind (`lost`), and spent and reserved exceed the budget together by
  no more than answers cost above what was held for them (`Accounts`).
- `SettingsAreKept`, in two parts. `ConfigInv`: what is in force holds the last edit of each setting
  and is what the last waiting row will store, unless a row failed (`EditsInForce`); the row of an
  edit holds it when it is written (`RowsOfEdits`); and an edit that passed its check replaced what its
  author read or what is in no row. `TeamInv`: a run's team comes from the configuration it was made
  from and is checked once the run is admitted (`TeamOK`); the team it works with in memory
  is the stored one but between a choice and its event (`LiveOK`); and the owners of its plan
  belong to the team the plan was made for (`OwnersOK`), which a fork has as long as the
  agents that are enabled have not changed and its source had no recommended team.
- `KeysActOnce`, from `RequestInv`: one handler is inside the lock (`OneInsideKey`), a key without
  a receipt has admitted no job and every answer that is no refusal is in the receipt (`ReceiptsOK`),
  whatever a decision queues outside the lock, and an adopter that names a selection, between its
  comparison and its event, has named the present one (`ChainOK`).
- `CopiesAreKept`, from `AuditInv`: what is kept of a stream, followed by what the cycle under way
  holds of it, is a part of the log without a gap (`Follows`), also of a stream that has been
  replaced since.
- `FilesAndRows`: `FilesAndRowsAgree`, `KeysAdmitOnce`, `JobsBeginOnce` and the two of
  `ArtifactsProofs`, in the sum.
- `AccessIsKept`, from two invariants. `AccountInv`: a writer of the access file works under its lock
  on what it read there, which is the result of all changes completed so far, however many
  runs of `issue_key` interleave or die. `AuthInv`: a request that has come to a place has been
  entitled to what that place checks (`Backed`), every batch of a stream since the last one ended; sessions are those of logins that are over
  (`SessionRowsOK`), and what is closed does not open again, restores included (`ClosedOK`).
- `ResultsAreKept`, from `PlanInv`: a task under review or accepted reports a revision that is
  there, unchanged, and so does what a fork keeps (`ReportsOK`, `ForkOK`).
- `RerunsReach`: the passes over a plan, one per task, come to a set that is closed
  (`DownstreamReaches`), whatever the order of the tasks.
- `PlansReachReview`: the search of `validate_plan` is correct. `VisitsShrink`: a visit never makes a
  task new again, which is why the recursion ends. `VisitsAreWell`: a visit either reports a
  cycle or ends with the open tasks as they were and the done tasks closed under dependence, each
  part of which has a task that depends on no other of it. `AcyclicPlans` follows, and with it
  `ReviewersReached`: if what a task produces reached no reviewer, the tasks it reaches would
  all feed one another, which a set with a source does not.
- `PartsAreTyped`: the nine type invariants.

Some of these need an induction over data, which the theorems of the library would
state with an operator as a parameter, and no installed prover can instantiate those.
`LeastSet` takes their place: a set of finite sets that is not empty has a least one,
so a statement that is wrong of some set is wrong of one all of whose subsets it is right of.
`SumsExist` and `TotalChange` (sums over sets), `RecursionExists` (a recursive function on
finitely many levels), `FoldExists` and `FoldInduction` (folds over sets) are proved from it. The
definitions are recursive functions, so that `CHOOSE` is all the proofs have to deal with.

`ExchangesProofs` proves every invariant and both action properties of the run `Exchanges`
for any instance. `StepOfEachPart` says that a step of the sum is a step of each part or
leaves it alone; each part then has an invariant of its own.

- `MailIsKept`: what is no longer unread was returned, was dropped with its reader, or is in the
  batch of a reader that has marked it and is about to return it.
- `StreamIsComplete`, from `StreamInv`: what was received rises to the cursor, and what the cursor
  passed was received or is an overtaken ending event (`ReceivedInOrder`); an event after the
  cursor is in the replay still to be sent, in the queue, not announced yet, or deferred
  (`NoneIsMissing`), and comes before what was announced later (`QueueInOrder`). The last two
  hold from the moment the client has subscribed *and then* listed.
- `ApprovalsStand`, `PausedTasksAwait`, `DecisionsResume`, from `AskInv`: the approvals of a task are
  asked one after the other (`AskedInOrder`); what a handler is about to let expire was told to no
  session, and what it has written is a decision for every session that still waits
  (`HandlerInv`); and a run is paused only with a task that is (`ExecutionInv`).
- `ReservesFit`, `HandoffsStillFit`, `AnswersStayAdmitted`, from `MessagesInv`. The assumptions are
  that the plan passed `communication_budget_errors` and that plan and team are finite. What
  fits must hold of the call that has looked as well as of the state: between the look and
  the delivery other sessions publish, review and finish (`CallsFit`), but no question is
  asked or answered and no round comes back (`CallsKnow`: the lock). A revision pays for the handoffs
  of one more session of the producer and of the reviewer (`RevisionMakesRoom`); an
  answer frees the message held for it; a handoff that is owed needs one recipient less
  (`NeededMoves`); and the coordinator, whose messages the reservation does not
  check, tells every owner once before anything else is sent (`CoordinatorFirst`), which the budget
  of the plan has room for (`BudgetHolds`). After a resume nothing of this holds, as
  `MessagesResumed` shows.
- `NothingIsLeftBehind`, in two parts. `CliInv`, for any sessions (workers and probes are different
  sessions): one session starts the broker and nobody goes on before (`BrokerInv`), and where
  a token, a process and a finish of each session can be (`CliSessionInv`). A finish earned
  while the process lived must survive every place up to the verdict. `CommandsInv`, for any
  commands in any mode: what is alive at which place of a call.
- `EverythingIsTyped`: the six type invariants.

In every theorem the last step is the only temporal one. The strengthened invariants were
first checked by TLC on the instances of the runs (`MessagesInv` also on a plan of three
tasks with two producers).

Every invariant and every action property of a passing run is stated by a theorem. Only
model-checked: liveness (`Termination`, `QueuedIsDelivered`, `EverySessionEnds`), which under
fairness is beyond the proof system, and the violated properties of section 4.

## 6. Left

In this order:

1. `Streams` against an abstract stream, as a refinement; `Session` and `Access` against what
   they promise their callers (a budget, a decision), likewise.
2. What a resume rebuilds (statuses, rounds, feedback, counters), on top of `Scheduler`.

Not modelled: projections and exports (read-only formatting), the command line and the demo
(entry points), prompts, parsing, compaction of conversations and the translation
of providers' protocols (data), what checks compute and the web tools (data and I/O),
encryption of backups, metrics, the limit on logins, host and origin checks, hand edits of
the access file, audit rows, the preview and report of a run. The frontend, the
documentation site, the evaluations and the scripts are outside the runtime.
