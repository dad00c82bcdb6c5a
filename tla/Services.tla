------------------------------- MODULE Services -------------------------------
(***************************************************************************)
(* The rest of the service, component by component: agent sessions under   *)
(* one budget, edits of the configuration, the teams of runs, credentials  *)
(* and grants, requests with idempotency keys, purge and backup, plans and *)
(* forks, the artifact store, and the audit collector.  They share no      *)
(* variable, so one specification has them side by side: the initial state *)
(* picks the part that runs, the others keep theirs.                       *)
(***************************************************************************)
EXTENDS Session, Sequences

CONSTANTS
    MaxCrashes,                         \* (bound) of every part that crashes
    TeamEdits, ConnEdits, Seeded, NotRun, MaxProbes,                \* ConfigRevisions
    Callers, Adopters, KeyOf, PayloadOf, Operation, Selections,     \* Requests
    None, Denied, MaxPending, MaxMade,
    Dirs, Receipts, MaxJobs, MaxKills,                              \* Retention
    Order, MaxTasks, MaxRevisionRounds, MaxRevisions, MaxForks,     \* Plans
    Writers, Paths, Declared, Required, Contents, Conforming,       \* Artifacts
    MaxSessions, NoDraft, Nobody,
    PageSize, MaxPages, MaxRecords, MaxReplaced,                    \* Observer
    Agents, Role, Locked, Name, Conn, TeamIds, Given, Connections,  \* Teams
    Models, ReviewRequired, Kinds, MaxMembers, MaxEdits,
    ApiKeys, FirstKeys, Revocations, Subject, KeyRole, Clients,        \* Access
    Wishes, Tokens, Sso, Creator, Grantees, NotTaken, MaxRestores

VARIABLES
    part,
    config, revision, stored, saving, client, read, probe, tested,
    latest, replaced, blind, unwritten, overtaken, up, crashes,
    at, inside, own, answer, admitted, active, receipt, jobs, shown, adopted, failures,
    db, disk, holder, todo, snapshot, archive, made, begun, kills,
    mode, enabled, phase, proposals, plan, status, rounds, result, files, fork, asked,
    kept, forks,
    draft, rows, blobs, lock, call, session, sessions, finish, restarts,
    log, stream, saved, restores, truth, collector, seen, cursor, batch, pages,
    records, cursors,
    setup, runs, live, chosen, base, edits, losses,
    file, loaded, writer, change, users, wanted, issued, expired, tables, copied, returns,
    req, entitled, closed

configVariables == <<config, revision, stored, saving, client, read, probe, tested,
                     latest, replaced, blind, unwritten, overtaken, up, crashes>>
requestVariables == <<at, inside, own, answer, admitted, active, receipt, jobs, shown,
                      adopted, failures>>
retentionVariables == <<db, disk, holder, todo, snapshot, archive, made, begun, kills>>
planVariables == <<mode, enabled, phase, proposals, plan, status, rounds, result, files,
                   fork, asked, kept, forks>>
artifactVariables == <<draft, rows, blobs, lock, call, session, sessions, finish, restarts>>
observerVariables == <<log, stream, saved, restores, truth, collector, seen, cursor,
                       batch, pages, records, cursors>>
teamVariables == <<setup, runs, live, chosen, base, edits, losses>>
accessVariables == <<file, loaded, writer, change, users, wanted, issued, expired,
                     tables, copied, returns, req, entitled, closed>>
allVars == <<part, vars, configVariables, requestVariables, retentionVariables,
             planVariables, artifactVariables, observerVariables, teamVariables,
             accessVariables>>

Config == INSTANCE ConfigRevisions WITH First <- Seeded

Request == INSTANCE Requests WITH
    Clients <- Callers, MaxRuns <- MaxMade, status <- admitted, crashes <- failures

Data == INSTANCE Retention WITH Runs <- Dirs, Keys <- Receipts

Planning == INSTANCE Plans WITH attempts <- proposals

Store == INSTANCE Artifacts WITH
    Tasks <- Writers, stored <- blobs, outcome <- finish, crashes <- restarts

Audit == INSTANCE Observer WITH
    MaxRestores <- MaxReplaced, snapshot <- saved, place <- collector, kept <- records

Team == INSTANCE Teams WITH config <- setup, crashes <- losses

Access == INSTANCE Access WITH
    Keys <- ApiKeys, Role <- KeyRole, Kinds <- Wishes, NoSnapshot <- NotTaken,
    config <- loaded, lock <- writer, base <- users, db <- tables, snapshot <- copied,
    restores <- returns, held <- entitled

\* The bounds are numbers.
ASSUME BoundsAssumption ==
    /\ {MaxCrashes, MaxJobs, MaxKills, MaxRevisionRounds, MaxRevisions, MaxForks, MaxSessions,
        MaxRecords, MaxReplaced, MaxEdits, MaxRestores} \subseteq Nat
    /\ {MaxMade, PageSize, MaxPages} \subseteq Nat \ {0}

\* What stands for nobody, no answer or no run is none of them, and a probe of the
\* configuration is no edit.
ASSUME NamesAssumption ==
    /\ Config!Edits \cap Config!Probes = {}
    /\ None \notin Request!RunIds /\ Denied \notin Request!RunIds
    /\ \A n \in Request!RunIds, c \in Callers : None # [run |-> n, payload |-> PayloadOf[c]]
    /\ Data!Nothing \notin Dirs
    /\ Nobody \notin Writers \cup Access!Changes

\* The constant team has a model to run on, a plan can have two tasks (the document team
\* has a writer and a checker), and a task declares output paths.
ASSUME PlansAssumption ==
    /\ Order \in Seq(Planning!Tasks) /\ {1, 2} \subseteq DOMAIN Order
    /\ Declared \in [Writers -> SUBSET Paths]
    /\ Models # {}

\* The first access file has an administrator (security/accounts.py, validate_config),
\* and clients ask for what the service has routes for.
ASSUME AccessAssumption ==
    /\ FirstKeys \subseteq ApiKeys /\ Access!AdminsOn(Access!FirstFile) # {}
    /\ \A c \in Clients : Wishes[c] \subseteq
         {"login", "logout", "read", "write", "create", "grant", "stream"}

Parts == {"sessions", "config", "requests", "retention", "plans", "artifacts", "audit",
          "teams", "access"}

ServicesInit ==
    /\ part \in Parts
    /\ Init /\ Config!Init /\ Request!Init /\ Data!Init /\ Store!Init /\ Audit!Init
    /\ Planning!Init /\ Team!Init /\ Access!Init
    /\ part # "teams" => ~setup.single
    /\ part # "plans" => mode = "team" /\ enabled = {}

\* One part moves, the others stand still.
Only(p) ==
    /\ part = p /\ UNCHANGED part
    /\ p # "sessions" => UNCHANGED vars
    /\ p # "config" => UNCHANGED configVariables
    /\ p # "requests" => UNCHANGED requestVariables
    /\ p # "retention" => UNCHANGED retentionVariables
    /\ p # "plans" => UNCHANGED planVariables
    /\ p # "artifacts" => UNCHANGED artifactVariables
    /\ p # "audit" => UNCHANGED observerVariables
    /\ p # "teams" => UNCHANGED teamVariables
    /\ p # "access" => UNCHANGED accessVariables

ServicesNext ==
    \/ Only("sessions") /\ Next
    \/ Only("config") /\ Config!Next
    \/ Only("requests") /\ Request!Next
    \/ Only("retention") /\ Data!Next
    \/ Only("plans") /\ Planning!Next
    \/ Only("artifacts") /\ Store!Next
    \/ Only("audit") /\ Audit!Next
    \/ Only("teams") /\ Team!Next
    \/ Only("access") /\ Access!Next

ServicesSpec == ServicesInit /\ [][ServicesNext]_allVars

\* The fairness of Session, for the runs of that part.
FairServicesSpec ==
    ServicesSpec /\ \A s \in Sessions : WF_vars(Only("sessions") /\ Step(s))

-----------------------------------------------------------------------------
\* The nine type invariants, each for the states in which its part moves.
TypesOK ==
    CASE part = "sessions" -> TypeOK
      [] part = "config" -> Config!TypeOK
      [] part = "requests" -> Request!TypeOK
      [] part = "retention" -> Data!TypeOK
      [] part = "plans" -> Planning!TypeOK
      [] part = "artifacts" -> Store!TypeOK
      [] part = "audit" -> Audit!TypeOK
      [] part = "teams" -> Team!TypeOK
      [] part = "access" -> Access!TypeOK

\* Every session ends, which is what the scheduler relies on: its turns without
\* a tool are bounded by nudges, all others by the limits of the run
\* (runtime/worker.py, AgentRunner.run).
EverySessionEnds == part = "sessions" => \A s \in Sessions : <>(place[s] = "over")

\* However sessions interleave, retry, fail or are cancelled: what was spent and what
\* the calls under way reserve stay within the budget together, but for what answers
\* cost above their own reservations, which are estimates; a reservation is released
\* once, and kept only by a call that was torn down; and the counter that
\* bounds the calls never falls below those made (runtime/policy.py,
\* reserve_model_call; runtime/worker.py, _call_model).
BudgetKept ==
    part = "sessions" => WithinBudget /\ ReservedIsAccounted /\ AnswersAreCounted

\* However edits, probes, their rows and failures of these interleave, what is in force
\* is the last accepted edit of each setting, and an answered edit survives a crash; an
\* edit replaced what its author saw, but for one that came before the row of another;
\* a check is of the connection in force, but for a probe that an edit overtook.  A run
\* works with a proper team, from its plan on with no other whatever is edited
\* meanwhile; a fork with its source's plan has the team the plan was made for, unless
\* the configuration of the two differs (api/app.py, the configuration handlers;
\* api/service.py, save_config; runtime/team_selection.py; runtime/orchestrator.py,
\* precheck, fork and _execute).
SettingsStand ==
    /\ part = "config" =>
         /\ Config!LatestEditStands
         /\ Config!EditsReplaceWhatTheyRead
         /\ Config!ChecksAreOfTheirSettings
    /\ part = "teams" => Team!TeamsHold

\* An idempotency key does its work once: however often a request is sent and
\* wherever a process dies or refuses the job of a run it made, also after the run was
\* deleted, and after the data was restored from a snapshot, when no old job begins
\* again; and a selection that names the one its user saw replaces that one
\* (api/app.py, _idempotency and adopt; operations/retention.py and backup.py).
RequestsActOnce ==
    /\ part = "requests" => Request!KeyAnswersOnce /\ Request!SelectionsChain
    /\ part = "retention" => Data!KeyAdmitsOnce /\ Data!BegunOnce

\* Files and rows agree: while the service is up and in a whole snapshot no file
\* of a deleted run is left and no artifact lacks its file, and each published
\* revision has the file that was published, wherever a purge, a backup or a
\* publication was cut off (operations/retention.py, store/artifact_store.py).
FilesMatchRows ==
    /\ part = "retention" => Data!FilesMatchRows
    /\ part = "artifacts" => Store!RowsHaveTheirFiles

\* A plan that runs has no cycle, and where review is required all it produces
\* reaches a reviewer (runtime/planner.py, validate_plan).
PlansEndInReview == part = "plans" => Planning!PlansEndInReview

\* A fork keeps nothing downstream of a task it was asked to run again
\* (runtime/orchestrator.py, fork).
RerunsReachDownstream == Planning!RerunsReachDownstream

\* What a finished or accepted task reports stands: its declared outputs stay
\* its own, published and conforming while others publish, and its references
\* resolve in its run and in every fork (tools.py, finish_task; fork).
ResultsStand ==
    /\ part = "artifacts" => Store!FinishedOutputsStand
    /\ part = "plans" => Planning!ResultsResolve

\* What the collector keeps of a server's audit log has no gap and no record of
\* another server, however cycles fail (operations/observer.py, collect).
CopiesAreTheLog == part = "audit" => Audit!CopiesAreTheLog

\* Whatever is done for a request was allowed to its subject at some moment since it
\* came, and each batch of a stream's events since the batch before, although keys,
\* grants and sessions are taken back and old snapshots restored; and however runs of
\* issue_key interleave, no change is lost and an administrator stays
\* (security/server.py, authorize; api/app.py, run_stream; security/accounts.py,
\* issue_key).
AccessHolds == part = "access" => Access!ActsWithAuthority /\ Access!AccountsKept
=============================================================================
