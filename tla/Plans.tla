-------------------------------- MODULE Plans --------------------------------
(***************************************************************************)
(* Plans and forks: runtime/planner.py proposes and validates a plan,      *)
(* RunManager.fork (runtime/orchestrator.py) starts a new run from one     *)
(* that may still be working, keeping what was accepted.                   *)
(*                                                                         *)
(* Between the two, the scheduler is reduced to what a fork can see: a     *)
(* session is one step, from its start to the status its end is given.     *)
(* Each producer has one output file; what it publishes is told apart by   *)
(* the generation of the run and the number of the revision.               *)
(***************************************************************************)
EXTENDS Naturals, FiniteSets, Sequences, SequencesExt, FiniteSetsExt

CONSTANTS
    Order,              \* every task id, in the order of plan.tasks
    MaxTasks,           \* limits.max_tasks
    MaxRevisionRounds,
    MaxRevisions,       \* bound: revisions of one output
    MaxForks            \* bound: generations of forks

Tasks == ToSet(Order)
Roles == {"builder", "reviewer"}

VARIABLES
    mode,       \* team, document or single
    enabled,    \* the roles of the enabled agents
    phase,      \* "planning", "running" or "failed"
    attempts,   \* of plan_team
    plan,       \* tasks, dependencies and the role of each owner
    status, rounds,
    result,     \* TaskResult.published of each task: its last reference
    files,      \* the revisions of each task's output in the artifact store
    fork,       \* a fork between its reading the tasks and its copying the files
    asked, kept,    \* (history) rerun_tasks and kept_tasks of the last fork
    forks

planVars == <<mode, enabled, phase, attempts, plan>>
runVars  == <<status, rounds, result, files>>
forkVars == <<fork, asked, kept, forks>>
vars == <<planVars, runVars, forkVars>>

NoPlan == [tasks |-> {}, deps |-> [t \in {} |-> {}], role |-> [t \in {} |-> "builder"]]
NoResult == [rev |-> 0, content |-> <<0, 0>>]
NoFork == [keep |-> {}, result |-> [t \in {} |-> NoResult], asked |-> {0}]
Forking == fork # NoFork

Statuses == {"queued", "review_pending", "accepted", "partial", "failed", "cancelled"}

TypeOK ==
    /\ mode \in {"team", "document", "single"}
    /\ enabled \subseteq Roles
    /\ phase \in {"planning", "running", "failed"}
    /\ attempts \in 0..3
    /\ plan.tasks \subseteq Tasks
    /\ plan.deps \in [plan.tasks -> SUBSET plan.tasks]
    /\ plan.role \in [plan.tasks -> Roles]
    /\ status \in [Tasks -> Statuses]
    /\ rounds \in [Tasks -> 0..MaxRevisionRounds]
    /\ \A t \in Tasks : result[t].rev \in 0..MaxRevisions /\ Len(files[t]) \in 0..MaxRevisions
    /\ kept \subseteq Tasks /\ asked \subseteq Tasks
    /\ forks \in 0..MaxForks

-----------------------------------------------------------------------------
(* validate_plan                                                           *)

Reviews(p) == {t \in p.tasks : p.role[t] = "reviewer"}
Produces(p) == p.tasks \ Reviews(p)
Dependents(p, t) == {u \in p.tasks : t \in p.deps[u]}

Marks == {"new", "open", "done", "cycle"}

\* (mutant of Visit) A task met again while it is being visited is passed over.
VisitOnce(p) ==
    LET visit[at \in [p.tasks -> Marks] \X p.tasks] ==
            LET seen == at[1]
                t == at[2]
                below == FoldSet(LAMBDA d, s : visit[<<s, d>>],
                                 [seen EXCEPT ![t] = "open"], p.deps[t] \cap p.tasks)
            IN IF seen[t] # "new" THEN seen ELSE [below EXCEPT ![t] = "done"]
    IN visit

\* The depth-first search: a task met while it is open closes a cycle.
Visit(p) ==
    LET visit[at \in [p.tasks -> Marks] \X p.tasks] ==
            LET seen == at[1]
                t == at[2]
                below == FoldSet(LAMBDA d, s : visit[<<s, d>>],
                                 [seen EXCEPT ![t] = "open"], p.deps[t] \cap p.tasks)
            IN CASE seen[t] \in {"done", "cycle"} -> seen
                 [] seen[t] = "open" -> [u \in p.tasks |-> "cycle"]
                 [] seen[t] = "new" -> IF below[t] = "cycle" THEN below
                                       ELSE [below EXCEPT ![t] = "done"]
    IN visit

Cyclic(p) ==
    LET found == FoldSet(LAMBDA t, s : Visit(p)[<<s, t>>], [u \in p.tasks |-> "new"], p.tasks)
    IN \E t \in p.tasks : found[t] = "cycle"

\* (mutant of Reviewable) The last producers need no consumer.
ReviewableNever(p) == TRUE

\* Every production task has a consumer, every review task something to review.
Reviewable(p) == \A t \in Produces(p) : Dependents(p, t) # {}

Valid(p) ==
    /\ Cardinality(p.tasks) <= MaxTasks
    /\ \A t \in p.tasks : /\ p.role[t] \in enabled
                          /\ p.deps[t] \subseteq p.tasks \ {t}
    /\ \A t \in Reviews(p) : p.deps[t] # {}
    /\ Reviewable(p)
    /\ ~Cyclic(p)

\* What a model may answer: unknown dependencies and cycles included.
Proposals ==
    UNION {[tasks : {S}, deps : [S -> SUBSET Tasks], role : [S -> Roles]]
           : S \in (SUBSET Tasks) \ {{}}}

-----------------------------------------------------------------------------
Init ==
    /\ mode \in {"team", "document", "single"}
    /\ enabled \in SUBSET Roles
    /\ phase = "planning" /\ attempts = 0 /\ plan = NoPlan
    /\ status = [t \in Tasks |-> "queued"]
    /\ rounds = [t \in Tasks |-> 0]
    /\ result = [t \in Tasks |-> NoResult]
    /\ files = [t \in Tasks |-> <<>>]
    /\ fork = NoFork /\ asked = {} /\ kept = {} /\ forks = 0

Accept(p) ==
    /\ plan' = p /\ phase' = "running" /\ attempts' = 0
    /\ UNCHANGED <<mode, enabled, runVars, forkVars>>

\* plan_team, independent review required: three proposals, then the run fails.
PlanTeam ==
    /\ phase = "planning" /\ mode = "team" /\ "reviewer" \in enabled /\ attempts < 3
    /\ \/ \E p \in Proposals : Valid(p) /\ Accept(p)
       \/ /\ \E p \in Proposals : ~Valid(p)
          /\ attempts' = attempts + 1
          /\ UNCHANGED <<mode, enabled, phase, plan, runVars, forkVars>>

First == Order[1]
Second == Order[2]

DocumentPlan ==
    [tasks |-> {First, Second},
     deps |-> [t \in {First, Second} |-> IF t = First THEN {} ELSE {First}],
     role |-> [t \in {First, Second} |-> IF t = First THEN "builder" ELSE "reviewer"]]

\* document_plan: one producer and its reviewer, without a model.
PlanDocument ==
    /\ phase = "planning" /\ mode = "document" /\ enabled = Roles
    /\ Valid(DocumentPlan)
    /\ Accept(DocumentPlan)

\* single_agent_plan: the builder alone, not validated and not reviewed.
PlanSingle ==
    /\ phase = "planning" /\ mode = "single" /\ enabled = {"builder"}
    /\ Accept([tasks |-> {First}, deps |-> [t \in {First} |-> {}],
               role |-> [t \in {First} |-> "builder"]])

PlanError ==
    /\ phase = "planning"
    /\ \/ mode = "team" /\ ("reviewer" \notin enabled \/ attempts = 3)
       \/ mode = "document" /\ ~(enabled = Roles /\ Valid(DocumentPlan))
       \/ mode = "single" /\ enabled # {"builder"}
    /\ phase' = "failed"
    /\ UNCHANGED <<mode, enabled, attempts, plan, runVars, forkVars>>

-----------------------------------------------------------------------------
(* What the scheduler makes of the plan                                    *)

IsReview(t) == t \in Reviews(plan)
DepOk(t, d) ==
    status[d] \in (IF IsReview(t) THEN {"review_pending", "accepted"}
                                  ELSE {"review_pending", "accepted", "partial"})
DepDead(t, d) ==
    status[d] \in {"failed", "cancelled"} \cup (IF IsReview(t) THEN {"partial"} ELSE {})

MayRun(t) ==
    /\ phase = "running"
    /\ t \in plan.tasks
    /\ status[t] = "queued"
    /\ \A d \in plan.deps[t] : DepOk(t, d)

AwaitsReview(t) ==
    \E r \in Dependents(plan, t) : IsReview(r) /\ status[r] \in {"queued", "review_pending"}

Published(t, n) == files[t] \o [i \in 1..n |-> <<forks, Len(files[t]) + i>>]

\* A producer's session publishes and finishes.
Work(t) ==
    /\ MayRun(t) /\ ~IsReview(t)
    /\ \E n \in 1..2 :
        /\ Len(files[t]) + n <= MaxRevisions
        /\ files' = [files EXCEPT ![t] = Published(t, n)]
        /\ result' = [result EXCEPT ![t] = [rev |-> Len(Published(t, n)),
                                            content |-> Last(Published(t, n))]]
    /\ status' = [status EXCEPT ![t] = IF AwaitsReview(t) THEN "review_pending" ELSE "accepted"]
    /\ UNCHANGED <<planVars, rounds, forkVars>>

\* A session fails, after it published or before.
Fail(t) ==
    /\ MayRun(t)
    /\ status' = [status EXCEPT ![t] = "failed"]
    /\ \/ UNCHANGED files
       \/ /\ ~IsReview(t) /\ Len(files[t]) < MaxRevisions
          /\ files' = [files EXCEPT ![t] = Published(t, 1)]
    /\ UNCHANGED <<planVars, rounds, result, forkVars>>

\* A reviewer judges its targets: those that fail are revised while rounds are
\* left, the review with them; without rounds they are partial, the review done.
Review(r) ==
    /\ MayRun(r) /\ IsReview(r)
    /\ \E failing \in SUBSET (plan.deps[r] \ Reviews(plan)) :
        LET revised == {t \in failing : rounds[t] < MaxRevisionRounds}
        IN /\ status' = [t \in Tasks |->
                IF t \in revised THEN "queued"
                ELSE IF t \in failing THEN "partial"
                ELSE IF t \in plan.deps[r] THEN "accepted"
                ELSE IF t = r THEN (IF revised = {} THEN "accepted" ELSE "queued")
                ELSE status[t]]
           /\ rounds' = [t \in Tasks |-> IF t \in revised THEN rounds[t] + 1 ELSE rounds[t]]
    /\ UNCHANGED <<planVars, result, files, forkVars>>

\* A task whose dependency will never be usable, and one nobody will review.
Settle(t) ==
    /\ phase = "running" /\ t \in plan.tasks
    /\ \/ /\ status[t] = "queued" /\ \E d \in plan.deps[t] : DepDead(t, d)
          /\ status' = [status EXCEPT ![t] = "cancelled"]
       \/ /\ status[t] = "review_pending" /\ ~AwaitsReview(t)
          /\ status' = [status EXCEPT ![t] = "partial"]
    /\ UNCHANGED <<planVars, rounds, result, files, forkVars>>

-----------------------------------------------------------------------------
(* RunManager.fork                                                         *)

\* One pass over the plan: a task sees what the tasks before it added.
Grown(S) ==
    FoldLeft(LAMBDA R, t : IF t \in plan.tasks /\ plan.deps[t] \cap R # {} THEN R \cup {t} ELSE R,
             S, Order)

\* (mutant of Downstream) One pass.
DownstreamOnce(S) == Grown(S)

\* Passes until nothing is added.
Downstream(S) ==
    LET down[R \in SUBSET plan.tasks] == IF Grown(R) = R THEN R ELSE down[Grown(R)]
    IN down[S]

\* The tasks are read; the source may go on working.
ForkRead ==
    /\ phase = "running" /\ ~Forking /\ forks < MaxForks
    /\ \E S \in SUBSET plan.tasks :
        LET keep == {t \in plan.tasks \ Downstream(S) : status[t] = "accepted"}
        IN fork' = [keep |-> keep, result |-> [t \in keep |-> result[t]], asked |-> S]
    /\ UNCHANGED <<planVars, runVars, asked, kept, forks>>

\* (mutant of Copied) Only the latest revision is copied.
CopiedLatest(t) == IF files[t] = <<>> THEN <<>> ELSE <<Last(files[t])>>

\* Every revision is published again, in its order.
Copied(t) == files[t]

\* The files of the kept tasks are copied; from here on the fork is the run.
ForkCopy ==
    /\ Forking
    /\ kept' = fork.keep
    /\ status' = [t \in Tasks |-> IF t \in fork.keep THEN "accepted" ELSE "queued"]
    /\ result' = [t \in Tasks |-> IF t \in fork.keep THEN fork.result[t] ELSE NoResult]
    /\ files' = [t \in Tasks |-> IF t \in fork.keep THEN Copied(t) ELSE <<>>]
    /\ rounds' = [t \in Tasks |-> 0]
    /\ asked' = fork.asked
    /\ fork' = NoFork
    /\ forks' = forks + 1
    /\ UNCHANGED planVars

Next ==
    \/ PlanTeam \/ PlanDocument \/ PlanSingle \/ PlanError
    \/ \E t \in Tasks : Work(t) \/ Fail(t) \/ Review(t) \/ Settle(t)
    \/ ForkRead \/ ForkCopy

Spec == Init /\ [][Next]_vars

-----------------------------------------------------------------------------
(* Properties                                                              *)

\* The least set of tasks that holds S and whatever depends on a member.
Reached(S) ==
    {t \in plan.tasks :
        \A C \in SUBSET plan.tasks :
            (S \subseteq C /\ \A u \in C : Dependents(plan, u) \subseteq C) => t \in C}

\* A plan that runs has no cycle, and with review required whatever it
\* produces reaches a reviewer: the search that looks for cycles and the check
\* of each task's consumers together leave no loop of producers that feed only
\* each other (planner.py, validate_plan).
PlansEndInReview ==
    phase = "running" =>
        /\ \A S \in (SUBSET plan.tasks) \ {{}} : \E t \in S : plan.deps[t] \cap S = {}
        /\ mode # "single" => \A t \in Produces(plan) : Reached({t}) \cap Reviews(plan) # {}

\* The reference an accepted task reports resolves to what it published, in its
\* run and in every fork, although a fork numbers the revisions again and the
\* source may publish while it is copied (orchestrator.py, fork; TaskResult).
ResultsResolve ==
    \A t \in plan.tasks :
        status[t] = "accepted" /\ ~IsReview(t) =>
            /\ result[t].rev \in DOMAIN files[t]
            /\ files[t][result[t].rev] = result[t].content

\* A fork keeps nothing downstream of a task it was asked to run again, in
\* whatever order the plan lists the tasks (orchestrator.py, fork).
RerunsReachDownstream ==
    [][forks' # forks => kept' \cap Reached(fork.asked) = {}]_vars

\* The comment in fork says "anything downstream of a re-run task must also
\* re-run (no stale reviews/inputs)".
KeptInputsStand ==
    [][forks' # forks =>
        \A t \in kept' : plan.deps[t] \subseteq kept']_vars

=============================================================================
