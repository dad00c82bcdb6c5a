\* A plan that the Master repairs after failures and extends at a milestone.
CONSTANTS
    t1 = t1  t2 = t2  r1 = r1  r2 = r2
    Tasks <- GrowingTasks
    Planned <- DocTasks
    Reviewers = {r1}
    DependsOn <- GrowingDeps
    PlanOrder <- GrowingOrder
    MasterIntervenes = TRUE
    RequireReview = TRUE
    MaxActiveWorkers = 1
    MaxRevisionRounds = 1
    MaxReplans = 1
    SessionOutcomes = {"finished", "failed", "cancelled"}
    MaxRevisions = 1
    MaxQuestions = 0
SPECIFICATION FairSpec
INVARIANTS WorkerLimit
PROPERTIES Termination StopKeepsTasksResumable GivenUpCannotRun
