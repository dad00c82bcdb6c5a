\* The document workflow: a review that ends without a verdict.
CONSTANTS
    t1 = t1  t2 = t2  r1 = r1  r2 = r2
    Tasks <- DocTasks
    Planned <- DocTasks
    Reviewers = {r1}
    DependsOn <- DocDeps
    PlanOrder <- DocOrder
    MasterIntervenes = FALSE
    RequireReview = TRUE
    MaxActiveWorkers = 2
    MaxRevisionRounds = 1
    MaxReplans = 0
    SessionOutcomes = {"finished", "failed", "cancelled"}
    MaxRevisions = 2
    MaxQuestions = 0
SPECIFICATION Spec
INVARIANTS NotStuckInReview
