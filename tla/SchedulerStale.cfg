\* Two reviewers of one producer: a verdict and a revision cross.
CONSTANTS
    t1 = t1  t2 = t2  r1 = r1  r2 = r2
    Tasks <- TwoTasks
    Planned <- TwoTasks
    Reviewers = {r1, r2}
    DependsOn <- TwoDeps
    PlanOrder <- TwoOrder
    MasterIntervenes = FALSE
    RequireReview = TRUE
    MaxActiveWorkers = 2
    MaxRevisionRounds = 1
    MaxReplans = 0
    SessionOutcomes = {"finished", "failed", "cancelled"}
    MaxRevisions = 2
    MaxQuestions = 0
SPECIFICATION Spec
INVARIANTS CompletedIsReviewed
