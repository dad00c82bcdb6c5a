\* One producer with two reviewers: sessions overlap and are lost.
CONSTANTS
    t1 = t1  t2 = t2  r1 = r1  r2 = r2
    Tasks <- TwoTasks
    Planned <- TwoTasks
    Reviewers = {r1, r2}
    DependsOn <- TwoDeps
    PlanOrder <- TwoOrder
    MasterIntervenes = FALSE
    RequireReview = TRUE
    MaxActiveWorkers = 2
    MaxRevisionRounds = 2
    MaxReplans = 0
    SessionOutcomes <- AllOutcomes
    MaxRevisions = 2
    MaxQuestions = 0
SPECIFICATION Spec
INVARIANTS RunningHasSession ReturnLeavesNothingRunning
