\* Two producers in a chain and one reviewer of both, every way a session ends.
CONSTANTS
    t1 = t1  t2 = t2  r1 = r1  r2 = r2
    Tasks <- PairTasks
    Planned <- PairTasks
    Reviewers = {r1}
    DependsOn <- PairDeps
    PlanOrder <- PairOrder
    MasterIntervenes = FALSE
    RequireReview = TRUE
    MaxActiveWorkers = 2
    MaxRevisionRounds = 1
    MaxReplans = 0
    SessionOutcomes <- AllOutcomes
    MaxRevisions = 2
    MaxQuestions = 1
SPECIFICATION Spec
INVARIANTS
    TypeOK TargetsHoldStill RevisionIsInformed CompletedIsReviewed
    ReviewLoopInv
PROPERTIES VerdictCoversCurrentRevision
