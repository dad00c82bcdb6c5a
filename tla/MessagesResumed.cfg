\* The same run: a resume drops the reservation contract.
CONSTANTS
    t1 = t1  r1 = r1
    producer = producer  reviewer = reviewer  master = master
    Tasks <- PairTasks
    Agents = {producer, reviewer, master}
    Owner <- PairOwner
    DependsOn <- PairDeps
    ReviewerAgents = {reviewer}
    Master = master
    MaxPeerMessages = 5
    MaxRevisionRounds = 1
    Discussed = {t1, r1}
    MaxQuestions = 1
    MaxResumes = 1
    MaxRetryResumes = 0
SPECIFICATION Spec
INVARIANTS ReserveFits
