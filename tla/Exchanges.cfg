\* A producer and its reviewer with one question and one resume; three messages
\* and two readers; two tasks that ask for approval once, two requests of users
\* at a time and one crash; four events over two connections; a session and a
\* probe with one call each; a secured command, one that is not, and a check.
CONSTANTS
    p1 = p1  r1 = r1
    producer = producer  reviewer = reviewer  master = master
    Tasks <- PairTasks
    Agents = {producer, reviewer, master}
    Owner <- PairOwner
    DependsOn <- PairDeps
    ReviewerAgents = {reviewer}
    Master = master
    MaxPeerMessages = 5
    MaxRevisionRounds = 1
    Discussed = {p1, r1}
    MaxQuestions = 1
    MaxResumes = 1
    MaxRetryResumes = 0
    Mails = {m1, m2, m3}
    Readers = {s1, s2}
    t1 = t1  t2 = t2  c1 = c1  c2 = c2
    Askers = {t1, t2}
    MaxRequests = 1
    Resolvers = {c1, c2}
    MaxCrashes = 1
    MaxRefusals = 1
    None = None
    MaxEvents = 4
    MaxConnections = 2
    Workers = {"w"}
    Probes = {"p"}
    MaxCalls = 1
    Nobody = Nobody
    Tools = {"x", "y"}
    Checks = {"z"}
    Secured = {"x"}
    Mode = "auto"
    Seatbelt = TRUE
SPECIFICATION ExchangesSpec
SYMMETRY Alike
CHECK_DEADLOCK FALSE
INVARIANTS
    TypesOK ReserveFitsUntilResume HandoffsFit AnswersAreAdmitted
    NoMailLost ApprovalsHold StreamFollowsLog NothingIsLeft
PROPERTIES PausedTaskAwaitsDecision DecisionResumes
