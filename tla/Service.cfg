\* A session of an API driver and one of the command line share a budget; the other
\* parts get two or three of everything, one crash, and two of what can be repeated.
CONSTANTS
    a = a  b = b
    Sessions = {a, b}
    CliSessions = {b}
    Estimates = {1, 2}
    Budget = 3
    SessionCap = 2
    MaxModelCalls = 4
    MaxToolCalls = 1
    MaxExtraCalls = 1
    MaxExcess = 1
    MaxCrashes = 1
    TeamEdits = {e1, e2}
    ConnEdits = {e3}
    Seeded = Seeded
    NotRun = NotRun
    MaxProbes = 1
    c1 = c1  c2 = c2  c3 = c3  u1 = u1  u2 = u2  k1 = k1  k2 = k2
    Callers = {c1, c2, c3}
    Adopters = {u1, u2}
    KeyOf <- KeyOfCallers
    PayloadOf <- Inputs
    Operation <- OperationOfKeys
    Selections <- Chosen
    None = None
    Denied = Denied
    MaxPending = 1
    MaxMade = 3
    Dirs = {d1, d2}
    Receipts = {h1}
    MaxJobs = 3
    MaxKills = 2
    Order <- PlanOrder
    MaxTasks = 3
    MaxRevisionRounds = 1
    MaxRevisions = 2
    MaxForks = 1
    t1 = t1  t2 = t2
    Writers = {t1, t2}
    Paths = {"own", "free"}
    Declared <- DeclaredPaths
    Required = {"own"}
    Contents <- PathContents
    Conforming = {"good"}
    MaxSessions = 2
    NoDraft = NoDraft
    Nobody = Nobody
    PageSize = 1
    MaxPages = 2
    MaxRecords = 3
    MaxReplaced = 2
    Agents = {"m", "b", "r", "team_1"}
    Role <- RoleOfAgents
    Locked <- LockedAgents
    Name <- NameOfAgents
    Conn <- ConnOfAgents
    TeamIds <- GeneratedIds
    Given = {"To", "Al"}
    Connections = {"c", "d"}
    Models = {"x", "y"}
    ReviewRequired = TRUE
    Kinds = {"fixed", "selected", "adaptive"}
    MaxMembers = 2
    MaxEdits = 1
    ApiKeys = {"ann1", "bob1", "ann2"}
    FirstKeys = {"ann1", "bob1"}
    Revocations = {"stop"}
    Subject <- SubjectOfKeys
    KeyRole <- RoleOfKeys
    Clients = {"c1", "c2"}
    Wishes <- WishesOfClients
    Tokens = {"t1"}
    Sso = "sso"
    Creator = "bob"
    Grantees = {"bob"}
    NotTaken = NotTaken
    MaxRestores = 1
SPECIFICATION FairServicesSpec
CHECK_DEADLOCK FALSE
INVARIANTS
    TypesOK BudgetKept SettingsStand
    RequestsActOnce FilesMatchRows PlansEndInReview ResultsStand CopiesAreTheLog AccessHolds
PROPERTIES EverySessionEnds RerunsReachDownstream
