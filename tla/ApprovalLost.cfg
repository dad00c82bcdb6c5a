\* One task that asks once, one request of a user at a time.
CONSTANTS
    t1 = t1  c1 = c1  None = None
    Tasks = {t1}
    MaxRequests = 1
    Resolvers = {c1}
    MaxCrashes = 0
    MaxRefusals = 0
SPECIFICATION Spec
INVARIANTS PausedMeansUndecided
