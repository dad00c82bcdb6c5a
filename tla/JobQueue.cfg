\* One run, executed and resumed, with two crashes or shutdowns at any point.
CONSTANTS
    a = a
    Runs = {a}
    Deliveries <- Twice
    Slots = 1
    MaxPending = 2
    MaxCrashes = 2
    None = None
SPECIFICATION FairSpec
INVARIANTS
    ExecutedAtMostOnce ExecutionsDoNotOverlap RunningIsExecuted
    DeliveryInv
PROPERTIES PromiseKept QueuedIsDelivered
