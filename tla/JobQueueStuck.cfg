\* A process that ends between the two transactions of a delivery.
CONSTANTS
    a = a
    Runs = {a}
    Deliveries <- Twice
    Slots = 1
    MaxPending = 2
    MaxCrashes = 1
    None = None
SPECIFICATION Spec
PROPERTIES RestartMarksUnfinished
