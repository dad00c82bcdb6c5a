\* Three tasks, one revision round, one fork.
CONSTANTS
    Order <- ThreeTasks
    MaxTasks = 3
    MaxRevisionRounds = 1
    MaxRevisions = 2
    MaxForks = 1
SPECIFICATION Spec
PROPERTIES KeptInputsStand
CHECK_DEADLOCK FALSE
