CONSTANTS
    MaxTasks = 4
    MaxLives = 2
SPECIFICATION Spec
INVARIANTS InOrder ClosedMeansDrained RepeatsOnlyDrained
PROPERTIES TaskRuns
CHECK_DEADLOCK FALSE
