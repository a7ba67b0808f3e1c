CONSTANTS
    MaxConns = 2
    MaxFrames = 3
    MaxKeys = 1
    MaxTaken = 1
SPECIFICATION Spec
INVARIANTS InStep MissedFrames SameBodies
CHECK_DEADLOCK FALSE
