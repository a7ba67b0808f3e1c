CONSTANTS
    MaxConns = 2
    NumFds = 1
    MaxMsgs = 2
    MaxFrames = 1
    Absent = Absent
    Null = Null
SPECIFICATION Spec
INVARIANTS RegisterAssertion
CHECK_DEADLOCK FALSE
