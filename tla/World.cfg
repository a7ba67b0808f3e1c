CONSTANTS
    MaxConns = 2
    NumFds = 2
    MaxMsgs = 4
    MaxFrames = 2
    Absent = Absent
    Null = Null
SPECIFICATION Spec
INVARIANTS PhantomsKill SessionOfClient HandledForItsConnection
    KeysInOneFrame
PROPERTIES ImplementsFrameServer
CHECK_DEADLOCK FALSE
