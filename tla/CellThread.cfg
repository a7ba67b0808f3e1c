CONSTANTS
    Owners = {o1, o2}
    MaxStarts = 4
    Free = Free
SPECIFICATION Spec
INVARIANTS JoinBalance ClosedMeansJoined RunningIsServed
PROPERTIES CloseReturnsOrStuck
CHECK_DEADLOCK FALSE
