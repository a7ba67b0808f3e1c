CONSTANTS
    NumCells = 1
    MaxConns = 3
    Fds = {f1, f2}
    MaxErrors = 1
    Acceptor = Acceptor
    Closed = Closed
SPECIFICATION Spec
INVARIANTS FdSetFresh
PROPERTIES Served ExitNoticed CloseEnds
CHECK_DEADLOCK FALSE
