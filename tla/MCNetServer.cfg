CONSTANTS
    NumCells = 2
    MaxConns = 3
    Fds = {f1, f2, f3}
    MaxErrors = 1
    Acceptor = Acceptor
    Closed = Closed
SYMMETRY FdSymmetry
SPECIFICATION Spec
INVARIANTS OnePlace ConnCountExact AcceptorMeetsLiveCells
    NoWorkerInDestroyedCell ClosedMeansNoSockets
CHECK_DEADLOCK FALSE
