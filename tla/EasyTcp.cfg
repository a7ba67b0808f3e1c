CONSTANTS
    g_thread_count = 2
    pre_count = 2
    NumFds = 1
    Nobody = Nobody
SPECIFICATION Spec
INVARIANTS OwnSocket DeletedOnlyAtExit
PROPERTIES AllStart ExitEnds
CHECK_DEADLOCK FALSE
