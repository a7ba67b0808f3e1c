CONSTANTS
    PoolSize = 4
    Heap = {h1, h2}
    NULL = NULL
SPECIFICATION PoolSpec
INVARIANTS FreeListExact AssertsHold
PROPERTIES ImplementsStore
CHECK_DEADLOCK FALSE
