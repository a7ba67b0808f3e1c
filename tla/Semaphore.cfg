CONSTANTS
    Threads = {t1, t2, t3, t4}
    MaxWaitRef = 2
SPECIFICATION SemaphoreSpec
INVARIANTS NoLostWakeup
PROPERTIES ImplementsSafety ImplementsProgress
