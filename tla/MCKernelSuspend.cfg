SPECIFICATION Spec
CONSTANTS
    Thread = {d, a, b}
    DefaultThread = d
    Mutex = {m}
    UserQueue = {q}
    Isr = Isr
    NULL = NULL
    OS_PRIORITY_MAX = 1
    DefaultPriority = 0
    MaxSuspend = 2
    MaxLock = 2
    Calls = {"OSCreateThread", "OSResumeThread", "OSSuspendThread", "OSLockMutex", "OSTryLockMutex", "OSUnlockMutex", "OSSleepThread", "OSWakeupThread", "OSYieldThread"}
    IsrCalls = {"OSWakeupThread", "OSResumeThread"}
    Disciplined = {d, a, b}
    Cancellable = {d, a, b}
SYMMETRY ThreadSymmetry
INVARIANTS
    QueuesExact
    InheritedPriority
\* Every thread may be asleep or suspended with no one left to wake it.
CHECK_DEADLOCK FALSE
