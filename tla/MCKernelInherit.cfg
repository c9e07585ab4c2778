SPECIFICATION FairSpec
CONSTANTS
    Thread = {d, a, b}
    DefaultThread = d
    Mutex = {m, n}
    UserQueue = {}
    Isr = Isr
    NULL = NULL
    OS_PRIORITY_MAX = 1
    DefaultPriority = 1
    MaxSuspend = 1
    MaxLock = 1
    Calls = {"OSCreateThread", "OSResumeThread", "OSLockMutex", "OSUnlockMutex", "OSSetThreadPriority"}
    IsrCalls = {}
    Disciplined = {d, a, b}
    Cancellable = {}
INVARIANTS
    MutexWaiters
    InheritedPriority
    HighestPriorityRuns
PROPERTIES
    KernelReturns
\* Every thread may be asleep or suspended with no one left to wake it.
CHECK_DEADLOCK FALSE
