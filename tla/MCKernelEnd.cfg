SPECIFICATION Spec
CONSTANTS
    Thread = {d, a, b}
    DefaultThread = d
    Mutex = {m, n}
    UserQueue = {}
    Isr = Isr
    NULL = NULL
    OS_PRIORITY_MAX = 1
    DefaultPriority = 1
    MaxSuspend = 1
    MaxLock = 1
    Calls = {"OSCreateThread", "OSResumeThread", "OSExitThread", "OSCancelThread", "OSJoinThread", "OSDetachThread", "OSLockMutex", "OSUnlockMutex"}
    IsrCalls = {}
    Disciplined = {d, a}
    Cancellable = {a, b}
INVARIANTS
    MutexConsistent
    EndedThreads
PROPERTIES
    WaitSetsSpec
\* Every thread may be asleep or suspended with no one left to wake it.
CHECK_DEADLOCK FALSE
