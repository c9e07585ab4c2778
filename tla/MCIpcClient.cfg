SPECIFICATION IpcFairSpec
CONSTANTS
    IpcCaller = {c1, c2}
    Request = {r1, r2, r3}
    NoRequest = NoRequest
    IpcCapacity = 2
    IpcWord = 7
    MaxQueued = 4
    MayReboot = TRUE
CHECK_DEADLOCK FALSE
INVARIANTS
    RequestsSafe
PROPERTIES
    MailboxSafe
    BrokerSpec
    CallersReturn
