SPECIFICATION IpcSpec
CONSTANTS
    IpcCaller = {c1}
    Request = {r1, r2}
    NoRequest = NoRequest
    IpcCapacity = 2
    IpcWord = 4
    MaxQueued = 4
    MayReboot = FALSE
PROPERTIES
    BusyWhenFull
CHECK_DEADLOCK FALSE
