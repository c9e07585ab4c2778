SPECIFICATION WorkersSpec
CONSTANTS
    Task = {header, x, y}
    Loader = {header}
    Client = {main, sound}
    Main = main
    NULL = NULL
    WorkerFirst = TRUE
    JobTask = {t1, t2}
    None = None
    Capacity = 3
    EndCapacity = 2
    ThreadFirst = TRUE
    f1 = f1
    f2 = f2
    File = {f1, f2}
    NoFile = NoFile
    Prio = {1, 2}
    Priority <- FilePriority
    Transfers <- FileTransfers
    SyncFile = {f1}
    Contexts = 4
    MaxReads = 2
    MaxTroubles = 2
INVARIANTS
    SleepsIdle
    LinkedOnce
    CancelCompletes
    SlotOwned
PROPERTIES
    FifoSpec
    RequestsServed
