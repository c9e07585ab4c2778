SPECIFICATION ServicesSpec
CONSTANTS
    Thread = {t1, t2, t3}
    Message = {a, b}
    NoMessage = NoMessage
    Capacity = 3
    Alarm = {tick, cover, sleep}
    Sleeper = {sleep}
    DvdAlarm = {cover}
    NoDec = NoDec
    NotPending = NotPending
    MaxDec = 2
    MaxTime = 4
    Delay = {1, 3}
    Start = {0, 3}
    f1 = f1
    f2 = f2
    File = {f1, f2}
    NoFile = NoFile
    Prio = {1, 2}
    Priority <- FilePriority
    Transfers <- FileTransfers
    SyncFile = {f1}
    Contexts = 4
    MaxReads = 2
    MaxTroubles = 2
    HeapBase = 2
    HeapSize = 22
    BlockSize = {1, 2, 4, 6}
    BlockAlign = {1, 2, 4, 8}
    FrmStart = 3
    FrmEnd = 11
    SndEnd = 36
    StateSize = 1
    FrmSize = {1, 3}
    FrmAlign = {1, 4}
    StateId = {1, 2}
    MaxStates = 2
    SectionSize = 2
    BlockHead = 2
    BlockAlignTo = 2
    SndSize = {1, 3}
    MaxLevel = 3
    miiA = miiA
    miiB = miiB
    miiC = miiC
    Nothing = Nothing
    DataSlot = {1, 2}
    FileDescr = {3, 4, 5}
    Unique = {1, 2, 3}
    MaxRetry = 1
    Contents <- FileContent
    Pads <- RemoteMiis
    MaxPadReads = 2
    MaxCalls = 2
    MaxCrashes = 1
    MaxFailures = 1
INVARIANTS
    ServicesTypeOK
    NoLostWakeup
    AlarmsKept
    OneContinuation
    StopLeavesNothing
    DvdDriven
    HeapExact
    LevelsKept
    AnswersTruthful
PROPERTIES
    DequeSpec
    RingsOnGrid
    ClockSpec
    FrameMarks
    ServiceSpec
    NoMiiLost
    FacesSettle
\* The alarms' clock stops at its bound, the play record when stopped, and the
\* driver and the face library when every request is served.
CHECK_DEADLOCK FALSE
