SPECIFICATION WatchdogsSpec
CONSTANTS
    Jobs = {j1, j2}
    DownAfter = 3
    UpAfter = 2
    BusyGrace = 2
    FlapThreshold = 2
    MaxFlaps = 2
    Weather = {"up", "busy", "down"}
    MayFail = {"list", "pause", "push"}
    CronJobs = {"job"}
    StoreOf <- OneStore
    Minutes <- ByExpression
    Gaps = {1, 3}
    MissedCycles = 1
    Floor = 0
    Ceiling = 2
    FlapAlerts = 2
    FlapWindow = 6
    FlapQuiet = 0
    PauseAlert = 1
    WatchMay = {"kill", "send", "save", "unreadable"}
    LastMoment = 6
    MaxMoves = 3
INVARIANTS IInv UpMeansRunning OutageIsPagedOrOpen StateIsTrue
PROPERTIES PauseIsDebounced RecoveryIsTold PagesAreEarned
CHECK_DEADLOCK FALSE
