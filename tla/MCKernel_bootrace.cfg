CONSTANTS
    MAX_PROCESSES = 6
    Statuses <- MCStatusesPass
    BootStack = BootStack
    UserStack = UserStack
    Null = Null
    GarbagePid = GarbagePid
    NoRet = NoRet
    MaxKeysPerQuantum = 1
    InputBeforeBoot = TRUE
    VidmapInBackground = FALSE
SPECIFICATION Spec
INVARIANT SchedulerConsistent
