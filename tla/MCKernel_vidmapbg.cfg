CONSTANTS
    MAX_PROCESSES = 6
    Statuses <- MCStatusesPass
    BootStack = BootStack
    UserStack = UserStack
    Null = Null
    GarbagePid = GarbagePid
    NoRet = NoRet
    MaxKeysPerQuantum = 1
    InputBeforeBoot = FALSE
    VidmapInBackground = TRUE
SPECIFICATION Spec
INVARIANT ScreenIsolation
