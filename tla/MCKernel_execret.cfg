CONSTANTS
    MAX_PROCESSES = 6
    Statuses <- MCStatusesAll
    BootStack = BootStack
    UserStack = UserStack
    Null = Null
    GarbagePid = GarbagePid
    NoRet = NoRet
    MaxKeysPerQuantum = 1
    InputBeforeBoot = FALSE
    VidmapInBackground = FALSE
SPECIFICATION Spec
PROPERTY ExecuteReturnsStatus
