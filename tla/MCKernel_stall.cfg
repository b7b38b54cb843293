\* The boot race with three pids, the fewest that let one early execute
\* exhaust them: reaches the failed shell spawn and the stalled scheduler.
CONSTANTS
    MAX_PROCESSES = 3
    Statuses <- MCStatusesPass
    BootStack = BootStack
    UserStack = UserStack
    Null = Null
    GarbagePid = GarbagePid
    NoRet = NoRet
    MaxKeysPerQuantum = 1
    InputBeforeBoot = TRUE
    VidmapInBackground = FALSE
SPECIFICATION Spec
INVARIANT StallExhausted
PROPERTY StallIsPermanent
