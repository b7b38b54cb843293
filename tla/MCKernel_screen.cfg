\* Two keyboard events per quantum, and vidmap by a program whose terminal
\* is hidden: each lets another terminal's output reach a screen.
CONSTANTS
    MAX_PROCESSES = 6
    Statuses <- MCStatusesPass
    BootStack = BootStack
    UserStack = UserStack
    Null = Null
    GarbagePid = GarbagePid
    NoRet = NoRet
    MaxKeysPerQuantum = 2
    InputBeforeBoot = FALSE
    VidmapInBackground = TRUE
SPECIFICATION Spec
INVARIANT ScreenIsolation
