\* Alt+F while the shown terminal's program runs, then a write by that
\* program: the cursor drawn on the new screen is the hidden terminal's.
CONSTANTS
    MAX_PROCESSES = 5
    Statuses <- MCStatusesPass
    BootStack = BootStack
    UserStack = UserStack
    Null = Null
    GarbagePid = GarbagePid
    NoRet = NoRet
    MaxKeysPerQuantum = 1
    InputBeforeBoot = FALSE
    VidmapInBackground = FALSE
SPECIFICATION Spec
INVARIANT VgaCursorShown
