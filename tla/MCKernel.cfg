\* Process lifecycle and scheduling with five pids (three shells and two
\* children), the three shells started before any input and one keyboard
\* event per quantum.
CONSTANTS
    MAX_PROCESSES = 5
    Statuses <- MCStatusesPass
    BootStack = BootStack
    UserStack = UserStack
    Null = Null
    GarbagePid = GarbagePid
    NoRet = NoRet
    MaxKeysPerQuantum = 1
    InputBeforeBoot = FALSE
    VidmapInBackground = FALSE
SPECIFICATION Spec
INVARIANT TypeOK
INVARIANT SchedulerConsistent
INVARIANT SavedContextsValid
INVARIANT ProcessTree
INVARIANT ScreenIsolation
INVARIANT CursorFollowsTerminal
INVARIANT EchoShowsLine
INVARIANT PrintfFormats
PROPERTY EveryTerminalServed
PROPERTY StacksRefined
