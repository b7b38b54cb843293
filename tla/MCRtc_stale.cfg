SPECIFICATION Spec
CONSTANTS
    MAX_PROCESSES = 3
    NUM_TERMINALS = 2
    MaxRtcFds = 1
    WriteArgs <- MCWriteArgs
INVARIANT
    ReadWithinPeriod
