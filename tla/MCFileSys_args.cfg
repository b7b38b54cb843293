SPECIFICATION Spec
CONSTANTS
    FILE_NAME_SIZE = 3
    BLOCK_SIZE_BYTES = 2
    FDT_SIZE = 4
    ArgsPtr = ArgsPtr
    ArgsReachFdt = TRUE
    Dentries <- MCDentries
    InodeLength <- MCInodeLength
    InodeBlocks <- MCInodeBlocks
    OpenNames <- MCOpenNames
    ReadSizes <- MCReadSizes
INVARIANT
    DispatchThroughTable
