\* Execute every command of MCCommands, then getargs with 0 to 3 bytes.
SPECIFICATION ExecSpec
CONSTANTS
    FILE_NAME_SIZE = 3
    BLOCK_SIZE_BYTES = 2
    FDT_SIZE = 4
    ArgsPtr = ArgsPtr
    ArgsReachFdt = FALSE
    MAX_CMD_LEN = 3
    MAX_ARG_LEN = 7
    Dentries <- MCDentries
    InodeLength <- MCInodeLength
    InodeBlocks <- MCInodeBlocks
    OpenNames <- MCOpenNames
    ReadSizes <- MCReadSizes
    ElfInodes <- MCElfInodes
    Commands <- MCCommands
    ArgSizes <- MCArgSizes
INVARIANT
    GetargsDeliversArgs
