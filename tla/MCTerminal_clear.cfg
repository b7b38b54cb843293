\* Both terminals run a program that reads lines.  One read ends while the
\* other terminal is shown with a line entered and not yet read.
SPECIFICATION Spec
CONSTANTS
    NUM_TERMINALS = 2
    BUF_SIZE = 2
    MaxKeysPerQuantum = 1
    ReaderTerminals = {0, 1}
    Scancodes <- MCScancodes
    kbdus <- MCkbdus
    shift_kbdus <- MCshift_kbdus
    caps_kbdus <- MCcaps_kbdus
    ReadSizes <- MCReadSizes
INVARIANT
    EnteredLineKept
