\* Two terminals, lines of at most one character, one key per quantum, no Caps Lock; the
\* program on terminal 0 reads lines, the one on terminal 1 never does.
SPECIFICATION Spec
CONSTANTS
    NUM_TERMINALS = 2
    BUF_SIZE = 2
    MaxKeysPerQuantum = 1
    ReaderTerminals = {0}
    Scancodes <- MCScancodesNoCaps
    kbdus <- MCkbdus
    shift_kbdus <- MCshift_kbdus
    caps_kbdus <- MCcaps_kbdus
    ReadSizes <- MCReadSizes
INVARIANT
    TypeOK
PROPERTY
    ReadWakes
