------------------------------ MODULE MCKernel ------------------------------
(* Model-checking instance of Kernel: the pid count, two or three halt    *)
(* statuses and the environment assumptions chosen per .cfg; and the      *)
(* Console operators at a small screen size, and printf of lib.c.        *)
EXTENDS Kernel

MCStatusesPass == {0, HALT_STATUS_EXC}
MCStatusesAll == {0, 1, HALT_STATUS_EXC}

\* The text in the frame of the shown terminal (Console), on a screen of 2
\* rows of 2 columns with lines of up to 3 characters, so that a line
\* wraps, scrolls the screen and is erased back across a row; two
\* characters, an empty and a full history, key sequences of up to 5.
Con == INSTANCE Console WITH NUM_COLS <- 2, NUM_ROWS <- 2, BUF_SIZE <- 4,
                             EchoChars <- {"a", "b"},
                             Histories <- {<<>>, <<"b", "a", "b">>},
                             MaxKeys <- 5

\* The Console check over all its key sequences: a constant, which TLC
\* evaluates once when it loads the model.
EchoChecked == Con!EchoShowsLine

\* Spec 4.C: the echo of typed characters, backspace, the up arrow and
\* Ctrl+L (keyboard.c through putc, screen_backspace, scroll_up and clear
\* of lib.c) leaves the shown frame holding the earlier text, the line
\* being typed and blanks, with the cursor right after the line.  Stated
\* of the shown terminal curr_ter in every state; the echo does not
\* depend on the rest of the kernel state.
EchoShowsLine == curr_ter \in Terminals /\ EchoChecked

\* lib.c's printf and memcpy (Lib) on 30-bit words, the widest for which
\* TLC's integers hold 2^WIDTH; it keeps 8-digit hex values, so %#x is
\* checked with no padding too.  The words are the edges: 0 (itoa's
\* special case), one and two digits, 0xE (the comment's example),
\* 0x10000000 (8 hex digits with inner zeros), INT_MAX, INT_MIN and -1.
\* Formats of up to two conversions or characters.
Lb == INSTANCE Lib WITH WIDTH <- 30,
                         Words <- {0, 1, 10, 14, 2^28, 2^29 - 1, 2^29, 2^30 - 1},
                         Strings <- {<<>>, <<"h", "i">>}, Chars <- {"q"},
                         MaxTokens <- 2, MemSize <- 25, MaxCopy <- 9

\* The printf check over all its formats: a constant, evaluated once.
PrintfChecked == Lb!PrintfFormats

\* The lib.c header comment of printf: every supported conversion prints
\* what it says, in order, each taking its own argument.  printf is what
\* execute, halt and the exception handlers (blue_screen) print with.
\* Stated in every state, as EchoShowsLine.
PrintfFormats == curr_ter \in Terminals /\ PrintfChecked
=============================================================================
