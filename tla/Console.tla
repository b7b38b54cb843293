------------------------------ MODULE Console ------------------------------
(***************************************************************************)
(* The text console of lib.c and the echo of the line being typed that     *)
(* keyboard.c builds on it, as pure operators over one video frame.        *)
(*                                                                         *)
(* A screen is a record:                                                   *)
(*   cell[r][c]  the character byte of row r, column c of video_mem (the  *)
(*               attribute byte, always ATTRIB, is left out)               *)
(*   x, y        screen_x and screen_y; x = NUM_COLS after a write into    *)
(*               the last column: putc wraps before the next character,    *)
(*               not after this one                                        *)
(*   top         (auxiliary) rows scroll_up has pushed off the top         *)
(* Which frame video_mem maps and whose cursor is loaded are the Kernel    *)
(* module's concern; here the frame is the shown terminal's and the        *)
(* cursor its own.                                                         *)
(*                                                                         *)
(* An echo state adds the line discipline of the shown terminal: line     *)
(* (terminals[curr_ter].typing up to buf_len) and hist (its history).      *)
(***************************************************************************)
EXTENDS Integers, Sequences

CONSTANTS
    NUM_COLS,    \* lib.c: 80
    NUM_ROWS,    \* lib.c: 25
    BUF_SIZE,    \* keyboard.h: 128
    EchoChars,   \* printable characters the user types
    Histories,   \* lines the history buffer may hold
    MaxKeys      \* length of the key sequences checked

\* A line of BUF_SIZE - 1 characters typed after a full screen scrolls
\* its first character no further than the top row: it spans at most
\* NUM_ROWS rows (2 for 127 characters on 25 rows of 80).
ASSUME (BUF_SIZE - 2) \div NUM_COLS + 1 <= NUM_ROWS

Rows == 0 .. NUM_ROWS - 1
Cols == 0 .. NUM_COLS - 1
BLANK == " "
NL == "\n"
CR == "\r"

Blank == [r \in Rows |-> [c \in Cols |-> BLANK]]

\* get_cursor_pos(): the cursor as an offset into the frame.
get_cursor_pos(s) == s.y * NUM_COLS + s.x

-----------------------------------------------------------------------------
(* lib.c                                                                   *)

\* clear(): every character cell a space; the cursor is not moved.
clear(s) == [s EXCEPT !.cell = Blank]

\* reset_cursor(): screen_x = screen_y = 0.
reset_cursor(s) == [s EXCEPT !.x = 0, !.y = 0]

\* scroll_up(): every row takes the contents of the one below it, and the
\* last row is cleared.
scroll_up(s) ==
    [s EXCEPT !.cell = [r \in Rows |-> IF r < NUM_ROWS - 1 THEN s.cell[r + 1]
                                        ELSE [c \in Cols |-> BLANK]],
              !.top = @ + 1]

\* The step putc takes for a newline and before writing past the last
\* column: the next row, scrolling up if it was the last, and column 0.
NewLine(s) ==
    IF s.y + 1 = NUM_ROWS THEN [scroll_up(s) EXCEPT !.x = 0]
    ELSE [s EXCEPT !.x = 0, !.y = @ + 1]

\* putc(c): '\n' and '\r' start a new line; any other byte first wraps if
\* the cursor is past the last column, then is stored and the cursor
\* advances.  (set_cursor, which follows, saves and draws the cursor.)
putc(s, c) ==
    IF c \in {NL, CR} THEN NewLine(s)
    ELSE LET w == IF s.x = NUM_COLS THEN NewLine(s) ELSE s
         IN  [w EXCEPT !.cell[w.y][w.x] = c, !.x = @ + 1]

\* Mutant: at column 0 the step back lands one column short of the end of
\* the row above.
screen_backspace_short(s) ==
    IF s.x = 0 /\ s.y = 0 THEN s
    ELSE LET t == IF s.x = 0 THEN [s EXCEPT !.y = @ - 1, !.x = NUM_COLS - 1]
                  ELSE s
         IN  [t EXCEPT !.x = @ - 1, !.cell[t.y][t.x - 1] = BLANK]

\* screen_backspace(): nothing at the top left corner; at column 0 go to
\* the end of the row above; then step back and blank that cell.
screen_backspace(s) ==
    IF s.x = 0 /\ s.y = 0 THEN s
    ELSE LET t == IF s.x = 0 THEN [s EXCEPT !.y = @ - 1, !.x = NUM_COLS]
                  ELSE s
         IN  [t EXCEPT !.x = @ - 1, !.cell[t.y][t.x - 1] = BLANK]

-----------------------------------------------------------------------------
(* keyboard.c: the echo of the shown terminal's line.                      *)

\* retype_buffer(): putc of every character of the line.
RECURSIVE retype_buffer(_, _)
retype_buffer(s, line) ==
    IF line = <<>> THEN s ELSE retype_buffer(putc(s, Head(line)), Tail(line))

\* print_char(c): ignored once the line holds BUF_SIZE - 1 characters,
\* otherwise appended and echoed.
print_char(e, c) ==
    IF Len(e.line) >= BUF_SIZE - 1 THEN e
    ELSE [e EXCEPT !.scr = putc(@, c), !.line = Append(@, c)]

\* backspace(): with a character in the line, erase one on the screen and
\* drop it from the line.
backspace(e) ==
    IF e.line = <<>> THEN e
    ELSE [e EXCEPT !.scr = screen_backspace(@),
                   !.line = SubSeq(@, 1, Len(@) - 1)]

\* control_l(): clear, reset_cursor, then retype the line.
control_l(e) == [e EXCEPT !.scr = retype_buffer(reset_cursor(clear(@)), e.line)]

\* The up-arrow path of KB_handler: one backspace() per character of the
\* line (b_len read before the loop), then typing = history and retype.
RECURSIVE backspaces(_, _)
backspaces(e, k) == IF k = 0 THEN e ELSE backspaces(backspace(e), k - 1)

history_recall(e) ==
    LET b == backspaces(e, Len(e.line))
    IN  [b EXCEPT !.line = e.hist, !.scr = retype_buffer(@, e.hist)]

-----------------------------------------------------------------------------
(* The echo checked against what it should show.                           *)

PROMPT == ">"

\* The screen after a program has printed up to offset y * NUM_COLS + x:
\* its text before the cursor, blanks from the cursor on.
StartScreen(x, y) ==
    [cell |-> [r \in Rows |-> [c \in Cols |->
                 IF r * NUM_COLS + c < y * NUM_COLS + x THEN PROMPT
                 ELSE BLANK]],
     x |-> x, y |-> y, top |-> 0]

\* The key a KB_handler call delivers to the shown terminal's echo: a
\* character, backspace, the up arrow or Ctrl+L.  start (auxiliary) is the
\* offset of the line's first character counted from the first row ever
\* shown; Ctrl+L moves it to the top left corner of the current screen.
Key(e, k) ==
    CASE k = "BS" -> backspace(e)
      [] k = "UP" -> history_recall(e)
      [] k = "CTRL_L" -> [control_l(e) EXCEPT !.start = e.scr.top * NUM_COLS]
      [] OTHER -> print_char(e, k)

EchoKeys == EchoChars \cup {"BS", "UP", "CTRL_L"}

RECURSIVE Session(_, _)
Session(e, keys) == IF keys = <<>> THEN e ELSE Session(Key(e, Head(keys)), Tail(keys))

\* What the frame should show: the earlier text up to the line's start
\* (less what scrolled off), the line, then blanks; the cursor right after
\* the line.
EchoShows(e) ==
    LET s == e.scr
        st == e.start - s.top * NUM_COLS
        end == st + Len(e.line)
    IN  /\ get_cursor_pos(s) = end
        /\ \A r \in Rows, c \in Cols :
              LET q == r * NUM_COLS + c
              IN  s.cell[r][c] = IF q < st THEN PROMPT
                                 ELSE IF q < end THEN e.line[q - st + 1]
                                 ELSE BLANK

\* Spec 4.C: characters typed on the shown terminal are echoed, backspace
\* erases one character both from the line and from the screen, the up
\* arrow replaces the line by the history and re-echoes it, Ctrl+L clears
\* the screen and re-echoes the line.  For every sequence of such keys
\* from every cursor position after a prompt, the frame shows exactly
\* the earlier text, the line and nothing after it, with the cursor after
\* the line: putc's deferred wrap at x = NUM_COLS, scroll_up and the
\* row-crossing step of screen_backspace keep screen and line together.
EchoShowsLine ==
    \A x \in 0 .. NUM_COLS, y \in Rows, h \in Histories :
        \A keys \in UNION {[1 .. n -> EchoKeys] : n \in 0 .. MaxKeys} :
            EchoShows(Session([scr |-> StartScreen(x, y), line |-> <<>>,
                               hist |-> h, start |-> y * NUM_COLS + x],
                              keys))

=============================================================================
