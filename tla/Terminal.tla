------------------------------ MODULE Terminal ------------------------------
(***************************************************************************)
(* The line discipline of the terminals (keyboard.c, terminal.c) with the  *)
(* keyboard IRQ mask of the master 8259 (i8259.c) that the scheduler       *)
(* (pit.c) flips on every tick.                                            *)
(*                                                                         *)
(* KB_handler runs on whatever the CPU was doing when IRQ1 fires and works *)
(* on terminals[curr_ter], the shown terminal.  terminal_read runs in the  *)
(* program scheduled on terminals[curr_process]: it clears its flag,       *)
(* enables interrupts and spins until the flag is raised, so ticks and key *)
(* presses interleave with it.  Screen output (putc, the cursor) is left   *)
(* out; the Kernel module models which frame it lands in.                  *)
(*                                                                         *)
(* The C arrays typing, typed and history hold a line followed by NULs;    *)
(* here each is the sequence of characters before the first NUL, and       *)
(* buf_len is Len(typing).                                                 *)
(***************************************************************************)
EXTENDS Integers, Sequences, FiniteSets, Bitwise

CONSTANTS
    NUM_TERMINALS,      \* keyboard.h: 3
    BUF_SIZE,           \* keyboard.h: 128
    Scancodes,          \* the scancodes the user may produce
    kbdus,              \* the three scancode tables of keyboard.c,
    shift_kbdus,        \*   restricted to the keys in Scancodes
    caps_kbdus,
    ReaderTerminals,    \* terminals whose program blocks in terminal_read
    ReadSizes,          \* nbytes passed to terminal_read
    MaxKeysPerQuantum   \* key presses in one 12.5 ms timer quantum

Terminals == 0 .. NUM_TERMINALS - 1

\* The values of a scancode table.
Range3(f) == {f[k] : k \in DOMAIN f}

\* keyboard.h scancodes and characters; pit.h and i8259.h IRQ constants.
L_SHIFT_DOWN == 42
L_SHIFT_UP == 170
R_SHIFT_DOWN == 54
R_SHIFT_UP == 182
L_CTRL_DOWN == 29
L_CTRL_UP == 157
L_ALT_DOWN == 56
L_ALT_UP == 184
CAPS_DOWN == 58
UP_ARROW_DOWN == 72
L_KEY_DOWN == 38
F_KEY_DOWN == [n \in 0 .. 2 |-> 59 + n]
KB_KEY_DOWN_MASK == 128
KB_KEY_DOWN_UNMASK == 127
CHAR_BACKSPACE == 8
CHAR_NEWLINE == 10
CHAR_NULL == 0
CHAR_NON_PRINTABLE == 0
KB_IRQ_NUM == 1
PT_IRQ_NUM == 0
PIC_MAX_IRQ == 8
MASTER_INIT_MASK == 251

Modifiers == {L_SHIFT_DOWN, R_SHIFT_DOWN, L_SHIFT_UP, R_SHIFT_UP, L_CTRL_DOWN,
              L_CTRL_UP, L_ALT_DOWN, L_ALT_UP, CAPS_DOWN}

VARIABLES
    curr_ter,          \* the shown terminal
    curr_process,      \* the terminal whose program is on the CPU
    master_mask,       \* i8259.c master_mask (bit 1: IRQ1, the keyboard)
    kb_events,         \* key presses handled in the current quantum
    shift_pressed, control_pressed, alt_pressed, caps_lock_on,
    typing,            \* terminals[t].typing (the line being typed)
    typed,             \* terminals[t].typed (the last line entered)
    history,           \* terminals[t].history
    buffer_updated,    \* terminals[t].buffer_updated
    written_bytes,     \* terminals[t].written_bytes
    rd,                \* where terminal t's program is in terminal_read:
                       \* "run" (not in it), "wait" (spinning), "copied"
                       \* (final_buf filled), "cleared" (clear_buffer done)
    rn                 \* nbytes of that read, after the clamp

vars == <<curr_ter, curr_process, master_mask, kb_events, shift_pressed,
          control_pressed, alt_pressed, caps_lock_on, typing, typed, history,
          buffer_updated, written_bytes, rd, rn>>

kbdVars == <<shift_pressed, control_pressed, alt_pressed, caps_lock_on>>
lineVars == <<typing, typed, history, buffer_updated, written_bytes>>
readVars == <<rd, rn>>

-----------------------------------------------------------------------------
(* i8259.c: enable_irq and disable_irq for an IRQ of the master PIC.       *)

enable_irq(mask, irq) == mask & (255 - 2^irq)
disable_irq(mask, irq) == mask | 2^irq

\* IRQ1 reaches the CPU only while its bit in master_mask is clear.
KbdUnmasked == (master_mask & 2^KB_IRQ_NUM) = 0

-----------------------------------------------------------------------------
(* keyboard.c helpers                                                      *)

get_character_code(scancode) ==
    LET k == scancode & KB_KEY_DOWN_UNMASK
    IN  IF shift_pressed THEN shift_kbdus[k]
        ELSE IF caps_lock_on THEN caps_kbdus[k]
        ELSE kbdus[k]

\* Mutant: the full-buffer check one too late (buf_len >= BUF_SIZE).
print_char_late(line, c) ==
    IF Len(line) >= BUF_SIZE THEN line ELSE Append(line, c)

\* print_char: append c unless the line already holds BUF_SIZE - 1
\* characters, keeping the last byte of typing a NUL.
print_char(line, c) ==
    IF Len(line) >= BUF_SIZE - 1 THEN line ELSE Append(line, c)

\* backspace: drop the last character, if any.
backspace(line) == IF line = <<>> THEN line ELSE SubSeq(line, 1, Len(line) - 1)

-----------------------------------------------------------------------------
(* The state after boot: all shells exist, the last one spawned runs, the  *)
(* first terminal is shown, so the last tick masked IRQ1 (pit.c:55-62).    *)
(* init_idt zeroes buf_len; the terminal array is in .bss.                 *)

Init ==
    /\ curr_ter = 0
    /\ curr_process = NUM_TERMINALS - 1
    /\ master_mask = disable_irq(enable_irq(MASTER_INIT_MASK, PT_IRQ_NUM),
                                 KB_IRQ_NUM)
    /\ kb_events = 0
    /\ shift_pressed = FALSE /\ control_pressed = FALSE
    /\ alt_pressed = FALSE /\ caps_lock_on = FALSE
    /\ typing = [t \in Terminals |-> <<>>]
    /\ typed = [t \in Terminals |-> <<>>]
    /\ history = [t \in Terminals |-> <<>>]
    /\ buffer_updated = [t \in Terminals |-> 0]
    /\ written_bytes = [t \in Terminals |-> 0]
    /\ rd = [t \in Terminals |-> "run"]
    /\ rn = [t \in Terminals |-> BUF_SIZE]

-----------------------------------------------------------------------------
(* pit.c switch_running_process, the part that concerns the keyboard:      *)
(* move to the next terminal, mask IRQ1 and unmask it iff that terminal is *)
(* shown.                                                                  *)
\* Mutant: the scheduler stays on the shown terminal instead of moving on.
Tick_stay ==
    LET next == IF curr_process = curr_ter THEN curr_process
                ELSE (curr_process + 1) % NUM_TERMINALS
        m1 == disable_irq(master_mask, KB_IRQ_NUM)
    IN  /\ curr_process' = next
        /\ master_mask' = IF next = curr_ter THEN enable_irq(m1, KB_IRQ_NUM)
                          ELSE m1
        /\ kb_events' = 0
        /\ UNCHANGED <<curr_ter, kbdVars, lineVars, readVars>>

Tick ==
    LET next == (curr_process + 1) % NUM_TERMINALS
        m1 == disable_irq(master_mask, KB_IRQ_NUM)
    IN  /\ curr_process' = next
        /\ master_mask' = IF next = curr_ter THEN enable_irq(m1, KB_IRQ_NUM)
                          ELSE m1
        /\ kb_events' = 0
        /\ UNCHANGED <<curr_ter, kbdVars, lineVars, readVars>>

-----------------------------------------------------------------------------
(* KB_handler, one action per path through it.  A scancode arrives only    *)
(* while IRQ1 is unmasked.                                                 *)

KeyArrives == KbdUnmasked /\ kb_events < MaxKeysPerQuantum

\* Shift, Ctrl, Alt and Caps Lock: set the flag and return.
Modifier(sc) ==
    /\ KeyArrives
    /\ sc \in Modifiers
    /\ shift_pressed' = CASE sc \in {L_SHIFT_DOWN, R_SHIFT_DOWN} -> TRUE
                          [] sc \in {L_SHIFT_UP, R_SHIFT_UP} -> FALSE
                          [] OTHER -> shift_pressed
    /\ control_pressed' = CASE sc = L_CTRL_DOWN -> TRUE
                            [] sc = L_CTRL_UP -> FALSE
                            [] OTHER -> control_pressed
    /\ alt_pressed' = CASE sc = L_ALT_DOWN -> TRUE
                        [] sc = L_ALT_UP -> FALSE
                        [] OTHER -> alt_pressed
    /\ caps_lock_on' = IF sc = CAPS_DOWN THEN ~caps_lock_on ELSE caps_lock_on
    /\ kb_events' = kb_events + 1
    /\ UNCHANGED <<curr_ter, curr_process, master_mask, lineVars, readVars>>

\* Any other key release: nothing but the EOI.
KeyRelease(sc) ==
    /\ KeyArrives
    /\ sc \notin Modifiers
    /\ (sc & KB_KEY_DOWN_MASK) # 0
    /\ kb_events' = kb_events + 1
    /\ UNCHANGED <<curr_ter, curr_process, master_mask, kbdVars, lineVars, readVars>>

\* Ctrl+L: control_l clears the screen and retypes the line; no line state
\* changes.
CtrlL(sc) ==
    /\ KeyArrives
    /\ sc = L_KEY_DOWN
    /\ control_pressed
    /\ kb_events' = kb_events + 1
    /\ UNCHANGED <<curr_ter, curr_process, master_mask, kbdVars, lineVars, readVars>>

\* Alt+F1..F3: switch_terminal_or_return(n) calls switch_ter unless n is
\* already shown.  switch_ter sets curr_ter; it does not touch the IRQ mask,
\* so the keyboard stays enabled until the next tick.
AltF(sc) ==
    /\ KeyArrives
    /\ ~(control_pressed /\ sc = L_KEY_DOWN)
    /\ alt_pressed
    /\ \E n \in Terminals :
          /\ sc = F_KEY_DOWN[n]
          /\ curr_ter' = IF curr_ter # n THEN n ELSE curr_ter
    /\ kb_events' = kb_events + 1
    /\ UNCHANGED <<curr_process, master_mask, kbdVars, lineVars, readVars>>

\* Up arrow: backspace over the line, copy history into typing, set
\* buf_len = strlen(history) and retype.  The handler then goes on to the
\* character path, where the up arrow is non-printable.
HistoryRecall(sc) ==
    /\ KeyArrives
    /\ sc = UP_ARROW_DOWN
    /\ typing' = [typing EXCEPT ![curr_ter] = history[curr_ter]]
    /\ kb_events' = kb_events + 1
    /\ UNCHANGED <<curr_ter, curr_process, master_mask, kbdVars, typed,
                   history, buffer_updated, written_bytes, readVars>>

\* enter_key: copy typing into typed and history, clear typing, record
\* buf_len + 1 bytes (the newline included) and raise buffer_updated.
enter_key(t) ==
    /\ typed' = [typed EXCEPT ![t] = typing[t]]
    /\ history' = [history EXCEPT ![t] = typing[t]]
    /\ typing' = [typing EXCEPT ![t] = <<>>]
    /\ written_bytes' = [written_bytes EXCEPT ![t] = Len(typing[t]) + 1]
    /\ buffer_updated' = [buffer_updated EXCEPT ![t] = 1]

\* A key press that reaches the character path (keyboard.c:167-174):
\* backspace, enter, a non-printable key, or a character for print_char.
KeyChar(sc) ==
    LET c == get_character_code(sc)
        t == curr_ter
    IN  /\ KeyArrives
        /\ sc \notin Modifiers \cup {UP_ARROW_DOWN}
        /\ (sc & KB_KEY_DOWN_MASK) = 0
        /\ ~(control_pressed /\ sc = L_KEY_DOWN)
        /\ ~(alt_pressed /\ sc \in {F_KEY_DOWN[n] : n \in Terminals})
        /\ CASE c = CHAR_BACKSPACE ->
                    /\ typing' = [typing EXCEPT ![t] = backspace(@)]
                    /\ UNCHANGED <<typed, history, buffer_updated,
                                   written_bytes>>
             [] c = CHAR_NEWLINE -> enter_key(t)
             [] c = CHAR_NON_PRINTABLE -> UNCHANGED lineVars
             [] OTHER ->
                    /\ typing' = [typing EXCEPT ![t] = print_char(@, c)]
                    /\ UNCHANGED <<typed, history, buffer_updated,
                                   written_bytes>>
        /\ kb_events' = kb_events + 1
        /\ UNCHANGED <<curr_ter, curr_process, master_mask, kbdVars, readVars>>

-----------------------------------------------------------------------------
(* terminal_read, in the program on curr_process.                          *)

\* Entry: nbytes is clamped to BUF_SIZE (a NULL buf returns -1 and changes
\* nothing), interrupts are enabled and buffer_updated of curr_process is
\* cleared before the wait.
ReadStart(nbytes) ==
    LET t == curr_process
    IN  /\ t \in ReaderTerminals
        /\ rd[t] = "run"
        /\ rd' = [rd EXCEPT ![t] = "wait"]
        /\ rn' = [rn EXCEPT ![t] = IF nbytes > BUF_SIZE THEN BUF_SIZE ELSE nbytes]
        /\ buffer_updated' = [buffer_updated EXCEPT ![t] = 0]
        /\ UNCHANGED <<curr_ter, curr_process, master_mask, kb_events, kbdVars,
                       typing, typed, history, written_bytes>>

\* clear_buffer (keyboard.c:286): empties terminals[curr_ter].typed, the
\* shown terminal's, whatever terminal the reader belongs to.
clear_buffer(t) == typed' = [typed EXCEPT ![curr_ter] = <<>>]

\* The rest of terminal_read runs with interrupts on (sti() at entry), so
\* a key or a tick may come between any two of its three steps.

\* The wait ends once the flag is raised: memcpy of nbytes of typed into
\* final_buf, the last byte forced to NUL and the first NUL turned into a
\* newline.  Only final_buf, a local, changes.
ReadCopy ==
    LET t == curr_process
    IN  /\ rd[t] = "wait"
        /\ buffer_updated[t] = 1
        /\ rd' = [rd EXCEPT ![t] = "copied"]
        /\ UNCHANGED <<curr_ter, curr_process, master_mask, kb_events, kbdVars,
                       lineVars, rn>>

\* clear_buffer(), then the copy to the user buffer.
ReadClear ==
    LET t == curr_process
    IN  /\ rd[t] = "copied"
        /\ rd' = [rd EXCEPT ![t] = "cleared"]
        /\ clear_buffer(t)
        /\ UNCHANGED <<curr_ter, curr_process, master_mask, kb_events, kbdVars,
                       typing, history, buffer_updated, written_bytes, rn>>

\* return terminals[curr_process].written_bytes, read now.
ReadReturn ==
    LET t == curr_process
    IN  /\ rd[t] = "cleared"
        /\ rd' = [rd EXCEPT ![t] = "run"]
        /\ UNCHANGED <<curr_ter, curr_process, master_mask, kb_events, kbdVars,
                       lineVars, rn>>

-----------------------------------------------------------------------------

Next ==
    \/ Tick
    \/ \E sc \in Scancodes :
          \/ Modifier(sc)
          \/ KeyRelease(sc)
          \/ CtrlL(sc)
          \/ AltF(sc)
          \/ HistoryRecall(sc)
          \/ KeyChar(sc)
    \/ \E n \in ReadSizes : ReadStart(n)
    \/ ReadCopy
    \/ ReadClear
    \/ ReadReturn

\* The PIT keeps ticking (weak fairness).  A reader whose flag is raised
\* leaves its loop the next time it is on the CPU: it spins for the whole
\* quantum and one check takes a few instructions; the copy, the clear and
\* the return are a few hundred instructions of kernel code, far less
\* than a quantum.  A step of terminal_read is enabled only while its
\* program is on the CPU, so one is taken whenever one is enabled
\* infinitely often (strong fairness of ReadStep, weaker than fairness of
\* each step).  The user gets no fairness.
ReadStep == ReadCopy \/ ReadClear \/ ReadReturn

Spec == Init /\ [][Next]_vars /\ WF_vars(Tick) /\ SF_vars(ReadStep)

-----------------------------------------------------------------------------
(* Properties *)

Chars == {c \in UNION {Range3(kbdus), Range3(shift_kbdus), Range3(caps_kbdus)} :
            c \notin {CHAR_NULL, CHAR_BACKSPACE, CHAR_NEWLINE}}

\* A line always leaves the last byte of its array a NUL: typing holds at
\* most BUF_SIZE - 1 characters, and so do typed and history, copied from
\* it.  strlen(history) in the up-arrow path relies on it.
TypeOK ==
    /\ curr_ter \in Terminals /\ curr_process \in Terminals
    /\ kb_events \in 0 .. MaxKeysPerQuantum
    /\ \A t \in Terminals :
          /\ \A b \in {typing[t], typed[t], history[t]} :
                 b \in Seq(Chars) /\ Len(b) <= BUF_SIZE - 1
          /\ buffer_updated[t] \in {0, 1}
          /\ written_bytes[t] \in 0 .. BUF_SIZE
          /\ rd[t] \in {"run", "wait", "copied", "cleared"}
          /\ rn[t] \in 1 .. BUF_SIZE

\* Spec 4.C: a line entered on terminal t is delivered to t's reader.  As
\* long as t's reader waits with its flag raised, typed[t] still holds the
\* line enter_key put there (it put the same line in history[t]).  Broken
\* if anything but t's own read empties typed[t] before the copy: the
\* clear_buffer of a read on another terminal works on curr_ter, the shown
\* terminal, not on the reader's.
EnteredLineKept ==
    \A t \in Terminals :
        rd[t] = "wait" /\ buffer_updated[t] = 1 => typed[t] = history[t]

\* A program waiting in terminal_read whose terminal has had a line entered
\* gets it: once buffer_updated of its terminal is raised, the read
\* returns, whichever terminal is shown by then.
ReadWakes ==
    \A t \in Terminals :
        rd[t] = "wait" /\ buffer_updated[t] = 1 ~> rd[t] = "run"

=============================================================================
