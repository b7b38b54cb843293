----------------------------- MODULE MCTerminal -----------------------------
(* Instantiation of Terminal for TLC: a few keys of the real keyboard.     *)
EXTENDS Terminal, TLC

\* Backspace, Enter, the L key, F1, F2 and the up arrow (scancodes 14, 28,
\* 38, 59, 60, 72) as they appear in kbdus, shift_kbdus and caps_kbdus.
MCkbdus == (14 :> 8) @@ (28 :> 10) @@ (38 :> 108) @@ (59 :> 0) @@ (60 :> 0)
           @@ (72 :> 0)
MCshift_kbdus == (14 :> 8) @@ (28 :> 10) @@ (38 :> 76) @@ (59 :> 0)
                 @@ (60 :> 0) @@ (72 :> 0)
MCcaps_kbdus == (14 :> 8) @@ (28 :> 10) @@ (38 :> 76) @@ (59 :> 0)
                @@ (60 :> 0) @@ (72 :> 0)

\* Those keys pressed, the L key released (166), Ctrl, Alt and Caps Lock.
\* Shift selects a table the same way Caps Lock does for these keys.
MCScancodes == {14, 28, 38, 166, 59, 60, 72,
                L_CTRL_DOWN, L_CTRL_UP, L_ALT_DOWN, L_ALT_UP, CAPS_DOWN}

\* The same keys without Caps Lock: one printable character (l), which is
\* all that the wake-up of a reader depends on.
MCScancodesNoCaps == MCScancodes \ {CAPS_DOWN}

\* A buffer exactly BUF_SIZE long and a larger one, which is clamped.
MCReadSizes == {BUF_SIZE, BUF_SIZE + 1}
=============================================================================
