# TLA+ models of the BigBrainOS kernel

These modules model the kernel in `src/student-distrib`: three terminals,
a round-robin scheduler driven by the PIT, processes created and destroyed
by `execute`/`halt`, per-terminal video backing pages swapped on Alt+F1..F3,
a user video page installed by `vidmap`, the keyboard line discipline and
`terminal_read`, the virtualised RTC, and the read-only file system with
the file descriptor calls. They are checked with TLC.

## The system and how its parts interact

* **Scheduler** (`pit.c`). Every timer interrupt runs
  `switch_running_process`. It takes `next = (curr_process + 1) % 3` and
  masks IRQ1 unless `next` is the shown terminal. If `next` has no program
  yet, it spawns a shell there with `sys_execute("shell")`. Otherwise it
  saves the interrupted esp/ebp into the current program's PCB, remaps the
  user page, video page and TSS, and loads the esp/ebp saved in the next
  program's PCB.
* **Processes** (`system_calls.c`, `pcb.c`).
  * `sys_execute` takes the lowest free pid and builds its PCB. The parent
    is `get_curr_pcb()`, the PCB at the base of the kernel stack in use;
    pids below 3 are their own parent. It records the pid in
    `terminals[curr_process]`, points the TSS at the new kernel stack and
    irets.
  * `sys_halt` frees the pid and restores the parent's page and TSS.
    * A root shell (pid < 3) execs a new shell.
    * Any other process clears its PCB and jumps back into the parent's
      `sys_execute`, on the parent's saved stack.
  * Every CPU exception calls `blue_screen`, which is `sys_halt(4)`.
* **Line discipline** (`keyboard.c`, `terminal.c`).
  * `KB_handler` works on `terminals[curr_ter]`, the shown terminal.
    Characters go into `typing`. Enter copies `typing` into `typed` and
    `history`, records `written_bytes = buf_len + 1` and raises
    `buffer_updated`.
  * `terminal_read` runs in the program on `curr_process`. It clears that
    terminal's `buffer_updated`, enables interrupts and spins until the flag
    is raised. It then copies `typed`, turns the first NUL into a newline,
    calls `clear_buffer()` and returns `written_bytes`.
  * The scheduler masks IRQ1 on every tick and unmasks it only while the
    shown terminal is scheduled.
* **Virtual RTC** (`rtc.c`). The chip runs at `higher_freq`, the largest
  rate a program asked for. Each program has a divisor
  `higher_freq / prog_freq`. `rtc_read` loads it into `count` and waits
  for that many interrupts.
* **File system** (`file_system.c`, `system_calls.c`). Open looks a name up
  in the boot block and fills an FDT entry with one of five operation
  tables. Read, write and close dispatch through the entry. File reads
  advance `file_position` by the bytes returned, and directory reads
  return one name per call.
* **Video** (`paging.c`, `lib.c`, `keyboard.c`).
  * `video_mem` (the kernel's) and the user vidmap page point either at
    the physical text frame (`MAIN_VID`) or at a terminal's backing page.
  * The scheduler points both at the physical frame when the scheduled
    terminal is shown, and at its backing page otherwise.
  * Alt+Fn runs `switch_ter`: `swap_vid_mem` copies the frame `video_mem`
    maps into the old terminal's page and the new terminal's page into
    that frame, then `change_vidmem(old)`.
  * `putc` writes wherever `video_mem` points.

Each system call runs with interrupts off (the 0x80 gate is an interrupt
gate), and so does each interrupt handler. The models therefore take every
system call, tick and key press as one atomic step. The timer may come
between any two of them. `terminal_read` and `rtc_read` are the
exceptions: they call `sti()` and busy-wait. Each is split into a start
step and an end step, and other steps interleave between the two.

## Modules

| Module | Models | Source |
|---|---|---|
| `Kernel` | scheduler, execute/halt/exceptions, vidmap, video mappings, Alt+Fn switching, key echo, terminal_write | pit.c, system_calls.c, pcb.c, paging.c, keyboard.c, terminal.c, lib.c, idt.c |
| `MCKernel` | model values and status sets for TLC | — |
| `Rtc` | RTC interrupts, rtc_open/close/read/write, rtc_set_frequency, the RTC side of execute/halt | rtc.c, system_calls.c |
| `MCRtc` | the frequencies programs write | — |
| `FileSys` | sys_open/read/write/close, get_new_fd, the directory and file reads | system_calls.c, file_system.c, lib.c, pcb.c |
| `ProgramStacks` | what execute and halt promise (spec 2, 4.E, 7): one stack of programs per terminal, root shell t with pid t; the abstract specification `Kernel` implements | spec.md |
| `FdTable` | the descriptor table spec 4.B/4.E promises, without the FDT layout: the abstract specification `FileSys` implements | spec.md |
| `MCFileSys` | a small file system image | — |
| `ExecArgs` | the command parse of sys_execute, its ELF check and argument store, and sys_getargs, on top of `FileSys` | system_calls.c, lib.c |
| `MCExecArgs` | the commands and getargs sizes | — |
| `Console` | the text within one frame: clear, putc with its deferred wrap and scroll_up, screen_backspace, reset_cursor, and the echo keyboard.c builds on them (print_char, backspace, Ctrl+L, up-arrow recall), as pure operators | lib.c, keyboard.c |
| `Lib` | printf (with itoa, strrev, puts and the `%#x` padding) and memcpy, as pure operators with reference definitions | lib.c |
| `Terminal` | KB_handler, enter_key, backspace, print_char, clear_buffer, terminal_read, the IRQ1 mask | keyboard.c, terminal.c, i8259.c, pit.c |
| `MCTerminal` | scancode tables restricted to a few keys | keyboard.c |

### How `Kernel` corresponds to the code

| Variable | Code |
|---|---|
| `used_pids` | `used_pids[]` |
| `pcb[p]` | pid, par_pid, par_pcb_ptr, par_esp, esp of PCB p |
| `terminals[t]` | prog_curr_pid, prog_par_pid |
| `curr_process`, `curr_ter`, `on_screen` | the globals of the same names |
| `kbd_irq` | IRQ1 mask |
| `tss_pid` | the stack `tss.esp0` names |
| `page_pid` | the pid whose 4 MiB page is mapped at 128 MiB |
| `kvid`, `uvid`, `uvid_present` | frame behind `video_mem` and behind the user video page, and whether that page's PDE is present |
| `running` | the kernel stack the CPU executes on |
| `screen[f]` | the set of terminals whose output frame f holds |
| `home` | auxiliary: the terminal each pid was executed on, used to tag a write with the terminal it belongs to |
| `eax` | the value execute returned in this step |
| `kb_events` | keyboard events in the current timer quantum |
| `cursor`, `cursor_save[t]`, `vga_cursor` | `screen_x`/`screen_y`, `terminals[t].screen_x_save`/`_y_save`, and the position `update_cursor` last drew; each holds the terminal whose text position it is (`MAIN_VID` for the boot console) |

A kernel context (a saved esp/ebp pair) is represented by the pid whose
8 KiB kernel stack it points into, or by a model value:
* `BootStack`: the boot stack.
* `UserStack`: `USER_ESP`, stored into `pcb->esp` by execute.
* `Null`: a cleared PCB field.

`get_curr_pcb()->pid` on the boot stack reads memory that is not a PCB
and yields `GarbagePid`.

Actions:
* **`TickSpawn`, `TickSwitch`, `TickStuck`:** the three ways through
  `switch_running_process`.
  * `TickSpawn` includes the case where the spawn's execute fails.
  * `TickStuck` is the early return at `pit.c:95`.
* **`Execute`, `ExecuteFail`:** `sys_execute`.
* **`Halt(status)`, `HaltNoProcess`:** `sys_halt`, including the exception
  path through `blue_screen`, and the NULL-PCB return.
* **`Write`:** `terminal_write`.
* **`Vidmap`, `VidmapFail`, `UserVideoWrite`:** `sys_vidmap` with
  `get_vidmem`, its -1 return for a NULL or out-of-range pointer, and a
  store through the user video page.
* **`SwitchTerminal(n)`:** Alt+Fn.
* **`EchoKey`:** a typed key echoed by `putc`.

Every step that prints ends with `set_cursor` (`Putc`): it saves the
cursor into `terminals[curr_process]` and, if `on_screen`, draws it.
The paging calls are helpers of their own: `PagingInit` (`init_paging`:
no program page, both video pages at the physical frame, the user video
PDE absent), `enable_program_page(pid)`, `change_vidmem(vid)` and
`get_vidmem`.

`TickSpawn` also does `reset_cursor`, `TickSwitch` does `restore_cursor`
from the next terminal, and `SwitchTerminal` draws the new terminal's
saved cursor.

**Refinement.** `StacksOf` maps the kernel state to `ProgramStacks`'
`stacks`: terminal t's stack is `Chain(prog_curr_pid)`, the pids met
following `par_pid` down from the terminal's current program to the
self-parented root, listed root first (the way halt unwinds them).
`StacksRefined == Programs!PSpec`, with `Programs == INSTANCE
ProgramStacks WITH stacks <- StacksOf`, is checked as a property: every
kernel step leaves the stacks alone, starts root shell t with pid t on
an empty terminal t, pushes a program with a pid no live program has on
one terminal, or pops one terminal's top. Ticks, writes, vidmap and
Alt+Fn must be stutters; a root shell's halt and re-execute must be one
too, so it has to get its own pid back from `get_new_pid`.

Data that no property tells apart is left out: file names, command text,
character positions within a screen (`Console` models those). The ELF and file lookups of
execute appear only as "execute succeeds or fails".

### How `Rtc` corresponds to the code

* **Variables:**
  * `prog_freq`, `divisor`, `count` and `rtc_interrupt_flags` are the PCB
    fields per pid.
  * `higher_freq` is the global.
  * `rate` is the value last written to register A.
  * `rtc_fds[p]` is the number of RTC descriptors pid p holds.
  * `stack[t]` is the chain of programs on terminal t.
  * `reading[p]` says whether p is inside `rtc_read`.
* **Actions:**
  * `RT_handler`: `RT_handler`, which raises every flag.
  * `Execute`, `Halt`: the RTC side of `sys_execute` and `sys_halt`.
  * `RtcOpen`, `RtcClose`, `RtcWrite`: the system calls of the same names.
  * `RtcReadStart`, `RtcReadTick`: the copy of the divisor, then one
    iteration of the wait loop.
* **Operators:** `rtc_set_frequency` is the recursive `RateLoop`.

### How `FileSys` corresponds to the code

* **Variables:**
  * `fdt` is one program's FDT: entries with enabled, ops, inode and
    position.
  * `args_bit` is the enabled bit of `fdt[8]`, which lies on `pcb->args`.
  * `dispatched`, `lastRead`, `lastDir` and `lastOpen` record what the
    step just taken did, for the properties; a step that records none of
    the last three clears them.
* **Operators:**
  * `read_dentry_by_name` and `strncmp` are the lookup.
  * `read_data` is the recursive `ReadLoop` over data blocks.
* **Actions:** `Open`, `Read`, `Write` and `Close`. Each models the whole
  system call down to the driver it dispatches to. Data bytes are numbers
  `100*block + offset`, so every byte is distinct.
* **Refinement:** `AbsOpen` maps the FDT to `FdTable`'s `open`: each
  descriptor from 2 up is closed, or open with a kind (the ops of the
  entry), an inode and a position. `FdTableRefined == Abstract!ASpec`,
  with `Abstract == INSTANCE FdTable WITH open <- AbsOpen`, is checked as a
  property: every step of `FileSys` is a step of `FdTable` or leaves the
  open descriptors as they are.

### How `ExecArgs` corresponds to the code

* **Variables:** `arg_len` and `args` are the new PCB's fields;
  `spec_args` (what spec 4.E makes of the command) and `lastGetargs` (the
  last getargs: `n`, its return value and the bytes it wrote as
  `<<index, byte>>` pairs) are auxiliary.
* **Operators:** the name loop of `sys_execute` is the recursive
  `NameStop`, the argument loop `ArgStop`; `ExecutableName` is the name as
  the C string `read_dentry_by_name` sees. `SpecArgs` and `SpecGetargs`
  are the reference definitions from spec 4.E.
* **Actions:** `SysExecute` is the whole parse, the lookup, the ELF check
  and the new PCB's FDT (FileSys's `Execute`) and arguments; `SysGetargs`
  is `sys_getargs`. A command is a sequence followed by NULs, as the user
  memory at the pointer.

### How `Console` corresponds to the code

`Console` has no variables: it is a set of operators over a screen record
`[cell, x, y, top]` and an echo record `[scr, line, hist, start]`.
* `cell[r][c]` is the character byte of `video_mem` at row r, column c;
  `x`, `y` are `screen_x`, `screen_y`. After a character in the last
  column `x = NUM_COLS`: `putc` wraps before the next character.
* `top` (auxiliary) counts the rows `scroll_up` has pushed off, and
  `start` (auxiliary) is the offset of the line's first character counted
  from the first row ever shown, so that the expected screen can be
  computed after scrolls.
* `line` and `hist` are `typing[0 .. buf_len - 1]` and `history` of the
  shown terminal.

`clear`, `reset_cursor`, `scroll_up`, `putc` (with `NewLine`, its newline
and wrap step) and `screen_backspace` translate `lib.c`; `retype_buffer`,
`print_char`, `backspace`, `control_l` and `history_recall` (with
`backspaces`, the loop over `b_len`) translate `keyboard.c`. `Key` is the
dispatch of `KB_handler` for a character, backspace, the up arrow and
Ctrl+L. Which frame `video_mem` maps and whose cursor is loaded is
`Kernel`'s part.

The check is `EchoShowsLine`, a constant-level invariant: for every
cursor position after a prompt, every history and every key sequence of
up to `MaxKeys` keys, `Session` applies the keys and `EchoShows` compares
the frame and cursor with what they should be. `MCKernel` instantiates
`Console` and checks it in `kernel_safety`: `EchoChecked` is the
constant TLC evaluates once when it loads the model, and the invariant
`EchoShowsLine` states it of the shown terminal in every state.

### How `Lib` corresponds to the code

`Lib` has no variables. A character is a one-character string and a C
string a sequence of them, read as if followed by NUL (`CharAt`). A word
is a number in `0 .. 2^WIDTH - 1`; `Signed` reads it as `int32_t` does.
* `printf_loop` walks the format as `printf` does: `format_char_switch`
  skips `#`s and sets `alternate`; `conversion` is the `switch`, giving
  what it prints and whether it consumes an argument (`esp++`); an
  unknown conversion prints nothing.
* `itoa` and `itoa_digits` translate `itoa` (lowest digit first, then
  `strrev`), `strrev_loop` the swap loop, and `puts` the characters
  before the first NUL.
* `hex_alternate` is `%#x`: `conv_buf` is indexed from 0 as in C, the
  digits are put at `conv_buf[8]`, `zero_fill` writes `'0'` from
  `starting_index` while the index is below 8, and `puts` prints from
  `starting_index`.
* `memcpy` is the assembly: `memcpy_top` copies single bytes until `edi`
  is 4-aligned, `memcpy_aligned` copies `ecx >> 2` dwords and then the
  `ecx & 3` bytes left; `movs` moves bytes lowest address first, which
  is what `movsb` and `movsl` do for areas that do not overlap.

The references are `TokenOut` (what the header comment of `printf` says
each conversion prints, from `RefDigits`, a most-significant-first digit
expansion) and, for `memcpy`, the function equal to the source on the
destination range and unchanged elsewhere. Both checks are
constant-level, hosted as `EchoShowsLine` is: `MCKernel` evaluates
`PrintfChecked` once and states it as `PrintfFormats` in every state;
`MCFileSys` does the same with `MemcpyChecked` and `MemcpyCopies`.

### How `Terminal` corresponds to the code

* **Variables:**
  * `typing`, `typed` and `history` hold each terminal's arrays, as the
    sequence of characters before the first NUL.
  * `buffer_updated` and `written_bytes` are the struct fields.
  * `master_mask` is the master 8259 mask.
  * `curr_ter` and `curr_process` are the globals of the same names.
  * The `shift_pressed`, `control_pressed`, `alt_pressed` and
    `caps_lock_on` variables are the flags of the same names.
  * `rd[t]` says where the program on t is in `terminal_read`: not in it,
    in the wait loop, past the copy, or past `clear_buffer`. `rn[t]` is its
    clamped nbytes.
* **Actions:**
  * `Tick` is the IRQ1 masking of `switch_running_process`.
  * Each path through `KB_handler` is an action: `Modifier`, `KeyRelease`,
    `CtrlL`, `AltF`, `HistoryRecall` and `KeyChar`. `KeyChar` covers
    backspace, `enter_key`, non-printable keys and `print_char`.
  * `ReadStart` is the entry of `terminal_read` up to the wait.
    `terminal_read` runs with interrupts on (`sti()` at `terminal.c:42`),
    so the rest of it is three actions, with keys and ticks possible in
    between: `ReadCopy` (the end of the wait and the copy into
    `final_buf`), `ReadClear` (`clear_buffer`) and `ReadReturn` (reading
    `written_bytes`).

## Runs

| Run | Config | Expect | What it shows |
|---|---|---|---|
| kernel_safety | `MCKernel.cfg` | pass | With five pids, any interleaving keeps the Kernel properties below, every terminal is served, the echo of every short key sequence shows the typed line, printf prints what its comment promises, and the kernel implements `ProgramStacks`. |
| boot_stall | `MCKernel_stall.cfg` | pass | After the boot race with exhausted pids, the scheduler stalls, and the stall never ends. |
| boot_race | `MCKernel_bootrace.cfg` | violation | An execute before the other shells exist makes the scheduler resume the wrong kernel context. |
| exec_return | `MCKernel_execret.cfg` | violation | `halt(1)` makes execute return 0. |
| screen_leak | `MCKernel_screen.cfg` | violation | Two Alt+F presses in one quantum, or vidmap in a background program, put another terminal's output on a screen. |
| rtc_safety | `MCRtc.cfg` | pass | Divisors and the chip rate stay consistent, and every rtc_read returns. |
| rtc_stale_count | `MCRtc_stale.cfg` | violation | A read started under a higher rate waits far longer than its period after that rate drops. |
| fs_safety | `MCFileSys.cfg` | pass | Reads return the file's bytes in order, directory reads list the entries in order, open finds the named entry, memcpy copies exactly for every alignment, and the FDT implements `FdTable`. |
| fd_past_table | `MCFileSys_args.cfg` | violation | fd 8 passes the checks of read/write/close and dispatches through argument bytes. |
| getargs_spec | `MCExecArgs.cfg` | violation | getargs with nbytes equal to the argument length writes one byte past the buffer. |
| terminal_safety | `MCTerminal.cfg` | pass | Lines stay within the buffer, and a reader whose line was entered returns. |
| terminal_clear | `MCTerminal_clear.cfg` | violation | A read on one terminal erases the line entered on the shown terminal before its reader copies it (`EnteredLineKept`). |

Properties of the passing runs:
* **Kernel:**
  * **`SchedulerConsistent`:** the stack the CPU runs on, the TSS stack and
    the mapped user page all belong to the program the scheduler believes
    runs.
  * **`SavedContextsValid`:** every terminal that is not running will be
    resumed on its own program's kernel stack.
  * **`ProcessTree`:**
    * From each terminal's program, `par_pid` leads to a self-parented root
      below 3.
    * Each blocked parent is the one the child's saved `par_esp` resumes.
    * The chains are disjoint and cover exactly the used pids.
  * **`ScreenIsolation`:** every frame except the stale backing page of the
    shown terminal holds only its owner's output. The physical frame holds
    only the shown terminal's output.
  * **`CursorFollowsTerminal`:** every terminal's saved cursor is its own,
    and while a program runs the global cursor is its terminal's.
  * **`EchoShowsLine`** (`Console`): after any sequence of typed
    characters, backspaces, up arrows and Ctrl+L from any cursor position
    after a prompt, the frame shows the earlier text (less what scrolled
    off), the line, and blanks after it, with the cursor right after the
    line. It covers putc's deferred wrap, the scroll on the last row and
    the row crossing of `screen_backspace`.
  * **`PrintfFormats`** (`Lib`): every format of up to two conversions
    or characters, over every argument of the bounds, prints what the
    header comment of `printf` promises: the digits of `%x`, `%u` and
    `%d` (its sign, `INT_MIN` included), the 8 zero-padded digits of
    `%#x`, and one argument consumed per conversion, none for `%%`.
  * **`EveryTerminalServed`:** every terminal is scheduled with a program
    infinitely often.
  * **`StallExhausted`, `StallIsPermanent`:** a stalled scheduler (a program
    on the CPU, none recorded for `curr_process`) occurs only with every pid
    in use, and is never left.
  * **`StacksRefined`** (`ProgramStacks`): the kernel implements the
    per-terminal program stacks of spec 2, 4.E and 7. The root shell of
    terminal t has pid t, the assumption `pit.c:84` saves contexts by.
    Execute pushes a program with a free pid onto the stack of the
    terminal it ran on. Halt pops exactly that terminal's top, and a
    root shell's restart keeps its pid. Nothing else changes a stack.
* **Rtc:**
  * **`DivisorConsistent`:** every live divisor equals
    `higher_freq / prog_freq`.
  * **`RateMatchesHigher`:** the chip's period is `higher_freq`, and
    `rtc_set_frequency` is right for every frequency `rtc_write` accepts.
  * **`ReadReturns`:** every `rtc_read` returns.
* **FileSys:**
  * **`ReadMatchesFile`:** a file read returns exactly the file's bytes from
    the position.
  * **`DirReadsInOrder`:** directory reads return the entries in order, and
    then 0.
  * **`OpenFindsEntry`:** open gives the operations of the entry the name
    names.
  * **`FdTableRefined`:** `FileSys` implements `FdTable`: open takes the
    lowest free descriptor from 2, reads move a file's position by the
    bytes read and never past the end, a directory's by one entry, and no
    other call changes an open descriptor.
  * **`MemcpyCopies`** (`Lib`): `memcpy`, with which `read_dentry`
    copies directory entries and `getargs` and `terminal_read` copy to
    user buffers, copies exactly n bytes for every alignment of source
    and destination and every n up to 9, and writes nothing else.
* **Terminal:**
  * **`EnteredLineKept`** (checked by the violation run `terminal_clear`):
    while t's reader waits with its flag raised, `typed[t]` still holds
    the line `enter_key` entered.
  * **`ReadWakes`:** a waiting reader whose line was entered returns.

Each property of a passing run has a mutant, a plausible bug in the
operator it replaces, under which TLC finds the property violated. Examples:
* a missing TSS update in execute;
* a missing esp save in the scheduler;
* the two copies of `swap_vid_mem` in the opposite order;
* an off-by-one in the `rtc_set_frequency` loop;
* `read_data` ignoring the offset;
* `print_char` accepting one more character;
* `get_new_fd` searching from 3;
* the scheduler restoring the cursor of the terminal it leaves;
* `init_pit` starting the scheduler on terminal 0, so the shells get
  pids one off their terminals;
* the `%#x` zero fill running one index too far, over the first digit;
* `memcpy` without its bottom loop, dropping the `n & 3` tail bytes.

## Findings

* **`fd_past_table`** (`system_calls.c:287`): read, write and close accept
  fd 8. `fdt[8]` overlays `pcb->args`, so a program with 13 or more
  argument bytes makes the kernel call through a pointer built from
  argument bytes.
* **`rtc_stale_count`** (`rtc.c:127`): `rtc_read` loads `count` once. If
  `higher_freq` falls during the wait, the reader waits up to 512 times its
  period.
* **`terminal_clear`** (`keyboard.c:288`): `clear_buffer` clears the shown
  terminal's `typed`, not the reader's. A background read ending while the
  shown terminal's line waits to be read erases that line before its reader copies
  it. The reader then returns a count for bytes it never received. The window is narrow in real
  time.
* **`getargs_spec`** (`system_calls.c:396`): `sys_getargs` accepts
  `nbytes == arg_len` and then writes the NUL at `buf[arg_len]`, outside
  the buffer. The same invariant, with the commands restricted to one,
  shows two more disagreements with spec 4.E:
  * a 32-byte name followed by a space loses its arguments
    (`system_calls.c:81`);
  * only the first word after the name is kept, and a double space gives
    empty arguments (`system_calls.c:99`).
* **`screen_leak`:** TLC's shortest trace is two keyboard events in one
  quantum (`keyboard.c:319`). `MCKernel_vidmapbg.cfg`, with one key per
  quantum, reproduces the vidmap path alone (`paging.c:92`).
* **`boot_race`**, **`boot_stall`**, **`exec_return`:** see the table
  above and `PROJECT.json`.
* **Cursor after Alt+F** (`keyboard.c:322`): `switch_ter` leaves
  `on_screen` set for the terminal just hidden. Its program's next `putc`
  draws the VGA cursor at that terminal's position over the new screen,
  and it stays there until the shown terminal prints. Spec section 3 says
  `on_screen` holds iff the scheduled slot is the shown terminal.
  `VgaCursorShown` fails in three steps under `MCKernel_cursor.cfg`.
  This cfg is a reproduction kept beside the runs and is not one of them,
  since the effect is only where the cursor is drawn.

## Bounds and environment

* **Kernel:**
  * **`MAX_PROCESSES = 5`** in `kernel_safety` (the code has 6; with 6
    the run does not finish in five minutes).
    * It allows two levels of nesting on one terminal, children on two
      terminals at once, and exhaustion.
    * The stall run uses 3 pids, the fewest with which one early execute
      exhausts them.
  * **Halt statuses:**
    * `{0, 4}`: normal exit and exception, which is all execute
      distinguishes.
    * `{0, 1, 4}` in `exec_return`.
  * **`MaxKeysPerQuantum`:** keyboard events the user makes in one 12.5 ms
    quantum. It is 1 in the passing runs and 2 in `screen_leak`.
  * **`InputBeforeBoot`:** whether a shell may act before all three shells
    exist. It is FALSE except in the boot runs.
  * **`VidmapInBackground`:** whether a program may call vidmap while its
    terminal is hidden. It is FALSE except in `screen_leak` and
    `MCKernel_vidmapbg.cfg`.
* **Console** (in `kernel_safety`):
  * A 2x2 screen, `BUF_SIZE = 4` (lines of 3 characters, longer than a
    row), two letters, histories empty or 3 characters long, and every
    key sequence of up to 5 keys from each of the 15 cursor positions.
    Five keys fill a line across a row boundary, scroll it on the last
    row and erase back across the boundary.
  * `ASSUME (BUF_SIZE - 2) \div NUM_COLS + 1 <= NUM_ROWS` keeps a full
    line within the screen, as in the code (127 characters span 2 of 25
    rows); a longer line would push its own start off the top.
* **Lib** (in `kernel_safety` and `fs_safety`):
  * `WIDTH = 30` rather than 32: TLC's integers are 31-bit signed, and
    30 bits still give 8 hexadecimal digits, so `%#x` is checked both
    with padding and with none. The words are 0, 1, 10, 14, 2^28 (the
    first 8-digit value), 2^29 - 1, 2^29 (the most negative `int32_t` of
    this width, whose negation overflows) and 2^30 - 1 (-1).
  * Formats of up to 2 tokens over `%%`, `%x`, `%#x`, `%u`, `%d`, `%c`,
    `%s` and a plain character, with strings empty and of two
    characters: every pair of conversions, so an argument consumed
    wrongly shifts the next one.
  * memcpy: destinations and sources at each of the 4 alignments and
    lengths 0 to 9, in 25 bytes, so the head, dword and tail parts each
    run 0 to 3 times and together.
* **Rtc:**
  * Two terminals and three pids: two shells and one child, so programs
    on both terminals and a nested one hold RTC descriptors together.
  * Writes of 2, 8 and 2048 Hz: a rate can rise and fall, and 2048 is rejected.
  * One RTC fd per program.
* **FileSys:**
  * A two-byte block and a four-entry directory (".", rtc and two files) with files that span block
    boundaries.
  * An FDT of 4, so the table can fill and fd `FDT_SIZE` is in reach.
  * Read sizes 1, 2 and 3: a read can end inside a block, on its
    boundary, or cross two boundaries.
* **ExecArgs:**
  * `MAX_CMD_LEN = FILE_NAME_SIZE = 3`, as both are 32 in the code, so
    "cat" plays a name of the full length.
  * `MAX_ARG_LEN = 7` and commands of at most 6 characters and a
    newline, as a terminal line (at most 127 bytes) stays below 128.
  * Every command of up to 6 characters over `l`, `s`, `a` and space, with
    and without a newline, and getargs sizes 0 to 3.
* **Terminal:**
  * Two terminals and `BUF_SIZE = 2`: one character and the NUL, enough to
    fill the buffer.
  * Keys: a letter, backspace, enter, the up arrow, F1, F2, Ctrl, Alt and
    Caps Lock. Shift is left out for size; it only picks another table,
    which Caps Lock exercises. `terminal_safety` also leaves Caps Lock out:
    with one printable character there are ten times fewer states, and
    neither of its properties depends on which character is typed.
  * Read sizes `BUF_SIZE` and `BUF_SIZE + 1`, the latter clamped.

## Fairness

* **Kernel:** `Spec` assumes weak fairness of `Tick`. The PIT fires at
  80 Hz, and `switch_running_process` is always enabled. User programs and
  the user at the keyboard get no fairness.
* **Rtc:** weak fairness of `RT_handler` (the RTC interrupt keeps coming)
  and of each terminal's wait-loop step. Kernel's `EveryTerminalServed`
  shows the scheduler runs every terminal.
* **Terminal:** weak fairness of `Tick`, and strong fairness of `ReadStep`,
  the disjunction of `ReadCopy`, `ReadClear` and `ReadReturn`. A reader's
  step is enabled only while it is scheduled. It spins for its whole
  quantum, and one check of the flag takes a few instructions. The copy,
  the clear and the return take a few hundred. So the reader moves on
  whenever it is scheduled able to. Fairness of the disjunction is weaker
  than fairness of each step; with one reader it is all `ReadWakes` needs.

This assumes the timer can interrupt user code. `sys_execute` pushes the
EFLAGS of the system call, which has IF clear, into the new program
(`system_calls.c:214`). Whether the entry stubs re-enable interrupts
cannot be checked here: they are not in the repository. The hazard is
listed in PROJECT.json.

## Not modelled

* **Screen output:** program output between the
  echoed characters of a line (the spec does not say what should show).
  `update_cursor`'s port writes.
* **Hardware programming:** the PIC's ICW writes, the PIT and RTC ports,
  IDT and GDT setup, and the fixed PDE/PTE entries `init_paging` writes
  (its effect on the mappings is `PagingInit`).
* **Loading the file system image:** `file_system_init` only records where
  the image is.
* **lib.c code no kernel path calls:** `memset`, `memset_word`,
  `memset_dword`, `memmove`, `strcpy`, `left_pad`, `print_all_ascii`,
  `test_interrupts` and `rtc_interrupt`. (`memmove`'s backward path
  leaves the direction flag set, which would break any later string
  instruction; nothing calls it.)
* **The interrupt loop of `init_idt`:** it runs 16 times over arrays of
  4, installing whatever lies past them. This is undefined behaviour
  that depends on the stack layout, and the gate layout (`x86_desc.h`)
  is not in the repository; it is listed as a hazard.
* **tests.c.**
