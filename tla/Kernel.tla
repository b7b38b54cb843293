------------------------------- MODULE Kernel -------------------------------
(***************************************************************************)
(* Process lifecycle and preemptive scheduling of the BigBrainOS kernel.   *)
(*                                                                         *)
(* One CPU runs one kernel context at a time.  A system call runs to       *)
(* completion (the 0x80 gate is an interrupt gate), so each operation      *)
(* below is one atomic step; the timer interrupt (pit.c) may come between  *)
(* any two of them.  State kept by the code and modelled here:            *)
(*   used_pids        system_calls.h  used_pids[MAX_PROCESSES]             *)
(*   pcb              pcb.h           pid, par_pid, par_pcb_ptr, par_esp,  *)
(*                                    esp (kernel contexts as stack owners)*)
(*   terminals        keyboard.h      prog_curr_pid, prog_par_pid          *)
(*   curr_process     keyboard.h      terminal the scheduler is running    *)
(*   curr_ter         keyboard.h      terminal shown on screen             *)
(*   on_screen, kbd_irq               pit.c flag and IRQ1 mask             *)
(*   tss_pid          x86_desc        kernel stack named by tss.esp0       *)
(*   page_pid         paging.c        4 MiB user page at 128 MiB           *)
(*   kvid, uvid       paging.c        frame behind video_mem / the user    *)
(*                                    video page: MAIN_VID or a backing    *)
(*   uvid_present     paging.c        user video PDE installed by vidmap   *)
(*   running          the kernel stack the CPU is executing on             *)
(*   screen           which terminals' output each video frame holds       *)
(*   eax              value a step's execute or halt returned to user code  *)
(*   kb_events        keyboard events taken in this timer quantum          *)
(*   home             (auxiliary) terminal each live pid was executed on,  *)
(*                    to tell whose output a write is                      *)
(*   cursor           lib.c screen_x/screen_y, cursor_save the             *)
(*                    terminals[t].screen_x_save/_y_save, vga_cursor the   *)
(*                    position update_cursor last drew: each is the        *)
(*                    terminal whose text position it holds (MAIN_VID: the *)
(*                    boot console's)                                      *)
(* A kernel context (saved esp/ebp) is represented by the pid whose 8 KiB  *)
(* kernel stack it points into, or BootStack, UserStack or Null.           *)
(***************************************************************************)
EXTENDS Integers, FiniteSets, Sequences

CONSTANTS
    MAX_PROCESSES,      \* system_calls.h: 6
    Statuses,           \* halt status bytes a program may pass
    BootStack,          \* the boot kernel stack (model value)
    UserStack,          \* USER_ESP stored into pcb->esp by execute (model value)
    Null,               \* zeroed pointer / saved register (model value)
    GarbagePid,         \* pid read through an uninitialised PCB (model value)
    NoRet,              \* no system call has returned yet (model value)
    MaxKeysPerQuantum,  \* keyboard events the user makes per timer quantum
    InputBeforeBoot,    \* may a shell act before all three shells exist?
    VidmapInBackground  \* may a process of a hidden terminal call vidmap?

ASSUME MAX_PROCESSES \in 3..8 /\ MaxKeysPerQuantum \in Nat
ASSUME InputBeforeBoot \in BOOLEAN /\ VidmapInBackground \in BOOLEAN

NUM_TERMINALS == 3                 \* keyboard.h
MAIN_VID == -1                     \* pit.h: the physical text frame
HALT_STATUS_EXC == 4               \* system_calls.h
HALT_EXC == 256
ERROR == -1

Terminals == 0 .. NUM_TERMINALS - 1
Pids == 0 .. MAX_PROCESSES - 1
Frames == {MAIN_VID} \cup Terminals
Stacks == Pids \cup {BootStack}
Contexts == Stacks \cup {UserStack, Null}

VARIABLES used_pids, pcb, terminals, curr_process, curr_ter, on_screen,
          kbd_irq, tss_pid, page_pid, kvid, uvid, uvid_present, running,
          screen, eax, kb_events, home, cursor, cursor_save, vga_cursor

cursorVars == <<cursor, cursor_save, vga_cursor>>

vars == <<used_pids, pcb, terminals, curr_process, curr_ter, on_screen,
          kbd_irq, tss_pid, page_pid, kvid, uvid, uvid_present, running,
          screen, eax, kb_events, home, cursorVars>>

\* *pcb = (const pcb_t){0}: the contents of a cleared PCB.
ZeroPcb == [pid |-> 0, par_pid |-> 0, par_pcb |-> Null, par_esp |-> Null,
            esp |-> Null]

-----------------------------------------------------------------------------
(* Helpers *)

\* Mutants of get_new_pid: returning the loop index instead of ERROR when
\* every pid is used, and a loop bound one short.
get_new_pid_noerror(up) ==
    IF \E p \in Pids : ~up[p]
    THEN CHOOSE p \in Pids : ~up[p] /\ \A q \in 0 .. p - 1 : up[q]
    ELSE MAX_PROCESSES

get_new_pid_short(up) ==
    LET scanned == 0 .. MAX_PROCESSES - 2
    IN  IF \E p \in scanned : ~up[p]
        THEN CHOOSE p \in scanned : ~up[p] /\ \A q \in 0 .. p - 1 : up[q]
        ELSE ERROR

\* get_new_pid(): the lowest free pid, or ERROR.
get_new_pid(up) ==
    IF \E p \in Pids : ~up[p]
    THEN CHOOSE p \in Pids : ~up[p] /\ \A q \in 0 .. p - 1 : up[q]
    ELSE ERROR

\* get_curr_pcb()->pid: the pid field of the PCB at the base of stack s.
\* The boot stack has no PCB under it; the read returns garbage.
StackPid(pc, s) == IF s \in Pids THEN pc[s].pid ELSE GarbagePid

\* putc() by terminal t while video_mem maps frame f.
WriteTo(scr, f, t) == [scr EXCEPT ![f] = @ \cup {t}]

\* set_cursor() at the end of every putc by terminal p's scheduler slot:
\* screen_x/screen_y into terminals[p], and onto the VGA cursor if on.
set_cursor(p, on, c) ==
    /\ cursor_save' = [cursor_save EXCEPT ![p] = c]
    /\ vga_cursor' = IF on THEN c ELSE vga_cursor

\* A step that prints through putc from the running program's slot.
Putc == set_cursor(curr_process, on_screen, cursor) /\ UNCHANGED cursor

\* The user program currently on the CPU, as the kernel names it.
CurrPid == terminals[curr_process].prog_curr_pid

\* A user program is on the CPU (not the boot stack).  It keeps running
\* when the scheduler names no program for curr_process (pit.c:95).
UserRunning == running \in Pids

\* The terminal whose output the program on the CPU prints.
Writer == home[running]

\* Keyboard events reach KB_handler only while IRQ1 is unmasked.
KeyArrives == kbd_irq /\ kb_events < MaxKeysPerQuantum

\* sys_execute(command) from stack `stack` on terminal t, for an executable
\* that exists, once the name and ELF checks passed: allocate the pid, map
\* its page, build the PCB, initialise the FDT, set the TSS, mark the pid
\* used, record it in the terminal, print and iret into it.  `up` and `pc`
\* are used_pids and the PCBs as they are when sys_execute is entered.
ExecOk(up, pc) == get_new_pid(up) # ERROR

\* Mutant: the root-shell override of par_pid (new_pid < 3) left out.
ExecParent_noroot(new, pc, stack) == StackPid(pc, stack)

\* new_pcb->par_pid: get_curr_pcb()->pid, or the new pid itself for the
\* three root shells.
ExecParent(new, pc, stack) == IF new < 3 THEN new ELSE StackPid(pc, stack)

ExecState(up, pc, t, stack) ==
    LET new == get_new_pid(up)
        par == ExecParent(new, pc, stack)
    IN  [pid |-> new,
         used_pids |-> [up EXCEPT ![new] = TRUE],
         pcb |-> [pc EXCEPT ![new] = [pid |-> new, par_pid |-> par,
                                       par_pcb |-> stack, par_esp |-> stack,
                                       esp |-> UserStack]],
         term |-> [prog_curr_pid |-> new, prog_par_pid |-> par],
         home |-> [home EXCEPT ![new] = t]]

\* enable_program_page(pid): the 4 MiB PDE at 128 MiB maps pid's frame.
enable_program_page(pid) == page_pid' = pid

\* change_vidmem(vid): video_mem's PTE and vidmem_page_table[0] both point
\* at frame vid (the physical frame for MAIN_VID).
change_vidmem(vid) == kvid' = vid /\ uvid' = vid

\* init_paging: the first 4 MiB identity-mapped (video_mem is the physical
\* frame), no PDE at 128 MiB and none for the user video page.
PagingInit ==
    /\ page_pid = -1
    /\ kvid = MAIN_VID
    /\ uvid = MAIN_VID
    /\ uvid_present = FALSE

\* Mutant: execute leaves tss.esp0 as it was.
ApplyExec_notss(r, t) ==
    /\ used_pids' = r.used_pids
    /\ pcb' = r.pcb
    /\ terminals' = [terminals EXCEPT ![t] = r.term]
    /\ tss_pid' = tss_pid
    /\ enable_program_page(r.pid)
    /\ running' = r.pid
    /\ home' = r.home

\* Apply a successful ExecState on terminal t (the iret into the program).
ApplyExec(r, t) ==
    /\ used_pids' = r.used_pids
    /\ pcb' = r.pcb
    /\ terminals' = [terminals EXCEPT ![t] = r.term]
    /\ tss_pid' = r.pid
    /\ enable_program_page(r.pid)
    /\ running' = r.pid
    /\ home' = r.home

-----------------------------------------------------------------------------
(* Initial state: init_idt, init_pid, init_pit, init_paging; the kernel    *)
(* then idles on the boot stack until the first timer tick.              *)

\* Mutant: the scheduler starts on terminal 0, so the first tick spawns
\* the shell of terminal 1.
init_pit_from0 == curr_process = 0 /\ on_screen = FALSE

\* init_pit(): the scheduler starts on terminal 2, so that the first tick
\* moves to terminal 0; nothing is on screen yet.
init_pit == curr_process = 2 /\ on_screen = FALSE

\* init_pid(): every pid free.
init_pid == used_pids = [p \in Pids |-> FALSE]

Init ==
    /\ init_pid
    /\ pcb = [p \in Pids |-> ZeroPcb]
    /\ terminals = [t \in Terminals |-> [prog_curr_pid |-> -1,
                                          prog_par_pid |-> -1]]
    /\ init_pit
    /\ curr_ter = 0
    /\ kbd_irq = FALSE
    /\ tss_pid = BootStack
    /\ PagingInit
    /\ running = BootStack
    /\ screen = [f \in Frames |-> {}]
    /\ eax = NoRet
    /\ kb_events = 0
    /\ home = [p \in Pids |-> -1]
    /\ cursor = MAIN_VID
    /\ cursor_save = [t \in Terminals |-> t]
    /\ vga_cursor = MAIN_VID

-----------------------------------------------------------------------------
(* Timer interrupt: PT_handler -> switch_running_process (pit.c).         *)

\* Mutant: the scheduler stays on the shown terminal instead of moving on.
NextTerminal_stay ==
    IF curr_process = curr_ter THEN curr_process
    ELSE (curr_process + 1) % NUM_TERMINALS

\* next_process: round robin over the three terminals.
NextTerminal == (curr_process + 1) % NUM_TERMINALS

\* Mutant: the asm that stores esp/ebp into the PCB left out.
SaveContext_skip(pc, p) == pc

\* Mutant: the cursor restored from the slot being left.
restore_cursor_stale(next) == cursor' = cursor_save[curr_process]

\* restore_cursor(terminals[next_process].screen_x_save, ..._y_save).
restore_cursor(next) == cursor' = cursor_save[next]

\* Store the interrupted kernel context (esp/ebp) into PCB p.
SaveContext(pc, p) == [pc EXCEPT ![p].esp = running]

\* The part every tick does first: pick the next terminal, mask the
\* keyboard and unmask it iff that terminal is shown.
TickCommon(next) ==
    /\ on_screen' = (next = curr_ter)
    /\ kbd_irq' = (next = curr_ter)
    /\ kb_events' = 0
    /\ eax' = NoRet

\* No process on the next terminal yet: switch the video frame, save the
\* interrupted context into get_pcb_by_pid(curr_process) (unless next is
\* 0) and execute a shell there.  execute("shell") only fails when no pid
\* is free; the handler then finds no process on the new curr_process and
\* returns to the interrupted context.  reset_cursor() puts the cursor at
\* the top of next's screen and saves it in terminals[next]; the shell's
\* prompt, or the message of the failed execute, is printed with putc.
TickSpawn ==
    LET next == NextTerminal
        vid == IF next = curr_ter THEN MAIN_VID ELSE next
        pc1 == IF next # 0 THEN SaveContext(pcb, curr_process) ELSE pcb
    IN  /\ terminals[next].prog_curr_pid = -1
        /\ TickCommon(next)
        /\ change_vidmem(vid)
        /\ curr_process' = next
        /\ cursor' = next
        /\ set_cursor(next, next = curr_ter, next)
        /\ IF ExecOk(used_pids, pc1)
           THEN LET r == ExecState(used_pids, pc1, next, running)
                IN  /\ ApplyExec(r, next)
                    /\ screen' = WriteTo(screen, vid, next)
           ELSE /\ pcb' = pc1
                /\ UNCHANGED <<used_pids, terminals, tss_pid, page_pid,
                               running, screen, home>>
        /\ UNCHANGED <<curr_ter, uvid_present>>

\* A process exists on the next terminal: save the interrupted context into
\* the current process's PCB, map the next process's page and video frame,
\* point the TSS at its stack, restore the cursor saved for next, and
\* resume the context saved in its PCB.
TickSwitch ==
    LET next == NextTerminal
        pid == terminals[next].prog_curr_pid
        vid == IF next = curr_ter THEN MAIN_VID ELSE next
        pc1 == SaveContext(pcb, CurrPid)
    IN  /\ pid # -1
        /\ CurrPid # -1
        /\ TickCommon(next)
        /\ pcb' = pc1
        /\ enable_program_page(pid)
        /\ change_vidmem(vid)
        /\ tss_pid' = pid
        /\ curr_process' = next
        /\ running' = pc1[pid].esp
        /\ restore_cursor(next)
        /\ UNCHANGED <<used_pids, terminals, curr_ter, uvid_present, screen,
                       home, cursor_save, vga_cursor>>

\* A process exists on the next terminal but none on curr_process (only
\* after a failed spawn): the handler returns early, leaving curr_process,
\* the page and the video mapping as they were.  (Mutant above: the
\* early return taken after curr_process is advanced.)
TickStuck_advance ==
    LET next == NextTerminal
    IN  /\ terminals[next].prog_curr_pid # -1
        /\ CurrPid = -1
        /\ TickCommon(next)
        /\ curr_process' = next
        /\ UNCHANGED <<used_pids, pcb, terminals, curr_ter, tss_pid,
                       page_pid, kvid, uvid, uvid_present, running, screen,
                       home, cursorVars>>

TickStuck ==
    LET next == NextTerminal
    IN  /\ terminals[next].prog_curr_pid # -1
        /\ CurrPid = -1
        /\ TickCommon(next)
        /\ UNCHANGED <<used_pids, pcb, terminals, curr_process, curr_ter,
                       tss_pid, page_pid, kvid, uvid, uvid_present, running,
                       screen, home, cursorVars>>

Tick == TickSpawn \/ TickSwitch \/ TickStuck

-----------------------------------------------------------------------------
(* System calls of the program on the CPU (system_calls.c).              *)

\* A shell may only act once the user can type to it; unless
\* InputBeforeBoot, the three shells are up before any input arrives.
MayAct == UserRunning /\ (InputBeforeBoot \/ \A t \in Terminals :
                                              terminals[t].prog_curr_pid # -1)

\* sys_execute of an existing executable.  get_curr_pcb() reads the stack
\* the system call entered on, the one tss.esp0 names; the new program is
\* recorded on terminals[curr_process].
Execute ==
    /\ MayAct
    /\ ExecOk(used_pids, pcb)
    /\ ApplyExec(ExecState(used_pids, pcb, curr_process, tss_pid),
                 curr_process)
    /\ screen' = WriteTo(screen, kvid, Writer)
    /\ Putc
    /\ UNCHANGED <<curr_process, curr_ter, on_screen, kbd_irq, kvid, uvid,
                   uvid_present, kb_events>>
    /\ eax' = NoRet

\* sys_execute that returns ERROR: no such file, no ELF magic, or
\* get_new_pid() found every pid in use (which prints a message).
ExecuteFail ==
    /\ MayAct
    /\ eax' = ERROR
    /\ IF ExecOk(used_pids, pcb)
       THEN UNCHANGED <<screen, cursorVars>>
       ELSE screen' = WriteTo(screen, kvid, Writer) /\ Putc
    /\ UNCHANGED <<used_pids, pcb, terminals, curr_process, curr_ter,
                   on_screen, kbd_irq, tss_pid, page_pid, kvid, uvid,
                   uvid_present, running, kb_events, home>>

\* sys_halt(status), also reached from every exception handler through
\* blue_screen() with status HALT_STATUS_EXC.  With no program recorded
\* for curr_process, get_pcb_by_pid(-1) is NULL and halt returns ERROR.
\* Otherwise the pid is freed and the parent's page and TSS restored; the
\* FDT entries' close() calls change nothing modelled here.  A root shell
\* (pid < 3) re-executes "shell" on the same stack; any other process
\* clears its PCB and jumps into its parent's sys_execute, which returns
\* 256 for status 4 and 0 otherwise.
Halt(status) ==
    LET pid == CurrPid
        p == pcb[pid]
        up1 == [used_pids EXCEPT ![pid] = FALSE]
        scr1 == WriteTo(screen, kvid, Writer)
    IN  /\ MayAct
        /\ pid # -1
        /\ IF pid < 3
           THEN LET r == ExecState(up1, pcb, curr_process, tss_pid)
                IN  /\ ApplyExec(r, curr_process)
                    /\ screen' = scr1
                    /\ eax' = NoRet
           ELSE /\ used_pids' = up1
                /\ tss_pid' = p.par_pid
                /\ enable_program_page(p.par_pid)
                /\ terminals' = [terminals EXCEPT ![curr_process] =
                                   [prog_curr_pid |-> StackPid(pcb, p.par_pcb),
                                    prog_par_pid |-> IF p.par_pcb \in Pids
                                                     THEN pcb[p.par_pcb].par_pid
                                                     ELSE GarbagePid]]
                /\ pcb' = [pcb EXCEPT ![pid] = ZeroPcb]
                /\ running' = p.par_esp
                /\ eax' = IF status = HALT_STATUS_EXC THEN HALT_EXC ELSE 0
                /\ screen' = scr1
                /\ home' = [home EXCEPT ![pid] = -1]
        /\ Putc
        /\ UNCHANGED <<curr_process, curr_ter, on_screen, kbd_irq, kvid, uvid,
                       uvid_present, kb_events>>

\* blue_screen(str): printf the banner, then sys_halt(HALT_STATUS_EXC),
\* whose first putc is the banner's (Halt's write).
blue_screen == Halt(HALT_STATUS_EXC)

\* A CPU exception in the program on the CPU: each of the twenty handlers
\* installed by init_idt calls blue_screen with its name.
Exception == blue_screen

HaltNoProcess ==
    /\ MayAct
    /\ CurrPid = -1
    /\ eax' = ERROR
    /\ UNCHANGED <<used_pids, pcb, terminals, curr_process, curr_ter,
                   on_screen, kbd_irq, tss_pid, page_pid, kvid, uvid,
                   uvid_present, running, screen, kb_events, home,
                   cursorVars>>

\* terminal_write: the program prints; putc writes through video_mem.
Write ==
    /\ UserRunning
    /\ screen' = WriteTo(screen, kvid, Writer)
    /\ Putc
    /\ UNCHANGED <<used_pids, pcb, terminals, curr_process, curr_ter,
                   on_screen, kbd_irq, tss_pid, page_pid, kvid, uvid,
                   uvid_present, running, kb_events, home>>
    /\ eax' = NoRet

\* get_vidmem(): vidmem_page_table[0] points at the physical frame (VIDEO)
\* and the PDE after the program's page is installed.
get_vidmem == uvid' = MAIN_VID /\ uvid_present' = TRUE

\* sys_vidmap with a pointer inside the user page calls get_vidmem().
Vidmap ==
    /\ UserRunning
    /\ VidmapInBackground \/ curr_process = curr_ter
    /\ get_vidmem
    /\ UNCHANGED <<used_pids, pcb, terminals, curr_process, curr_ter,
                   on_screen, kbd_irq, tss_pid, page_pid, kvid, running,
                   screen, kb_events, home, cursorVars>>
    /\ eax' = NoRet

\* sys_vidmap with a NULL pointer, or one outside 128 MiB .. 132 MiB,
\* returns -1 before get_vidmem() and changes nothing else.
VidmapFail ==
    /\ UserRunning
    /\ eax' = ERROR
    /\ UNCHANGED <<used_pids, pcb, terminals, curr_process, curr_ter,
                   on_screen, kbd_irq, tss_pid, page_pid, kvid, uvid,
                   uvid_present, running, screen, kb_events, home, cursorVars>>

\* The program stores through the pointer vidmap gave it.
UserVideoWrite ==
    /\ UserRunning
    /\ uvid_present
    /\ screen' = WriteTo(screen, uvid, Writer)
    /\ UNCHANGED <<used_pids, pcb, terminals, curr_process, curr_ter,
                   on_screen, kbd_irq, tss_pid, page_pid, kvid, uvid,
                   uvid_present, running, kb_events, home, cursorVars>>
    /\ eax' = NoRet

-----------------------------------------------------------------------------
(* Keyboard: KB_handler (keyboard.c), run while IRQ1 is unmasked.        *)

\* Mutant: the two copies of swap_vid_mem in the opposite order.
SwapVidMem_reversed(scr, f, old, n) ==
    LET scr1 == [scr EXCEPT ![f] = scr[n]]
    IN  [scr1 EXCEPT ![old] = scr1[f]]

\* swap_vid_mem(old, n) while video_mem maps frame f: save f into old's
\* backing page, then load n's backing page into f.
SwapVidMem(scr, f, old, n) ==
    LET scr1 == [scr EXCEPT ![old] = scr[f]]
    IN  [scr1 EXCEPT ![f] = scr1[n]]

\* Alt+F1/F2/F3 -> switch_ter(curr_ter, n): swap_vid_mem copies the frame
\* video_mem maps into old's backing page and n's backing page into the
\* frame video_mem maps, then change_vidmem(old), curr_ter = n, and the
\* VGA cursor drawn at terminals[n]'s saved position.  on_screen is left
\* as it was.
SwitchTerminal(n) ==
    LET old == curr_ter
    IN  /\ KeyArrives
        /\ n # old
        /\ screen' = SwapVidMem(screen, kvid, old, n)
        /\ change_vidmem(old)
        /\ curr_ter' = n
        /\ kb_events' = kb_events + 1
        /\ vga_cursor' = cursor_save[n]
        /\ UNCHANGED <<used_pids, pcb, terminals, curr_process, on_screen,
                       kbd_irq, tss_pid, page_pid, uvid_present, running,
                       home, cursor, cursor_save>>
        /\ eax' = NoRet

\* A printable key or Enter: print_char / enter_key echo it with putc,
\* through video_mem, as input of the shown terminal curr_ter.
EchoKey ==
    /\ KeyArrives
    /\ screen' = WriteTo(screen, kvid, curr_ter)
    /\ Putc
    /\ kb_events' = kb_events + 1
    /\ UNCHANGED <<used_pids, pcb, terminals, curr_process, curr_ter,
                   on_screen, kbd_irq, tss_pid, page_pid, kvid, uvid,
                   uvid_present, running, home>>
    /\ eax' = NoRet

-----------------------------------------------------------------------------
Next ==
    \/ Tick
    \/ Execute
    \/ ExecuteFail
    \/ \E s \in Statuses : Halt(s)
    \/ Exception
    \/ HaltNoProcess
    \/ Write
    \/ Vidmap
    \/ VidmapFail
    \/ UserVideoWrite
    \/ \E n \in Terminals : SwitchTerminal(n)
    \/ EchoKey

\* The PIT fires at 80 Hz whenever interrupts are on, and system calls do
\* not disable them for long: the tick is weakly fair.  User programs and
\* the user at the keyboard are not.
Spec == Init /\ [][Next]_vars /\ WF_vars(Tick)


-----------------------------------------------------------------------------
(* Properties *)

TypeOK ==
    /\ used_pids \in [Pids -> BOOLEAN]
    /\ \A p \in Pids : /\ pcb[p].pid \in Pids
                       /\ pcb[p].par_pid \in Pids \cup {GarbagePid}
                       /\ pcb[p].par_pcb \in Contexts
                       /\ pcb[p].par_esp \in Contexts
                       /\ pcb[p].esp \in Contexts
    /\ \A t \in Terminals : terminals[t].prog_curr_pid \in Pids \cup {-1}
    /\ curr_process \in Terminals /\ curr_ter \in Terminals
    /\ on_screen \in BOOLEAN /\ kbd_irq \in BOOLEAN /\ uvid_present \in BOOLEAN
    /\ tss_pid \in Stacks /\ page_pid \in Pids \cup {-1}
    /\ kvid \in Frames /\ uvid \in Frames
    /\ running \in Contexts
    /\ screen \in [Frames -> SUBSET Terminals]
    /\ eax \in {NoRet, ERROR, 0, HALT_EXC}
    /\ kb_events \in 0 .. MaxKeysPerQuantum
    /\ home \in [Pids -> Terminals \cup {-1}]
    /\ cursor \in Frames /\ vga_cursor \in Frames
    /\ cursor_save \in [Terminals -> Frames]

\* The pids met following par_pid from p up to a self-parented root.
RECURSIVE Lineage(_, _)
Lineage(p, k) ==
    IF k = 0 \/ p \notin Pids THEN {}
    ELSE {p} \cup (IF pcb[p].par_pid = p THEN {}
                   ELSE Lineage(pcb[p].par_pid, k - 1))

LineageOf(t) == Lineage(terminals[t].prog_curr_pid, MAX_PROCESSES)

HasProcess(t) == terminals[t].prog_curr_pid # -1

\* After any sequence of executes, halts, exceptions and timer ticks, the
\* kernel context on the CPU is the one the scheduler believes it runs:
\* the program of terminals[curr_process], on its own kernel stack (TSS)
\* and with its own 4 MiB page mapped.  Broken if switch_running_process
\* saves or restores esp in the wrong PCB, or halt resumes the wrong frame.
SchedulerConsistent ==
    running # BootStack =>
        /\ running = CurrPid
        /\ tss_pid = CurrPid
        /\ page_pid = CurrPid

\* Every terminal that is not on the CPU will resume its own process: the
\* esp/ebp the scheduler saved in that process's PCB point into that
\* process's kernel stack (pit.c saves into get_pcb_by_pid(curr_process)
\* on the spawn path, assuming root shell pids equal terminal numbers).
SavedContextsValid ==
    \A t \in Terminals \ {curr_process} :
        HasProcess(t) => pcb[terminals[t].prog_curr_pid].esp
                            = terminals[t].prog_curr_pid

\* The live processes form one chain per terminal: from the running
\* program, par_pid leads to a root shell (pid < 3, its own parent) and
\* every blocked parent is resumed by its child's saved par_esp; the
\* chains are disjoint and cover exactly the used pids, so halt never
\* leaks a pid and never resumes a process of another terminal.
ProcessTree ==
    /\ \A t \in Terminals : HasProcess(t) =>
          /\ \E r \in LineageOf(t) : r < 3 /\ pcb[r].par_pid = r
          /\ \A q \in LineageOf(t) :
                /\ used_pids[q]
                /\ pcb[q].par_pid # q =>
                      /\ pcb[q].par_esp = pcb[q].par_pid
                      /\ pcb[q].par_pcb = pcb[q].par_pid
    /\ {q \in Pids : used_pids[q]} =
          UNION {LineageOf(t) : t \in {u \in Terminals : HasProcess(u)}}
    /\ \A t, u \in Terminals :
          t # u /\ HasProcess(t) /\ HasProcess(u) =>
              LineageOf(t) \cap LineageOf(u) = {}

\* Each video frame other than the shown terminal's stale backing page
\* holds only output of the terminal it belongs to: the physical frame
\* that of curr_ter, backing page t that of terminal t.  Broken when a
\* write goes through a video mapping of another terminal.
ScreenIsolation ==
    \A f \in Frames \ {curr_ter} :
        screen[f] \subseteq {IF f = MAIN_VID THEN curr_ter ELSE f}

\* Spec 4.C/4.F: each terminal keeps its own cursor across context
\* switches.  The position saved in terminals[t] is always terminal t's,
\* and while a program runs, screen_x/screen_y are its terminal's.  About
\* set_cursor saving into terminals[curr_process] on every putc, pit.c
\* restoring terminals[next_process], and reset_cursor on a shell spawn.
CursorFollowsTerminal ==
    /\ \A t \in Terminals : cursor_save[t] = t
    /\ UserRunning /\ HasProcess(curr_process) => cursor = curr_process

\* Spec 3 and 4.C: on_screen is true iff the slot on the CPU is the shown
\* terminal, so once a program has printed on screen, the VGA cursor is
\* drawn at the shown terminal's position.  About switch_ter leaving
\* on_screen as it was, so that putc by the program of the terminal just
\* hidden moves the cursor drawn over the new terminal's screen.
VgaCursorShown == vga_cursor # MAIN_VID => vga_cursor = curr_ter

\* spec 4.E/8: halt(s) returns control to the parent's execute with
\* return value s, or 256 when the child died by an exception (status 4).
ExecuteReturnsStatus ==
    [][\A s \in Statuses :
         (Halt(s) /\ CurrPid >= 3) =>
            eax' = IF s = HALT_STATUS_EXC THEN HALT_EXC ELSE s]_vars

\* A program is on the CPU but the scheduler names none for curr_process:
\* the state a failed spawn in switch_running_process leaves behind.
Stalled == running \in Pids /\ CurrPid = -1

\* The scheduler stalls only when every pid is in use: the shell spawn of
\* a tick fails only when get_new_pid() finds none free.
StallExhausted == Stalled => \A p \in Pids : used_pids[p]

\* A stall is never left: every later tick returns early at the
\* prog_curr_pid == -1 check of switch_running_process, execute finds no
\* free pid and halt finds no PCB, so no program on another terminal runs
\* again.
StallIsPermanent == [](Stalled => []Stalled)

\* The programs of a terminal as halt unwinds them: from p down to the
\* root shell, each program's parent is the one par_pid names; listed
\* root first.
RECURSIVE Chain(_, _)
Chain(p, k) ==
    IF k = 0 \/ p \notin Pids THEN <<>>
    ELSE IF pcb[p].par_pid = p THEN <<p>>
    ELSE Chain(pcb[p].par_pid, k - 1) \o <<p>>

\* The stack of programs of each terminal, from its prog_curr_pid.
StacksOf == [t \in Terminals |-> Chain(terminals[t].prog_curr_pid, MAX_PROCESSES)]

Programs == INSTANCE ProgramStacks WITH stacks <- StacksOf

\* Spec 2, 4.E and 7: Kernel implements ProgramStacks.  Terminal t's
\* root shell has pid t, and every step of the kernel leaves the
\* terminals' program stacks alone, pushes a program with a free pid on
\* the terminal execute ran on, or pops the top on halt: a child's halt
\* resumes its parent, a root shell's halt restarts it with the same pid.
\* About the order init_pit and the first ticks spawn the shells in
\* (pit.c assumes a root shell's pid is its terminal number), and about
\* get_new_pid giving a root shell's pid back to the shell halt restarts.
StacksRefined == Programs!PSpec

\* Round robin: every terminal gets a shell and then runs again and again.
EveryTerminalServed ==
    \A t \in Terminals : []<>(curr_process = t /\ HasProcess(t))

=============================================================================
