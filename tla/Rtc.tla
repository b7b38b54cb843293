-------------------------------- MODULE Rtc ---------------------------------
(***************************************************************************)
(* The virtual RTC of BigBrainOS (rtc.c) together with the parts of        *)
(* execute, halt, open and close (system_calls.c) that touch it.           *)
(*                                                                         *)
(* One hardware periodic interrupt runs at higher_freq, the largest rate   *)
(* any program asked for.  A program that asked for prog_freq gets one     *)
(* rtc_read return per divisor = higher_freq / prog_freq hardware ticks:   *)
(* rtc_read loads count from divisor and counts the per-terminal flag      *)
(* that RT_handler raises on every tick.                                   *)
(*                                                                         *)
(* Each system call is one atomic step (interrupt gate).  rtc_read is the  *)
(* exception: it executes sti and busy-waits, so it is split into          *)
(* RtcReadStart and one RtcReadTick step per loop iteration, between which *)
(* every other terminal may run and the hardware may tick.  A program is   *)
(* the top of its terminal's stack of executed programs; only that one     *)
(* runs, and it makes no call while it waits in rtc_read.                  *)
(*   used_pids            system_calls.c used_pids[]                       *)
(*   stack[t]             the chain terminals[t].prog_curr_pid, par_pid... *)
(*   prog_freq, divisor,  pcb.h fields of the same names                   *)
(*   count                                                                 *)
(*   rtc_fds[p]           enabled FDT entries of p whose fot is rtc_fot    *)
(*   higher_freq          rtc.c global                                     *)
(*   rate                 low 4 bits of RTC register A                     *)
(*   rtc_interrupt_flags  rtc.c global, one flag per terminal              *)
(*   reading[p]           p is inside the wait loop of rtc_read            *)
(***************************************************************************)
EXTENDS Integers, SequencesExt

CONSTANTS
    MAX_PROCESSES,   \* pids 0 .. MAX_PROCESSES-1 (6 in system_calls.h)
    NUM_TERMINALS,   \* terminals, and root pids (3 in keyboard.h)
    WriteArgs,       \* the frequencies programs pass to rtc_write
    MaxRtcFds        \* rtc descriptors one program holds at once (<= 6)

ASSUME NUM_TERMINALS <= MAX_PROCESSES /\ MaxRtcFds \in 1 .. 6

RTC_START_FREQ == 2        \* rtc.h
RTC_MAX_FREQ == 1024
RTC_MIN_FREQ == 2
RTC_POW_OFFSET == 2
RTC_POW_MAX == 11
RTC_POW_START == 15
ERROR == -1

Pids == 0 .. MAX_PROCESSES - 1
Terminals == 0 .. NUM_TERMINALS - 1
MaxDivisor == RTC_MAX_FREQ \div RTC_MIN_FREQ

VARIABLES used_pids, stack, prog_freq, divisor, count, rtc_fds,
          higher_freq, rate, rtc_interrupt_flags, reading

vars == <<used_pids, stack, prog_freq, divisor, count, rtc_fds,
          higher_freq, rate, rtc_interrupt_flags, reading>>

-----------------------------------------------------------------------------
(* rtc_set_frequency: the register A rate for a power-of-two frequency.   *)
(* The loop finds the first i >= 2 with freq >> i = 0.                     *)

\* Mutant: the loop stops one power short (i < RTC_POW_MAX).
RECURSIVE RateLoop_short(_, _)
RateLoop_short(freq, i) ==
    IF i >= RTC_POW_MAX THEN RTC_POW_START
    ELSE IF freq \div 2^i = 0 THEN RTC_POW_START - i + RTC_POW_OFFSET
    ELSE RateLoop_short(freq, i + 1)

RECURSIVE RateLoop(_, _)
RateLoop(freq, i) ==
    IF i > RTC_POW_MAX THEN RTC_POW_START
    ELSE IF freq \div 2^i = 0 THEN RTC_POW_START - i + RTC_POW_OFFSET
    ELSE RateLoop(freq, i + 1)

\* rate & 0x0F, written into register A.
rtc_set_frequency(freq) == RateLoop(freq, RTC_POW_OFFSET) % 16

-----------------------------------------------------------------------------
(* Helpers *)

\* The program terminals[t].prog_curr_pid.
Top(t) == stack[t][Len(stack[t])]

\* A program that runs and is not blocked in rtc_read.
Active(t) == ~reading[Top(t)]

\* Mutant of get_new_pid: the loop index instead of ERROR when all are used.
get_new_pid_noerror(up) ==
    IF \E p \in Pids : ~up[p]
    THEN Min({p \in Pids : ~up[p]})
    ELSE MAX_PROCESSES

\* get_new_pid: lowest free pid, or ERROR.
get_new_pid(up) ==
    IF \E p \in Pids : ~up[p]
    THEN Min({p \in Pids : ~up[p]})
    ELSE ERROR

\* rtc_write's argument checks: a power of two in [2, 1024].
ValidFreq(f) ==
    /\ f \in RTC_MIN_FREQ .. RTC_MAX_FREQ
    /\ \E k \in 1 .. 10 : f = 2^k

\* rtc_close: the maximum requested rate of the live programs (at least
\* RTC_START_FREQ) becomes the hardware rate, and every live program with a
\* rate gets its divisor recomputed.  Returns the new higher_freq.
CloseMax(up, pf) ==
    Max({RTC_START_FREQ} \cup {pf[q] : q \in {q \in Pids : up[q]}})

Divisors(up, pf, div, h) ==
    [q \in Pids |-> IF up[q] /\ pf[q] > 0 THEN h \div pf[q] ELSE div[q]]

\* rtc_close applied to live set up and rates pf.
rtc_close(up, pf) ==
    /\ higher_freq' = CloseMax(up, pf)
    /\ rate' = rtc_set_frequency(CloseMax(up, pf))
    /\ divisor' = Divisors(up, pf, divisor, CloseMax(up, pf))

-----------------------------------------------------------------------------
Init ==
    \* init_pid, the three boot shells, init_rtc: pid t runs on terminal t.
    /\ used_pids = [p \in Pids |-> p < NUM_TERMINALS]
    /\ stack = [t \in Terminals |-> <<t>>]
    /\ prog_freq = [p \in Pids |-> 0]
    /\ divisor = [p \in Pids |-> 0]
    /\ count = [p \in Pids |-> 0]
    /\ rtc_fds = [p \in Pids |-> 0]
    /\ higher_freq = RTC_START_FREQ
    /\ rate = rtc_set_frequency(RTC_START_FREQ)
    /\ rtc_interrupt_flags = [t \in Terminals |-> 0]
    /\ reading = [p \in Pids |-> FALSE]

\* sys_execute on terminal t: a fresh PCB with no rate and only stdin and
\* stdout in its FDT.  A failed execute changes nothing.
Execute(t) ==
    LET new == get_new_pid(used_pids) IN
    /\ Active(t)
    /\ new # ERROR
    /\ used_pids' = [used_pids EXCEPT ![new] = TRUE]
    /\ stack' = [stack EXCEPT ![t] = Append(@, new)]
    /\ prog_freq' = [prog_freq EXCEPT ![new] = 0]
    /\ count' = [count EXCEPT ![new] = 0]
    /\ divisor' = [divisor EXCEPT ![new] = 0]
    /\ rtc_fds' = [rtc_fds EXCEPT ![new] = 0]
    /\ UNCHANGED <<higher_freq, rate, rtc_interrupt_flags, reading>>

\* sys_halt (also blue_screen) of the program on terminal t.  used_pids is
\* cleared first; then every enabled rtc descriptor is closed (each close
\* recomputes the same maximum).  A root shell (pid < 3 = NUM_TERMINALS)
\* execs a new shell, which takes the lowest free pid and resets its rate;
\* any other program's PCB is zeroed and its parent resumes.
Halt(t) ==
    LET p    == Top(t)
        up   == [used_pids EXCEPT ![p] = FALSE]
        root == p < NUM_TERMINALS
        new  == get_new_pid(up)
        hNew == IF rtc_fds[p] > 0 THEN CloseMax(up, prog_freq) ELSE higher_freq
        dNew == IF rtc_fds[p] > 0
                THEN Divisors(up, prog_freq, divisor, hNew) ELSE divisor
        gone == IF root THEN new ELSE p
    IN
    /\ Active(t)
    /\ higher_freq' = hNew
    /\ rate' = IF rtc_fds[p] > 0 THEN rtc_set_frequency(hNew) ELSE rate
    /\ used_pids' = IF root THEN [up EXCEPT ![new] = TRUE] ELSE up
    /\ stack' = [stack EXCEPT ![t] = IF root
                                     THEN Append(Front(@), new)
                                     ELSE Front(@)]
    /\ prog_freq' = [prog_freq EXCEPT ![gone] = 0]
    /\ count' = [count EXCEPT ![gone] = 0]
    /\ divisor' = [dNew EXCEPT ![gone] = 0]
    /\ rtc_fds' = [rtc_fds EXCEPT ![gone] = 0]
    /\ UNCHANGED <<rtc_interrupt_flags, reading>>

\* sys_open("rtc") then rtc_open: a free FDT slot, and the caller's rate
\* is reset to 0; the hardware is reprogrammed to the unchanged higher_freq.
RtcOpen(t) ==
    LET p == Top(t) IN
    /\ Active(t)
    /\ rtc_fds[p] < MaxRtcFds
    /\ rtc_fds' = [rtc_fds EXCEPT ![p] = @ + 1]
    /\ prog_freq' = [prog_freq EXCEPT ![p] = 0]
    /\ rate' = rtc_set_frequency(higher_freq)
    /\ UNCHANGED <<used_pids, stack, divisor, count, higher_freq,
                   rtc_interrupt_flags, reading>>

\* sys_close of an rtc descriptor, then rtc_close.
RtcClose(t) ==
    LET p == Top(t) IN
    /\ Active(t)
    /\ rtc_fds[p] > 0
    /\ rtc_fds' = [rtc_fds EXCEPT ![p] = @ - 1]
    /\ rtc_close(used_pids, prog_freq)
    /\ UNCHANGED <<used_pids, stack, prog_freq, count, rtc_interrupt_flags,
                   reading>>

\* Mutant of rtc_write: the else branch leaves the caller's divisor alone.
RtcWrite_noself(t, f) ==
    LET p == Top(t)
        pf == [prog_freq EXCEPT ![p] = f]
        h == IF f > higher_freq THEN f ELSE higher_freq
    IN
    /\ Active(t)
    /\ rtc_fds[p] > 0
    /\ ValidFreq(f)
    /\ prog_freq' = pf
    /\ higher_freq' = h
    /\ divisor' = IF f > higher_freq THEN Divisors(used_pids, pf, divisor, h)
                  ELSE divisor
    /\ rate' = rtc_set_frequency(h)
    /\ UNCHANGED <<used_pids, stack, count, rtc_fds, rtc_interrupt_flags,
                   reading>>

\* sys_write on an rtc descriptor, then rtc_write(f).  A rate above
\* higher_freq raises the hardware rate and recomputes every live divisor;
\* otherwise only the caller's divisor is set.
RtcWrite(t, f) ==
    LET p == Top(t)
        pf == [prog_freq EXCEPT ![p] = f]
        h == IF f > higher_freq THEN f ELSE higher_freq
    IN
    /\ Active(t)
    /\ rtc_fds[p] > 0
    /\ ValidFreq(f)
    /\ prog_freq' = pf
    /\ higher_freq' = h
    /\ divisor' = IF f > higher_freq THEN Divisors(used_pids, pf, divisor, h)
                  ELSE [divisor EXCEPT ![p] = higher_freq \div f]
    /\ rate' = rtc_set_frequency(h)
    /\ UNCHANGED <<used_pids, stack, count, rtc_fds, rtc_interrupt_flags,
                   reading>>

\* sys_read on an rtc descriptor: rtc_read loads count from the divisor,
\* enables interrupts and clears its terminal's flag.  With prog_freq = 0
\* it returns at once, changing nothing.
RtcReadStart(t) ==
    LET p == Top(t) IN
    /\ Active(t)
    /\ rtc_fds[p] > 0
    /\ prog_freq[p] > 0
    /\ count' = [count EXCEPT ![p] = divisor[p]]
    /\ reading' = [reading EXCEPT ![p] = TRUE]
    /\ rtc_interrupt_flags' = [rtc_interrupt_flags EXCEPT ![t] = 0]
    /\ UNCHANGED <<used_pids, stack, prog_freq, divisor, rtc_fds,
                   higher_freq, rate>>

\* Mutant of the loop test: count >= 0 on the unsigned count, never false;
\* count-- at 0 wraps (here to the largest divisor the rates allow).
RtcReadTick_unsigned(t) ==
    LET p == Top(t)
        MaxCount == Max({f \in WriteArgs : ValidFreq(f)}) \div RTC_MIN_FREQ
    IN
    /\ reading[p]
    /\ rtc_interrupt_flags[t] = 1
    /\ count' = [count EXCEPT ![p] = IF @ > 0 THEN @ - 1 ELSE MaxCount]
    /\ rtc_interrupt_flags' = [rtc_interrupt_flags EXCEPT ![t] = 0]
    /\ UNCHANGED <<used_pids, stack, prog_freq, divisor, rtc_fds,
                   higher_freq, rate, reading>>

\* One iteration of the wait loop of rtc_read, run when terminal t is
\* scheduled and its flag is up: count--, then either clear the flag and
\* wait again, or return.
RtcReadTick(t) ==
    LET p == Top(t) IN
    /\ reading[p]
    /\ rtc_interrupt_flags[t] = 1
    /\ count' = [count EXCEPT ![p] = @ - 1]
    /\ IF count[p] - 1 > 0
       THEN /\ rtc_interrupt_flags' = [rtc_interrupt_flags EXCEPT ![t] = 0]
            /\ UNCHANGED reading
       ELSE /\ reading' = [reading EXCEPT ![p] = FALSE]
            /\ UNCHANGED rtc_interrupt_flags
    /\ UNCHANGED <<used_pids, stack, prog_freq, divisor, rtc_fds,
                   higher_freq, rate>>

\* RT_handler: a hardware tick raises every terminal's flag.
RT_handler ==
    /\ rtc_interrupt_flags' = [t \in Terminals |-> 1]
    /\ UNCHANGED <<used_pids, stack, prog_freq, divisor, count, rtc_fds,
                   higher_freq, rate, reading>>

Next ==
    \/ RT_handler
    \/ \E t \in Terminals :
          \/ Execute(t)
          \/ Halt(t)
          \/ RtcOpen(t)
          \/ RtcClose(t)
          \/ \E f \in WriteArgs : RtcWrite(t, f)
          \/ RtcReadStart(t)
          \/ RtcReadTick(t)

\* The RTC keeps interrupting, and the scheduler runs every terminal
\* (Kernel's EveryTerminalServed), so a waiting reader sees a raised flag.
Spec == Init /\ [][Next]_vars
        /\ WF_vars(RT_handler)
        /\ \A t \in Terminals : WF_vars(RtcReadTick(t))

-----------------------------------------------------------------------------
(* Properties *)

TypeOK ==
    /\ used_pids \in [Pids -> BOOLEAN]
    /\ stack \in [Terminals -> Seq(Pids)]
    /\ prog_freq \in [Pids -> {0} \cup (RTC_MIN_FREQ .. RTC_MAX_FREQ)]
    /\ divisor \in [Pids -> 0 .. MaxDivisor]
    /\ count \in [Pids -> 0 .. MaxDivisor]
    /\ rtc_fds \in [Pids -> 0 .. MaxRtcFds]
    /\ higher_freq \in RTC_MIN_FREQ .. RTC_MAX_FREQ
    /\ rate \in 0 .. 15
    /\ rtc_interrupt_flags \in [Terminals -> {0, 1}]
    /\ reading \in [Pids -> BOOLEAN]

\* Spec section 8: every live program with a requested rate r > 0 has
\* divisor = higher_freq / r, a positive integer, so its reads come at
\* rate r.  rtc_write updates only the caller's divisor unless the rate
\* rises, and halt recomputes only when the program had an rtc open; the
\* property says that those shortcuts never leave a divisor stale.
DivisorConsistent ==
    \A p \in Pids : used_pids[p] /\ prog_freq[p] > 0 =>
        /\ divisor[p] >= 1
        /\ divisor[p] * prog_freq[p] = higher_freq

\* The register A rate that rtc_set_frequency computes makes the chip tick
\* at higher_freq (the MC146818 divides 32768 Hz by 2^(rate-1)), and the
\* loop of rtc_set_frequency gets this right for every frequency rtc_write
\* accepts, not only for those the configured programs write.
RateMatchesHigher ==
    /\ 32768 \div 2^(rate - 1) = higher_freq
    /\ \A k \in 0 .. RTC_POW_MAX :
           ValidFreq(2^k) => 32768 \div 2^(rtc_set_frequency(2^k) - 1) = 2^k

\* An rtc_read that has started returns: the loop of rtc_read counts count
\* down to 0 on ticks of the hardware clock.
ReadReturns == \A p \in Pids : reading[p] ~> ~reading[p]

\* Spec section 5 (ordering): a program waiting in rtc_read observes higher_freq / prog_freq
\* hardware ticks per wait: the ticks it still waits for never exceed its
\* current divisor.  rtc_read loads count once, before the wait.
ReadWithinPeriod ==
    \A p \in Pids : reading[p] => count[p] <= divisor[p]

=============================================================================
