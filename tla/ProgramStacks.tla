---------------------------- MODULE ProgramStacks ----------------------------
(***************************************************************************)
(* What execute and halt promise, as spec sections 2, 4.E and 7 state it,  *)
(* without PCBs, kernel stacks, pages or the scheduler.  Each terminal     *)
(* runs a stack of programs, its root shell at the bottom:                 *)
(*   - the root shell of terminal t has pid t (pids 0..2 are reserved for  *)
(*     the root shells, one per terminal);                                 *)
(*   - execute pushes a new program, with a pid no live program has, onto  *)
(*     the stack of the terminal it is called on; it fails when all        *)
(*     MAX_PROCESSES pids are live;                                        *)
(*   - halt pops the top and resumes the program below it ("nested         *)
(*     execute o execute o halt o halt unwind as a stack"); a root shell   *)
(*     that halts is replaced by a new shell, so its stack is unchanged.   *)
(* Nothing else changes a stack.                                           *)
(***************************************************************************)
EXTENDS Integers, SequencesExt

CONSTANTS Terminals, Pids

VARIABLE stacks

\* The pids of the programs alive on some terminal.
Live == UNION {ToSet(stacks[t]) : t \in Terminals}

PInit == stacks = [t \in Terminals |-> <<>>]

\* The scheduler's first visit to terminal t starts its root shell.
PSpawn(t) ==
    /\ stacks[t] = <<>>
    /\ t \notin Live
    /\ stacks' = [stacks EXCEPT ![t] = <<t>>]

\* execute on terminal t: a new program with a free pid on top.
PExecute(t) ==
    /\ stacks[t] # <<>>
    /\ \E p \in Pids \ Live : stacks' = [stacks EXCEPT ![t] = Append(@, p)]

\* halt of a program that is not a root shell: its parent resumes.
PHalt(t) ==
    /\ Len(stacks[t]) > 1
    /\ stacks' = [stacks EXCEPT ![t] = Front(@)]

PNext == \E t \in Terminals : PSpawn(t) \/ PExecute(t) \/ PHalt(t)

PSpec == PInit /\ [][PNext]_stacks

=============================================================================
