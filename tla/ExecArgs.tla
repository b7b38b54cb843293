------------------------------ MODULE ExecArgs ------------------------------
(***************************************************************************)
(* The command line of sys_execute and sys_getargs (system_calls.c), on    *)
(* top of the PCB and file system of FileSys.                              *)
(*                                                                         *)
(* sys_execute splits the command it is given into the executable name     *)
(* and an argument string, looks the name up with read_dentry_by_name,     *)
(* checks the ELF magic, and stores the arguments in the new PCB (args,    *)
(* arg_len).  sys_getargs copies them into a user buffer of nbytes bytes.  *)
(* A command is the user memory at the pointer: the model's sequence,      *)
(* followed by NULs (Ch of FileSys).                                       *)
(***************************************************************************)
EXTENDS FileSys

CONSTANTS
    MAX_CMD_LEN,    \* system_calls.h: 32
    MAX_ARG_LEN,    \* system_calls.h: 128
    ElfInodes,      \* inodes whose first 4 bytes are ELF_MAGIC
    Commands,       \* command strings programs pass to execute
    ArgSizes        \* nbytes programs pass to getargs

VARIABLES
    arg_len,        \* pcb->arg_len
    args,           \* pcb->args[0 .. arg_len - 1]
    spec_args,      \* auxiliary: the arguments spec 4.E gives the command
    lastGetargs     \* auxiliary: the last getargs, its result and writes

execVars == <<arg_len, args, spec_args, lastGetargs>>
allVars == <<vars, execVars>>

NL == "\n"
NoGetargs == [n |-> -1, ret |-> 0, written |-> {}]

-----------------------------------------------------------------------------
(* The parse of sys_execute (system_calls.c:79-103).                       *)

\* The name loop: i runs up to MAX_CMD_LEN and stops at a space or a
\* newline; it does not stop at a NUL.
RECURSIVE NameStop(_, _)
NameStop(cmd, i) ==
    IF i >= MAX_CMD_LEN \/ Ch(cmd, i) \in {" ", NL} THEN i
    ELSE NameStop(cmd, i + 1)

\* have_args: the name loop stopped at a space.
HaveArgs(cmd) == LET i == NameStop(cmd, 0)
                 IN i < MAX_CMD_LEN /\ Ch(cmd, i) = " "

\* executable_name as a C string: the characters copied, up to the first
\* NUL among them.
RECURSIVE CStrEnd(_, _, _)
CStrEnd(cmd, i, k) == IF i >= k \/ Ch(cmd, i) = NUL THEN i
                      ELSE CStrEnd(cmd, i + 1, k)

ExecutableName(cmd) ==
    [j \in 1 .. CStrEnd(cmd, 0, NameStop(cmd, 0)) |-> Ch(cmd, j - 1)]

\* The argument loop: from one past the space while i < MAX_ARG_LEN (an
\* index into the command, not into the arguments), stopping at a
\* newline, a NUL or a space.
RECURSIVE ArgStop(_, _)
ArgStop(cmd, i) ==
    IF i >= MAX_ARG_LEN \/ Ch(cmd, i) \in {NL, NUL, " "} THEN i
    ELSE ArgStop(cmd, i + 1)

\* arguments[], and strlen(arguments), which is arg_len.
Arguments(cmd) ==
    LET s == NameStop(cmd, 0) + 1
    IN  [j \in 1 .. ArgStop(cmd, s) - s |-> Ch(cmd, s + j - 1)]

\* The ELF check: the first four bytes of the file against ELF_MAGIC.
IsElf(ino) == ino \in ElfInodes

-----------------------------------------------------------------------------
(* What spec 4.E says: split the command at the first space into a name    *)
(* of at most 32 bytes and the arguments, at most 128 bytes.               *)

SpecLine(cmd) == LET k == SelectInSeq(cmd, LAMBDA c : c = NL)
                 IN  IF k = 0 THEN cmd ELSE SubSeq(cmd, 1, k - 1)

SpecArgs(cmd) ==
    LET line == SpecLine(cmd)
        sp == SelectInSeq(line, LAMBDA c : c = " ")
        name == IF sp = 0 THEN line ELSE SubSeq(line, 1, sp - 1)
        val == IF sp = 0 THEN <<>> ELSE SubSeq(line, sp + 1, Len(line))
    IN  [has |-> sp # 0, val |-> val,
         valid |-> Len(name) \in 1 .. MAX_CMD_LEN /\ Len(val) <= MAX_ARG_LEN]

\* getargs as spec 4.E states it: fail without arguments or when nbytes is
\* smaller than their length; otherwise the arguments, NUL-terminated when
\* the buffer has room, and nothing outside buf[0 .. nbytes - 1].
SpecGetargs(sa, n) ==
    IF ~sa.has \/ n < Len(sa.val) THEN [ret |-> ERROR, written |-> {}]
    ELSE [ret |-> 0,
          written |-> {<<i, sa.val[i + 1]>> : i \in 0 .. Len(sa.val) - 1}
                      \cup (IF Len(sa.val) < n THEN {<<Len(sa.val), NUL>>}
                            ELSE {})]

-----------------------------------------------------------------------------

ExecInit ==
    /\ Init
    /\ arg_len = ERROR
    /\ args = <<>>
    /\ spec_args = [has |-> FALSE, val |-> <<>>, valid |-> TRUE]
    /\ lastGetargs = NoGetargs

\* sys_execute(cmd) that loads a program: the parse, the name lookup, the
\* ELF check, then the new PCB (the FDT as in FileSys's Execute, and the
\* arguments: arg_len = strlen(arguments) and strncpy of that many bytes,
\* or arg_len = -1).  A failed lookup or ELF check returns -1 and changes
\* nothing.  A command starting with a space or newline would look up an
\* uninitialised name; Commands has none.
SysExecute(cmd) ==
    LET entry == read_dentry_by_name(ExecutableName(cmd))
    IN  /\ entry # ERROR
        /\ IsElf(EntryInode(entry))
        /\ Execute
        /\ arg_len' = IF HaveArgs(cmd) THEN Len(Arguments(cmd)) ELSE ERROR
        /\ args' = IF HaveArgs(cmd) THEN Arguments(cmd) ELSE <<>>
        /\ spec_args' = SpecArgs(cmd)
        /\ lastGetargs' = NoGetargs

\* sys_getargs(buf, nbytes): -1 without arguments or when nbytes < arg_len;
\* otherwise buf[arg_len] = '\0' once per i < nbytes, then memcpy of
\* arg_len bytes of args.
SysGetargs(n) ==
    /\ lastGetargs' =
          [n |-> n,
           ret |-> IF arg_len = ERROR \/ n < arg_len THEN ERROR ELSE 0,
           written |->
              IF arg_len = ERROR \/ n < arg_len THEN {}
              ELSE {<<i, args[i + 1]>> : i \in 0 .. arg_len - 1}
                   \cup (IF n > 0 THEN {<<arg_len, NUL>>} ELSE {})]
    /\ UNCHANGED <<vars, arg_len, args, spec_args>>

ExecNext ==
    \/ \E cmd \in Commands : SysExecute(cmd)
    \/ \E n \in ArgSizes : SysGetargs(n)

ExecSpec == ExecInit /\ [][ExecNext]_allVars

-----------------------------------------------------------------------------
(* Properties *)

\* Spec 4.E: a program executed with a command within the spec's limits
\* gets from getargs(buf, n) exactly the text after the first space of
\* its command: -1 without one or when n is too small, otherwise those
\* bytes and a NUL if it fits, and no byte at buf[n] or beyond.  About the
\* parse loops of sys_execute and the copy of sys_getargs.
GetargsDeliversArgs ==
    \/ lastGetargs = NoGetargs
    \/ ~spec_args.valid
    \/ [ret |-> lastGetargs.ret, written |-> lastGetargs.written]
           = SpecGetargs(spec_args, lastGetargs.n)

=============================================================================
