----------------------------- MODULE MCExecArgs -----------------------------
(* The image of MCFileSys with "cat" and "ls" as programs.  Names are at    *)
(* most MAX_CMD_LEN = FILE_NAME_SIZE = 3 characters, as both are 32 in the  *)
(* code, so "cat" plays a 32-byte name.  A command is at most 6 characters  *)
(* and a newline, below MAX_ARG_LEN = 7, as a terminal line (127 bytes and  *)
(* its newline) is below 128.                                               *)
EXTENDS MCFileSys, ExecArgs

MCElfInodes == {1, 2}

\* Every word of up to 6 characters over l, s, a and space that does not
\* start with a space, and "cat" alone or with one argument.
MCWords == {w \in BoundedSeq({"l", "s", "a", " "}, 6) : w # <<>> /\ w[1] # " "}
           \cup {<<"c", "a", "t">>, <<"c", "a", "t", " ", "a">>}

\* Each ends at a NUL, or at a newline as terminal_read delivers a line.
MCCommands == {w \o t : w \in MCWords, t \in {<<>>, <<NL>>}}

MCArgSizes == 0 .. 3
=============================================================================
