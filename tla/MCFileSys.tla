------------------------------ MODULE MCFileSys -----------------------------
(* A small image for TLC: names of at most 3 characters, 2-byte blocks.    *)
(* Inode 0 is unused by files ("." and "rtc" point at it, as in the image  *)
(* the kernel boots from); "cat" is 3 bytes over two blocks, "ls" 4 bytes  *)
(* over two blocks given in reverse order.                                 *)
EXTENDS FileSys

MCDentries ==
    << [name |-> <<".">>, type |-> 1, inode |-> 0],
       [name |-> <<"r", "t", "c">>, type |-> 0, inode |-> 0],
       [name |-> <<"c", "a", "t">>, type |-> 2, inode |-> 1],
       [name |-> <<"l", "s">>, type |-> 2, inode |-> 2] >>

MCInodeLength == (0 :> 0) @@ (1 :> 3) @@ (2 :> 4)

MCInodeBlocks == (0 :> <<>>) @@ (1 :> <<0, 1>>) @@ (2 :> <<2, 0>>)

\* Names programs open: every entry, a near miss, a name one character too
\* long, and a prefix of "rtc" that is not in the directory.
MCOpenNames == { <<".">>, <<"r", "t", "c">>, <<"c", "a", "t">>,
                 <<"l", "s">>, <<"c", "a", "b">>, <<"l", "s", "x", "y">>,
                 <<"r", "t">> }

MCReadSizes == {1, 2, 3}

\* lib.c's memcpy (Lib): destinations at each alignment 0 .. 3, copies of
\* 0 to 9 bytes (below, at and over one and two dwords) in 25 bytes of
\* memory.  Lib's printf constants are those of MCKernel.
Lb == INSTANCE Lib WITH WIDTH <- 30,
                         Words <- {0, 1, 10, 14, 2^28, 2^29 - 1, 2^29, 2^30 - 1},
                         Strings <- {<<>>, <<"h", "i">>}, Chars <- {"q"},
                         MaxTokens <- 2, MemSize <- 25, MaxCopy <- 9

\* The memcpy check over all its alignments and sizes: a constant,
\* evaluated once.
MemcpyChecked == Lb!MemcpyCopies

\* memcpy, through which read_dentry_by_index and read_dentry_by_name copy
\* a directory entry, copies exactly n bytes to dest and writes nothing
\* else, at every alignment.  Stated in every state of the FDT.
MemcpyCopies == DOMAIN fdt = Fds /\ MemcpyChecked
=============================================================================
