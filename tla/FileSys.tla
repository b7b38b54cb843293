------------------------------ MODULE FileSys -------------------------------
(***************************************************************************)
(* The read-only file system (file_system.c) and the file descriptor       *)
(* system calls open, read, write and close (system_calls.c) of one        *)
(* process.  A process's FDT is private to it, so the FDTs of different    *)
(* processes do not interact and one is enough.  Each call is atomic.      *)
(*                                                                         *)
(* The image is a constant: Dentries is the boot block's directory,        *)
(* InodeLength and InodeBlocks the inodes, and byte k of data block b is   *)
(* the number Byte(b, k), so a byte read from the wrong place is told      *)
(* apart.  Names are sequences of one-character strings; the C string of   *)
(* a name ends in NUL.                                                     *)
(*   fdt[fd]      pcb->fdt[fd]: enabled flag, operations table, inode,     *)
(*                file_position                                            *)
(*   args_bit     bit 0 of pcb->args[12], which is where fdt[FDT_SIZE]     *)
(*                would keep flags.enabled: the FDT is followed by args    *)
(*   dispatched   the operations table the last read, write or close went  *)
(*                through (auxiliary)                                      *)
(*   lastRead, lastDir, lastOpen   what the last file read, directory read *)
(*                and open returned (auxiliary)                            *)
(***************************************************************************)
EXTENDS Integers, SequencesExt

CONSTANTS
    FILE_NAME_SIZE,    \* file_system.h: 32
    BLOCK_SIZE_BYTES,  \* file_system.h: 4096
    FDT_SIZE,          \* system_calls.h: 8
    Dentries,          \* directory entries [name, type, inode], in order
    InodeLength,       \* inode -> length_in_bytes
    InodeBlocks,       \* inode -> data_block_indices, a sequence
    OpenNames,         \* file names programs pass to open
    ReadSizes,         \* nbytes programs pass to read
    ArgsPtr,           \* fot_ptr made of argument bytes (model value)
    ArgsReachFdt       \* may a program be given 13 or more argument bytes?

ASSUME ArgsReachFdt \in BOOLEAN

ERROR == -1
NUL == ""
NumDir == Len(Dentries)
Inodes == DOMAIN InodeLength
Fds == 0 .. FDT_SIZE - 1
Ops == {"stdin", "stdout", "file", "dir", "rtc"}
NoOps == "none"

\* The data blocks hold distinct values, so a misplaced read is visible.
Byte(b, k) == 100 * b + k

\* An unused directory slot of the boot block (zero bytes).
EmptyDentry == [name |-> <<>>, type |-> 0, inode |-> 0]
DentrySlot(i) == IF i < NumDir THEN Dentries[i + 1] ELSE EmptyDentry

ClosedEntry == [enabled |-> FALSE, ops |-> NoOps, inode |-> 0, pos |-> 0]
StdEntry(i) == [enabled |-> TRUE, ops |-> IF i = 1 THEN "stdout" ELSE "stdin",
                inode |-> 0, pos |-> 0]

VARIABLES fdt, args_bit, dispatched, lastRead, lastDir, lastOpen

vars == <<fdt, args_bit, dispatched, lastRead, lastDir, lastOpen>>

NoRead == [ino |-> 0, off |-> 0, n |-> 0, got |-> <<>>]
NoDir == [pos |-> -1, name |-> <<>>]
NoOpen == [name |-> <<>>, entry |-> -1, ops |-> NoOps]

\* The records describe the last step only: a step that records none of
\* them clears all three.
Unrecorded == lastRead' = NoRead /\ lastDir' = NoDir /\ lastOpen' = NoOpen

-----------------------------------------------------------------------------
(* lib.c string functions on names *)

\* s[i] of the C string of s.
Ch(s, i) == IF i < Len(s) THEN s[i + 1] ELSE NUL

\* Mutant of strncmp: the loop compares one character fewer (i < n - 1).
RECURSIVE strncmp_short(_, _, _, _)
strncmp_short(s1, s2, n, i) ==
    IF i >= n - 1 THEN 0
    ELSE IF Ch(s1, i) # Ch(s2, i) \/ Ch(s1, i) = NUL
         THEN IF Ch(s1, i) = Ch(s2, i) THEN 0 ELSE 1
         ELSE strncmp_short(s1, s2, n, i + 1)

\* strncmp from index i: 0 when the first n characters agree up to a NUL.
RECURSIVE strncmp(_, _, _, _)
strncmp(s1, s2, n, i) ==
    IF i >= n THEN 0
    ELSE IF Ch(s1, i) # Ch(s2, i) \/ Ch(s1, i) = NUL
         THEN IF Ch(s1, i) = Ch(s2, i) THEN 0 ELSE 1
         ELSE strncmp(s1, s2, n, i + 1)

-----------------------------------------------------------------------------
(* file_system.c *)

\* read_dentry_by_name: names longer than FILE_NAME_SIZE fail; otherwise
\* the first entry whose name compares equal over FILE_NAME_SIZE bytes.
read_dentry_by_name(fname) ==
    LET hits == {i \in 0 .. NumDir - 1 :
                   strncmp(fname, Dentries[i + 1].name, FILE_NAME_SIZE, 0) = 0}
    IN IF Len(fname) > FILE_NAME_SIZE \/ hits = {} THEN ERROR ELSE Min(hits)

\* read_dentry_by_index: the bound check is index > num_dir_entries.
read_dentry_by_index(i) == IF i > NumDir THEN ERROR ELSE i

\* The loop of read_data, one byte per step: stop after length bytes or at
\* the end of the file; when the block offset has reached the block size,
\* move to the next block of the inode first.
RECURSIVE ReadLoop(_, _, _, _, _, _)
ReadLoop(ino, seek, idx, boff, length, acc) ==
    IF Len(acc) >= length \/ seek >= InodeLength[ino] THEN acc
    ELSE LET next == boff = BLOCK_SIZE_BYTES
             idx2 == IF next THEN idx + 1 ELSE idx
             boff2 == IF next THEN 0 ELSE boff
         IN ReadLoop(ino, seek + 1, idx2, boff2 + 1, length,
                     Append(acc, Byte(InodeBlocks[ino][idx2 + 1], boff2)))

\* Mutant of read_data: the start ignores the offset within the block.
read_data_nooffset(ino, off, length) ==
    ReadLoop(ino, off, off \div BLOCK_SIZE_BYTES, 0, length, <<>>)

\* read_data: the bytes copied (their number is the return value).
read_data(ino, off, length) ==
    ReadLoop(ino, off, off \div BLOCK_SIZE_BYTES, off % BLOCK_SIZE_BYTES,
             length, <<>>)

\* file_read: file_position += rd, the count read_data returned.
FileReadAdvance(pos, got, n) == pos + Len(got)

\* Mutant of the inode lookup in sys_open: the entry's index for its inode.
EntryInode_index(i) == i

\* The inode of directory entry i (file.inode_num).
EntryInode(i) == Dentries[i + 1].inode

-----------------------------------------------------------------------------
(* system_calls.c *)

\* fdt[fd] as the code reads it: past the table lies the args array, and
\* the bytes where flags.enabled would be are argument byte 12.
Slot(fd) == IF fd < FDT_SIZE THEN fdt[fd]
            ELSE [enabled |-> args_bit, ops |-> ArgsPtr, inode |-> 0, pos |-> 0]

\* Mutant of get_new_fd: the search starts at 3.
get_new_fd_from3 ==
    IF \E i \in 3 .. FDT_SIZE - 1 : ~fdt[i].enabled
    THEN Min({i \in 3 .. FDT_SIZE - 1 : ~fdt[i].enabled})
    ELSE ERROR

\* get_new_fd: the lowest disabled index from 2, or ERROR.
get_new_fd ==
    IF \E i \in 2 .. FDT_SIZE - 1 : ~fdt[i].enabled
    THEN Min({i \in 2 .. FDT_SIZE - 1 : ~fdt[i].enabled})
    ELSE ERROR

\* The operations sys_open installs: by prefix match against "rtc" over
\* strlen(filename) bytes, then directory entries get dir_fot.
OpsFor(fname, entry) ==
    IF DentrySlot(entry).type = 1 THEN "dir"
    ELSE IF strncmp(fname, <<"r", "t", "c">>, Len(fname), 0) = 0 THEN "rtc"
    ELSE "file"

Init ==
    /\ fdt = [i \in Fds |-> IF i < 2 THEN StdEntry(i) ELSE ClosedEntry]
    /\ args_bit = FALSE
    /\ dispatched = NoOps
    /\ lastRead = NoRead
    /\ lastDir = NoDir
    /\ lastOpen = NoOpen

\* sys_execute of a new program in this PCB: stdin and stdout, every other
\* entry zeroed; the arguments the parent passes land in args.
Execute ==
    /\ fdt' = [i \in Fds |-> IF i < 2 THEN StdEntry(i) ELSE ClosedEntry]
    /\ args_bit' \in IF ArgsReachFdt THEN BOOLEAN ELSE {FALSE}
    /\ Unrecorded
    /\ UNCHANGED dispatched

\* sys_open(fname): dentry lookup, a free descriptor, stdin/stdout
\* re-initialised, the entry filled in; every open function returns 0.
Open(fname) ==
    LET entry == read_dentry_by_name(fname)
        fd == get_new_fd
        ops == OpsFor(fname, entry)
    IN
    /\ entry # ERROR
    /\ fd # ERROR
    /\ fdt' = [i \in Fds |->
                 IF i < 2 THEN StdEntry(i)
                 ELSE IF i = fd
                      THEN [enabled |-> TRUE, ops |-> ops,
                            inode |-> EntryInode(entry), pos |-> 0]
                      ELSE fdt[i]]
    /\ lastOpen' = [name |-> fname, entry |-> entry, ops |-> ops]
    /\ lastRead' = NoRead /\ lastDir' = NoDir
    /\ UNCHANGED <<args_bit, dispatched>>

\* Mutant of dir_read's end test: dir_pos > num_dir.
DirEnd_late(pos) == pos > NumDir

\* dir_read's end test: dir_pos >= num_dir returns 0.
DirEnd(pos) == pos >= NumDir

\* The checks sys_read and sys_write make: fd >= 0 and the entry enabled.
Dispatchable(fd) == fd >= 0 /\ Slot(fd).enabled

\* sys_read(fd, buf, n).  file_read advances file_position by what
\* read_data copied; dir_read returns one name per call and 0 past the
\* end; the terminal and RTC reads leave the FDT alone.
Read(fd, n) ==
    LET e == Slot(fd)
        got == read_data(e.inode, e.pos, n)
    IN
    /\ Dispatchable(fd)
    /\ dispatched' = e.ops
    /\ \/ /\ e.ops = "file"
          /\ fdt' = [fdt EXCEPT ![fd].pos = FileReadAdvance(@, got, n)]
          /\ lastRead' = [ino |-> e.inode, off |-> e.pos, n |-> n, got |-> got]
          /\ lastDir' = NoDir
       \/ /\ e.ops = "dir"
          /\ ~DirEnd(e.pos)
          /\ read_dentry_by_index(e.pos) # ERROR
          /\ fdt' = [fdt EXCEPT ![fd].pos = @ + 1]
          /\ lastDir' = [pos |-> e.pos, name |-> DentrySlot(e.pos).name]
          /\ lastRead' = NoRead
       \/ /\ e.ops = "dir"
          /\ DirEnd(e.pos)
          /\ lastRead' = NoRead /\ lastDir' = NoDir
          /\ UNCHANGED fdt
       \/ /\ e.ops \notin {"file", "dir"}
          /\ lastRead' = NoRead /\ lastDir' = NoDir
          /\ UNCHANGED fdt
    /\ lastOpen' = NoOpen
    /\ UNCHANGED args_bit

\* sys_write(fd, buf, n): only the dispatch; no write changes the FDT.
Write(fd) ==
    /\ Dispatchable(fd)
    /\ dispatched' = Slot(fd).ops
    /\ Unrecorded
    /\ UNCHANGED <<fdt, args_bit>>

\* sys_close(fd): fd >= 2 and enabled; the flag is cleared (for fd past
\* the table, in args), then the close function of the entry is called.
Close(fd) ==
    /\ fd >= 2
    /\ Slot(fd).enabled
    /\ dispatched' = Slot(fd).ops
    /\ IF fd < FDT_SIZE
       THEN /\ fdt' = [fdt EXCEPT ![fd].enabled = FALSE]
            /\ UNCHANGED args_bit
       ELSE /\ args_bit' = FALSE
            /\ UNCHANGED fdt
    /\ Unrecorded

\* A descriptor a program may pass: any index up to one past the table.
UserFds == 0 .. FDT_SIZE

Next ==
    \/ Execute
    \/ \E f \in OpenNames : Open(f)
    \/ \E fd \in UserFds, n \in ReadSizes : Read(fd, n)
    \/ \E fd \in UserFds : Write(fd) \/ Close(fd)

Spec == Init /\ [][Next]_vars

-----------------------------------------------------------------------------
(* Properties *)

Entry == [enabled : BOOLEAN, ops : Ops \cup {NoOps}, inode : Inodes, pos : Nat]

TypeOK ==
    /\ fdt \in [Fds -> Entry]
    /\ args_bit \in BOOLEAN
    /\ dispatched \in Ops \cup {NoOps, ArgsPtr}

\* Spec 4.B: read copies the bytes of the file from the descriptor's
\* position, at most n of them and none past the end, across data block
\* boundaries.  The last file read returned exactly those bytes.
ReadMatchesFile ==
    LET r == lastRead
        FileBytes == FlattenSeq([k \in 1 .. Len(InodeBlocks[r.ino]) |->
                         [j \in 1 .. BLOCK_SIZE_BYTES |->
                            Byte(InodeBlocks[r.ino][k], j - 1)]])
        last == Min({r.off + r.n, InodeLength[r.ino]})
    IN r = NoRead \/ r.got = SubSeq(FileBytes, r.off + 1, last)

\* The descriptors of the FDT as FdTable sees them: an enabled entry is
\* open with the kind of its operation table, its inode and position.
AbsOpen == [fd \in 2 .. FDT_SIZE - 1 |->
              IF fdt[fd].enabled
              THEN [kind |-> fdt[fd].ops, ino |-> fdt[fd].inode,
                    pos |-> fdt[fd].pos]
              ELSE [kind |-> "closed", ino |-> 0, pos |-> 0]]

Abstract == INSTANCE FdTable WITH open <- AbsOpen

\* Spec 4.B/4.E: every sequence of sys_execute, sys_open, sys_read,
\* sys_write and sys_close changes the descriptors only as FdTable
\* allows: the lowest free descriptor for the named entry, reads that
\* advance a file by what is left of n bytes and a directory by one entry,
\* close, and nothing else (no call disturbs another descriptor).
FdTableRefined == Abstract!ASpec

\* Spec 4.B: a directory read returns the entries in order, one per call,
\* and only entries that exist; a directory descriptor never moves past
\* the last entry.
DirReadsInOrder ==
    /\ lastDir = NoDir \/ (lastDir.pos < NumDir /\
                           lastDir.name = Dentries[lastDir.pos + 1].name)
    /\ \A fd \in Fds : fdt[fd].enabled /\ fdt[fd].ops = "dir" =>
          fdt[fd].pos <= NumDir

\* Spec 4.E: open finds the entry with exactly the given name and installs
\* the operations of its type (0 rtc, 1 directory, 2 regular file).
OpenFindsEntry ==
    lastOpen = NoOpen \/
    /\ Dentries[lastOpen.entry + 1].name = lastOpen.name
    /\ lastOpen.ops = CASE Dentries[lastOpen.entry + 1].type = 0 -> "rtc"
                        [] Dentries[lastOpen.entry + 1].type = 1 -> "dir"
                        [] OTHER -> "file"

\* Every read, write and close the kernel dispatches goes through one of
\* the five operation tables of pcb.c.
DispatchThroughTable == dispatched \in Ops \cup {NoOps}

=============================================================================
