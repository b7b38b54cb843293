------------------------------ MODULE FdTable -------------------------------
(***************************************************************************)
(* What a program's file descriptors promise, as spec 4.B and 4.E state    *)
(* it, without the FDT layout, the operation tables or the data blocks.    *)
(* Each descriptor from 2 up is closed or open on a directory entry with   *)
(* a kind and a position:                                                  *)
(*   - open takes the lowest closed descriptor for the entry with exactly  *)
(*     that name, its kind given by the entry's type;                      *)
(*   - a file read moves the position by n bytes, never past the end;     *)
(*   - a directory read moves it by one entry, never past the last;        *)
(*   - close closes, and a new program starts with every one closed.       *)
(* Anything else (a failed call, a write, an RTC or terminal read) leaves  *)
(* the descriptors as they are.                                            *)
(***************************************************************************)
EXTENDS Integers, Sequences, FiniteSetsExt

CONSTANTS FDT_SIZE, Dentries, InodeLength, OpenNames, ReadSizes

VARIABLE open

UserFd == 2 .. FDT_SIZE - 1

Closed == [kind |-> "closed", ino |-> 0, pos |-> 0]

\* Spec 3: entry type 0 is the RTC, 1 a directory, 2 a regular file.
KindOf(type) == CASE type = 0 -> "rtc" [] type = 1 -> "dir" [] OTHER -> "file"

Named(name) == {i \in 1 .. Len(Dentries) : Dentries[i].name = name}

FreeFds == {fd \in UserFd : open[fd] = Closed}

AInit == open = [fd \in UserFd |-> Closed]

AExecute == open' = [fd \in UserFd |-> Closed]

AOpen(name) ==
    /\ Named(name) # {}
    /\ FreeFds # {}
    /\ LET d == Dentries[Min(Named(name))]
       IN  open' = [open EXCEPT ![Min(FreeFds)] =
                      [kind |-> KindOf(d.type), ino |-> d.inode, pos |-> 0]]

ARead(fd, n) ==
    LET e == open[fd]
        last == IF e.kind = "file" THEN InodeLength[e.ino] ELSE Len(Dentries)
        step == IF e.kind = "file" THEN n ELSE 1
    IN  /\ e.kind \in {"file", "dir"}
        /\ open' = [open EXCEPT ![fd].pos = IF @ + step > last THEN last
                                            ELSE @ + step]

AClose(fd) ==
    /\ open[fd] # Closed
    /\ open' = [open EXCEPT ![fd] = Closed]

ANext ==
    \/ AExecute
    \/ \E name \in OpenNames : AOpen(name)
    \/ \E fd \in UserFd, n \in ReadSizes : ARead(fd, n)
    \/ \E fd \in UserFd : AClose(fd)

ASpec == AInit /\ [][ANext]_open

=============================================================================
