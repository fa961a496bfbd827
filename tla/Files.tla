------------------------------- MODULE Files -------------------------------
(***************************************************************************)
(* The system calls on files of kernel/syscall.c: the table fds[], which   *)
(* all processes share, the static buffer tmp through which SYS_read goes, *)
(* and the read of the keyboard.  The disk is the current directory as     *)
(* fat32_read_file, fat32_write_file and fat32_stat show it (module Fat32  *)
(* has what is below).  A call on files is one step: a user process that   *)
(* is preempted inside one is not resumed (module Process).                *)
(***************************************************************************)
EXTENDS Integers, Sequences

CONSTANTS
    MAX_FDS,        \* entries of fds[]
    Names,          \* names of files in the current directory
    Byte,           \* values of a byte
    Buffers,        \* what programs write
    Foreign,        \* whatever lies in memory in front of tmp
    TMP,            \* size of tmp
    WORD,           \* 2^32: int and uint32_t are modulo WORD
    MaxLine,        \* bound: the count of a read of the keyboard
    Keys, NL, ETX   \* the keys, '\n' and ^C among them

ASSUME FilesAssumption ==
    /\ MAX_FDS \in Nat /\ MAX_FDS > 3
    /\ {TMP, MaxLine} \subseteq Nat
    /\ WORD \in Nat /\ WORD % 2 = 0 /\ TMP < WORD \div 2
    /\ Buffers \subseteq Seq(Byte) /\ Foreign \notin Byte
    /\ \A b \in Buffers : Len(b) < WORD \div 2

VARIABLES
    disk,           \* the directory: the content of each name, or NoFile
    fds,            \* the table
    tmp,            \* the buffer of SYS_read
    from, got,      \* history: the position a descriptor was set to, what it read since
    stdin,          \* the SYS_read of the keyboard in progress
    owed            \* history: keys taken from the ring that no program has got

vars == <<disk, fds, tmp, from, got, stdin, owed>>
kbvars == <<stdin, owed>>

NoFile == <<Foreign>>           \* the content of a name that is not there
Fds == 3 .. MAX_FDS - 1
FdRange == 0 .. MAX_FDS         \* descriptors a program passes; MAX_FDS is too large
Counts == 0 .. TMP + 1          \* counts a program passes
Offsets == {-1, 0, 1, TMP + 1}  \* offsets it passes to lseek
Lesser(a, b) == IF a < b THEN a ELSE b

(* A value as int.                                                         *)
AsInt(v) == LET u == v % WORD IN IF u < WORD \div 2 THEN u ELSE u - WORD

Exists(n) == disk[n] # NoFile
Size(n) == IF Exists(n) THEN Len(disk[n]) ELSE 0
Open(fd) == fd \in Fds /\ fds[fd].used
Idle == stdin.left = 0          \* no program is inside a read of the keyboard

Init ==
    /\ disk = [n \in Names |-> NoFile]
    /\ \E n \in Names : fds = [fd \in Fds |-> [used |-> FALSE, name |-> n, pos |-> 0]]
    /\ tmp = [i \in 0 .. TMP - 1 |-> Foreign]
    /\ from = [fd \in Fds |-> 0] /\ got = [fd \in Fds |-> <<>>]
    /\ stdin = [left |-> 0, buf |-> <<>>]
    /\ owed = <<>>

-----------------------------------------------------------------------------
(* Open, close, seek                                                       *)

Restart(fd, p) ==       \* what fd reads from now on starts at p
    /\ from' = [from EXCEPT ![fd] = p]
    /\ got' = [got EXCEPT ![fd] = <<>>]

alloc_fd == {fd \in Fds : ~fds[fd].used}

(* SYS_open neither looks for the file nor creates it; the names of        *)
(* devices give 0, 1 or 2 and change nothing.                              *)
SysOpen(n) ==
    /\ Idle
    /\ alloc_fd # {}
    /\ LET fd == CHOOSE f \in alloc_fd : \A g \in alloc_fd : f <= g IN
       /\ fds' = [fds EXCEPT ![fd] = [used |-> TRUE, name |-> n, pos |-> 0]]
       /\ Restart(fd, 0)
    /\ UNCHANGED <<disk, tmp, kbvars>>

close_fd(fd) ==
    /\ Idle
    /\ fd \in Fds
    /\ fds' = [fds EXCEPT ![fd].used = FALSE]
    /\ UNCHANGED <<disk, tmp, from, got, kbvars>>

(* The end of any process closes the descriptors of all of them.           *)
fds_cleanup ==
    /\ Idle
    /\ fds' = [fd \in Fds |-> [fds[fd] EXCEPT !.used = FALSE]]
    /\ UNCHANGED <<disk, tmp, from, got, kbvars>>

Seeked(fd, off, whence) ==
    CASE whence = 0                             -> off % WORD
      [] whence = 1                             -> (fds[fd].pos + off) % WORD
      [] whence = 2 /\ Exists(fds[fd].name)     -> (Size(fds[fd].name) + off) % WORD
      [] OTHER                                  -> fds[fd].pos

SysLseek(fd, off, whence) ==
    /\ Idle
    /\ Open(fd)
    /\ fds' = [fds EXCEPT ![fd].pos = Seeked(fd, off, whence)]
    /\ Restart(fd, Seeked(fd, off, whence))
    /\ UNCHANGED <<disk, tmp, kbvars>>

-----------------------------------------------------------------------------
(* Read                                                                    *)

(* fat32_read_file(name, tmp, TMP): the bytes it stores.                   *)
fat32_read_file(n) == Lesser(TMP, Size(n))

Loaded(n) ==
    [i \in DOMAIN tmp |-> IF i < fat32_read_file(n) THEN disk[n][i + 1] ELSE tmp[i]]

(* Mutant: the bound is the size of tmp, not what was read.                *)
ReadLengthWhole(fd, count) == Lesser(count, AsInt(TMP - AsInt(fds[fd].pos)))

(* The bytes copied to the program, from int off = pos.                    *)
ReadLength(fd, count) ==
    Lesser(count, AsInt(fat32_read_file(fds[fd].name) - AsInt(fds[fd].pos)))

Copied(buf, off, n) ==
    [i \in 1 .. n |-> IF off + i - 1 \in DOMAIN buf THEN buf[off + i - 1] ELSE Foreign]

(* Without the file the call fails; past the end it returns 0.             *)
SysRead(fd, count) ==
    /\ Idle
    /\ Open(fd) /\ Exists(fds[fd].name)
    /\ LET n == ReadLength(fd, count)
           loaded == Loaded(fds[fd].name)
       IN  /\ tmp' = loaded
           /\ IF n < 0 THEN UNCHANGED <<fds, got>>
              ELSE /\ got' = [got EXCEPT ![fd] = @ \o Copied(loaded, AsInt(fds[fd].pos), n)]
                   /\ fds' = [fds EXCEPT ![fd].pos = (@ + n) % WORD]
    /\ UNCHANGED <<disk, from, kbvars>>

-----------------------------------------------------------------------------
(* Calls that change the directory                                         *)

(* Name n has new content: descriptors on it read that from where they are.*)
Changed(n, f) ==
    LET on == {fd \in Fds : fds[fd].name = n} IN
    /\ disk' = [disk EXCEPT ![n] = f]
    /\ from' = [fd \in Fds |-> IF fd \in on THEN fds[fd].pos ELSE from[fd]]
    /\ got' = [fd \in Fds |-> IF fd \in on THEN <<>> ELSE got[fd]]

(* The whole file becomes the buffer, wherever the position is, and a      *)
(* directory too (a full disk is in module Fat32).                         *)
SysWrite(fd, bytes) ==
    /\ Idle
    /\ Open(fd) /\ Exists(fds[fd].name)
    /\ Changed(fds[fd].name, bytes)
    /\ UNCHANGED <<fds, tmp, kbvars>>

(* fat32_create_file and fat32_mkdir, of a name that is not there: both    *)
(* read as an empty file.                                                  *)
Create(n) ==
    /\ Idle
    /\ ~Exists(n)
    /\ Changed(n, <<>>)
    /\ UNCHANGED <<fds, tmp, kbvars>>

(* SYS_unlink, and SYS_rmdir2 where it succeeds.                           *)
SysUnlink(n) ==
    /\ Idle
    /\ Exists(n)
    /\ Changed(n, NoFile)
    /\ UNCHANGED <<fds, tmp, kbvars>>

-----------------------------------------------------------------------------
(* The read of the keyboard: each key is stored as it comes.               *)

StdinCall(count) ==
    /\ Idle
    /\ stdin' = [left |-> count, buf |-> <<>>]
    /\ UNCHANGED <<disk, fds, tmp, from, got, owed>>

(* Mutant: the newline ends the call without i++.                          *)
ReturnedShort(k) == IF k \in {NL, ETX} THEN stdin.buf ELSE Append(stdin.buf, k)

(* The bytes the call has returned if it ends with key k: the newline is   *)
(* counted, ^C is not.                                                     *)
Returned(k) == IF k = ETX THEN stdin.buf ELSE Append(stdin.buf, k)

(* What is left of the keys that were taken when the program gets bytes.   *)
Delivered(taken, bytes) ==
    IF Len(bytes) <= Len(taken) /\ bytes = SubSeq(taken, 1, Len(bytes))
    THEN SubSeq(taken, Len(bytes) + 1, Len(taken)) ELSE taken

StdinKey(k) ==
    /\ ~Idle
    /\ LET taken == IF k = ETX THEN owed ELSE Append(owed, k)
           ends == k \in {NL, ETX} \/ stdin.left = 1
       IN  /\ stdin' = IF ends THEN [left |-> 0, buf |-> <<>>]
                       ELSE [left |-> stdin.left - 1, buf |-> Append(stdin.buf, k)]
           /\ owed' = IF ends THEN Delivered(taken, Returned(k)) ELSE taken
    /\ UNCHANGED <<disk, fds, tmp, from, got>>

-----------------------------------------------------------------------------
(* Calls that tell and change nothing                                      *)

(* The size SYS_stat and SYS_lstat tell, or -1.                            *)
SysStat(n) == IF Exists(n) THEN Size(n) ELSE -1

(* SYS_fstat looks the name up again: the file may be gone.                *)
SysFstat(fd) ==
    CASE Open(fd)           -> SysStat(fds[fd].name)
      [] fd \in 0 .. 2      -> 0
      [] OTHER              -> -1

-----------------------------------------------------------------------------
Next ==
    \/ \E n \in Names : SysOpen(n) \/ Create(n) \/ SysUnlink(n)
    \/ fds_cleanup
    \/ \E fd \in FdRange :
          \/ close_fd(fd)
          \/ \E off \in Offsets, whence \in 0 .. 3 : SysLseek(fd, off, whence)
          \/ \E count \in Counts : SysRead(fd, count)
          \/ \E bytes \in Buffers : SysWrite(fd, bytes)
    \/ \E count \in 1 .. MaxLine : StdinCall(count)
    \/ \E k \in Keys : StdinKey(k)

Spec == Init /\ [][Next]_vars

-----------------------------------------------------------------------------
(* Whatever the other descriptors and processes do in between, consecutive *)
(* reads return the bytes of the file one after the other, from where the  *)
(* descriptor was opened or set: none twice, none missing, none left in    *)
(* tmp from another file, none behind the size that SYS_fstat tells.  Not  *)
(* where lseek has made the position negative as an int.                   *)
ReadsExact ==
    \A fd \in Fds :
        fds[fd].used /\ AsInt(from[fd]) >= 0 /\ got[fd] # <<>> =>
            /\ fds[fd].pos <= SysFstat(fd)
            /\ got[fd] = SubSeq(disk[fds[fd].name], from[fd] + 1, fds[fd].pos)

(* A program that reads the keyboard gets every key that left the ring, in *)
(* order and once, over calls of any length; only ^C is not counted.       *)
KeysReturned == Idle => owed = <<>>

=============================================================================
