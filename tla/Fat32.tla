------------------------------- MODULE Fat32 -------------------------------
(***************************************************************************)
(* The FAT32 driver (fs/fat32.c): the FAT, the directory sectors and the   *)
(* data sectors of a disk, and the operations of one caller, cut at every  *)
(* sector that they write.  What an operation reads before a write belongs *)
(* to the step of that write.  A call that returns before it has written   *)
(* anything is a stuttering step.                                          *)
(*                                                                         *)
(* A cluster is one sector, as on the disk.img that the Makefile formats.  *)
(* Only the first copy of the FAT exists here: the code writes no other.   *)
(***************************************************************************)
EXTENDS Integers, Sequences, FiniteSets

CONSTANTS
  Last,        \* the last cluster of the disk; clusters are numbered from 2
  RootMax,     \* the most clusters that the root directory has when mounted
  SlotCount,   \* directory entries in a sector (16)
  SectorSize,  \* bytes in a sector (512)
  Byte,        \* values of a byte
  Buffers,     \* what callers write into files
  FileNames,   \* the names that callers give to files ...
  DirNames,    \* ... and to directories
  Cut,         \* what name_to_83 makes of the printed part of each name
  STACK        \* names that fat32_get_cwd_name has room for (16)

ASSUME DiskAssumption ==
  /\ Last \in Nat /\ RootMax \in Nat \ {0} /\ RootMax < Last
  /\ SlotCount \in Nat /\ SlotCount > 2
  /\ SectorSize \in Nat \ {0} /\ STACK \in Nat
  /\ 0 \in Byte /\ Buffers \subseteq Seq(Byte)

Unused  == "0x00"    \* first byte of the name of a slot that was never used
Deleted == "0xE5"    \* ... and of one whose entry was deleted
Dots    == {".", ".."}

ASSUME NameAssumption ==
  /\ (FileNames \cup DirNames) \cap (Dots \cup {Unused, Deleted}) = {}
  /\ FileNames \cap DirNames = {}

Names    == FileNames \cup DirNames   \* as name_to_83 leaves them
Clusters == 2..Last
EOC      == Last + 1   \* stands for the end marks 0x0FFFFFF8 and above
Root     == 2          \* boot.root_cluster
SlotIx   == 0..(SlotCount - 1)
Blank    == [i \in SlotIx |-> [name |-> Unused, dir |-> FALSE,
                               clus |-> 0, size |-> 0]]
Zeros    == [i \in 0..(SectorSize - 1) |-> 0]

VARIABLES
  fat,   \* the File Allocation Table
  dir,   \* each sector read as a directory
  data,  \* each sector read as bytes of a file
  cwd,   \* current_dir_cluster
  pc,    \* the write that the operation under way makes next
  job,   \* its locals
  misused   \* a caller has treated "." or ".." or a directory as a file, or a
            \* file as a directory (see Misuse): history, the code has no such

disk == <<fat, dir, data, cwd, pc, job>>
vars == <<fat, dir, data, cwd, pc, job, misused>>

NoJob == [name |-> Unused, buf |-> <<>>, first |-> 0, cur |-> 0, new |-> 0,
          off |-> 0, slot |-> <<0, 0>>]

\* A formatted disk with an empty root directory.
Init ==
  /\ \E len \in 1..RootMax :
       fat = [c \in Clusters |-> IF c <= len THEN c + 1
                                 ELSE IF c = len + 1 THEN EOC ELSE 0]
  /\ dir = [c \in Clusters |-> Blank]
  /\ data = [c \in Clusters |-> Zeros]
  /\ cwd = Root
  /\ pc = "idle"
  /\ job = NoJob
  /\ misused = FALSE

-----------------------------------------------------------------------------
\* The lowest cluster whose FAT entry is zero, or 0 (fat_find_free).
FindFree ==
  LET free == {c \in Clusters : fat[c] = 0}
  IN  IF free = {} THEN 0 ELSE CHOOSE c \in free : \A d \in free : c <= d

fat_write_entry(c, value) == fat' = [fat EXCEPT ![c] = value]

\* The clusters that a loop over a chain visits from c on: it stays at the
\* first number that is no cluster.
Walk(c) ==
  LET w[k \in 0..(Last - 2)] ==
        IF k = 0 THEN c
        ELSE IF w[k - 1] \in Clusters THEN fat[w[k - 1]] ELSE w[k - 1]
  IN  w

At(p)  == dir[p[1]][p[2]]
NoSlot == <<0, 0>>

Slots == Clusters \X SlotIx

\* The first slot of directory d, in the order of its chain, that is in P.
Search(d, P) ==
  LET w    == Walk(d)
      hits == {h \in (0..(Last - 2)) \X SlotIx : <<w[h[1]], h[2]>> \in P}
      h    == CHOOSE x \in hits : \A y \in hits :
                 x[1] < y[1] \/ (x[1] = y[1] /\ x[2] <= y[2])
  IN  IF hits = {} THEN NoSlot ELSE <<w[h[1]], h[2]>>

Named(ns) == {p \in Slots : At(p).name \in ns}

\* find_entry gives up at the first unused slot ...
find_entry(d, n) ==
  LET p == Search(d, Named({n, Unused}))
  IN  IF p # NoSlot /\ At(p).name = n THEN p ELSE NoSlot

\* ... which the loops that look an entry up to rewrite it do not.
EntryNamed(d, n) == Search(d, Named({n}))
DirNamed(d, n)   == Search(d, {p \in Named({n}) : At(p).dir})
VacantSlot(d)    == Search(d, Named({Unused, Deleted}))

\* ata_write_sector of a directory sector or of file data: the sector no
\* longer holds what the other reading saw.
WriteSlot(p, e) ==
  /\ dir' = [dir EXCEPT ![p[1]][p[2]] = e]
  /\ data' = [data EXCEPT ![p[1]] = Zeros]

WriteBytes(c, bytes) ==
  /\ data' = [data EXCEPT ![c] = bytes]
  /\ dir' = [dir EXCEPT ![c] = Blank]

Idle   == pc = "idle"
Return == pc' = "idle" /\ job' = NoJob

NewEntry(n, d) == [name |-> n, dir |-> d, clus |-> 0, size |-> 0]

-----------------------------------------------------------------------------
(* Operations that write one sector at most. *)

create_entry_at(d, n, isdir) ==
  /\ VacantSlot(d) # NoSlot
  /\ WriteSlot(VacantSlot(d), NewEntry(n, isdir))

fat32_create_file(n) ==
  /\ Idle
  /\ create_entry_at(cwd, n, FALSE)
  /\ UNCHANGED <<fat, cwd, pc, job>>

\* Mutant: the slot is marked as if it had never been used.
EraseUnused(e) == [e EXCEPT !.name = Unused]

\* Only the name is marked.
Erase(e) == [e EXCEPT !.name = Deleted]

\* The clusters stay allocated, and a directory is deleted like a file.
delete_entry_at(d, n) ==
  LET p == find_entry(d, n) IN
  /\ p # NoSlot
  /\ WriteSlot(p, Erase(At(p)))

fat32_delete_file(n) ==
  /\ Idle
  /\ delete_entry_at(cwd, n)
  /\ UNCHANGED <<fat, cwd, pc, job>>

fat32_rename(old, new) ==
  LET p == EntryNamed(cwd, old) IN
  /\ Idle
  /\ p # NoSlot
  /\ WriteSlot(p, [At(p) EXCEPT !.name = new])
  /\ UNCHANGED <<fat, cwd, pc, job>>

\* With a leading slash the search starts in the root, and stays there when
\* it fails.
ChangeDirTo(start, n) ==
  LET p == find_entry(start, n)
  IN  IF p = NoSlot \/ ~At(p).dir THEN start
      ELSE IF At(p).clus = 0 THEN Root ELSE At(p).clus

fat32_change_dir(n, absolute) ==
  /\ Idle
  /\ cwd' = ChangeDirTo(IF absolute THEN Root ELSE cwd, n)
  /\ UNCHANGED <<fat, dir, data, pc, job>>

\* The machine is started again: fat32_init.
fat32_init ==
  /\ cwd' = Root
  /\ Return
  /\ UNCHANGED <<fat, dir, data>>

Restart == Idle /\ fat32_init

-----------------------------------------------------------------------------
(* fat32_write_file.  f is what fat_find_free returns to it. *)

fat32_write_file(n, b, f) ==
  LET p     == find_entry(cwd, n)
      first == IF At(p).clus = 0 THEN f ELSE At(p).clus IN
  /\ Idle
  /\ p # NoSlot
  /\ first # 0
  /\ IF At(p).clus = 0 THEN fat_write_entry(f, EOC) ELSE UNCHANGED fat
  /\ pc' = IF b = <<>> THEN "entry" ELSE "data"
  /\ job' = [NoJob EXCEPT !.name = n, !.buf = b, !.first = first, !.cur = first]
  /\ UNCHANGED <<dir, data, cwd>>

\* How much of the rest of the buffer goes into this cluster.
ToWrite(left) == IF left < SectorSize THEN left ELSE SectorSize

\* Mutant: the part of a sector at the end of the buffer is not stored.
StoredWhole(n) ==
  IF n < SectorSize THEN data[job.cur]
  ELSE [i \in 0..(SectorSize - 1) |-> job.buf[job.off + i + 1]]

\* The sector after n bytes of the buffer were stored; a part of a sector is
\* read, changed and written.
Stored(n) ==
  [i \in 0..(SectorSize - 1) |->
     IF i < n THEN job.buf[job.off + i + 1] ELSE data[job.cur][i]]

\* One turn of write_chain's loop: the data, then the next cluster.  next is
\* what fat_read_entry returns.
WriteData(next) ==
  LET n    == ToWrite(Len(job.buf) - job.off)
      done == job.off + n = Len(job.buf)
      link == next \in {0, EOC} IN
  /\ pc = "data"
  /\ WriteBytes(job.cur, Stored(n))
  /\ pc' = IF done THEN "entry" ELSE IF link THEN "link" ELSE "data"
  /\ job' = [job EXCEPT !.off = @ + n,
                        !.cur = IF done \/ link THEN @ ELSE next]
  /\ UNCHANGED <<fat, cwd>>

\* The chain is too short: a free cluster is linked to it ...
WriteLink(f) ==
  /\ pc = "link"
  /\ f # 0
  /\ fat_write_entry(job.cur, f)
  /\ pc' = "mark"
  /\ job' = [job EXCEPT !.new = f]
  /\ UNCHANGED <<dir, data, cwd>>

\* Mutant: the new cluster is not marked.
WriteMarkForgotten ==
  /\ pc = "mark"
  /\ pc' = "data"
  /\ job' = [job EXCEPT !.cur = job.new, !.new = 0]
  /\ UNCHANGED <<fat, dir, data, cwd>>

\* ... and then marked as the end of the chain.
WriteMark ==
  /\ pc = "mark"
  /\ fat_write_entry(job.new, EOC)
  /\ pc' = "data"
  /\ job' = [job EXCEPT !.cur = job.new, !.new = 0]
  /\ UNCHANGED <<dir, data, cwd>>

\* Mutant: a failed write records its size nevertheless.
WriteNoSpaceIgnored(f) ==
  /\ pc = "link"
  /\ f = 0
  /\ pc' = "entry"
  /\ UNCHANGED <<fat, dir, data, cwd, job>>

\* No cluster is free: the call fails, and what it has written stays.
WriteNoSpace(f) ==
  /\ pc = "link"
  /\ f = 0
  /\ Return
  /\ UNCHANGED <<fat, dir, data, cwd>>

\* The entry gets the size and the first cluster.  It is gone when the data
\* were written over it, as a write to "." does.
WriteEntry ==
  LET p == EntryNamed(cwd, job.name) IN
  /\ pc = "entry"
  /\ IF p = NoSlot THEN UNCHANGED <<dir, data>>
     ELSE WriteSlot(p, [At(p) EXCEPT !.size = Len(job.buf), !.clus = job.first])
  /\ Return
  /\ UNCHANGED <<fat, cwd>>

-----------------------------------------------------------------------------
(* fat32_mkdir: the entry, its cluster, the FAT, the new directory. *)

fat32_mkdir(n, f) ==
  /\ Idle
  /\ f # 0
  /\ find_entry(cwd, n) = NoSlot
  /\ create_entry_at(cwd, n, TRUE)
  /\ pc' = "mkset"
  /\ job' = [NoJob EXCEPT !.name = n, !.new = f]
  /\ UNCHANGED <<fat, cwd>>

\* The entry is there: create_entry_at has just written it.
MkdirSet ==
  LET p == DirNamed(cwd, job.name) IN
  /\ pc = "mkset"
  /\ p # NoSlot
  /\ WriteSlot(p, [At(p) EXCEPT !.clus = job.new])
  /\ pc' = "mkmark"
  /\ UNCHANGED <<fat, cwd, job>>

\* Mutant: the cluster of the new directory is not marked.
MkdirMarkForgotten ==
  /\ pc = "mkmark"
  /\ pc' = "mkinit"
  /\ UNCHANGED <<fat, dir, data, cwd, job>>

MkdirMark ==
  /\ pc = "mkmark"
  /\ fat_write_entry(job.new, EOC)
  /\ pc' = "mkinit"
  /\ UNCHANGED <<dir, data, cwd, job>>

\* Mutant: ".." is the directory itself.
DotEntriesSelf(self, parent) ==
  [Blank EXCEPT ![0] = [NewEntry(".", TRUE) EXCEPT !.clus = self],
                ![1] = [NewEntry("..", TRUE) EXCEPT !.clus = self]]

DotEntries(self, parent) ==
  [Blank EXCEPT ![0] = [NewEntry(".", TRUE) EXCEPT !.clus = self],
                ![1] = [NewEntry("..", TRUE) EXCEPT !.clus = parent]]

MkdirInit ==
  /\ pc = "mkinit"
  /\ dir' = [dir EXCEPT ![job.new] = DotEntries(job.new, cwd)]
  /\ data' = [data EXCEPT ![job.new] = Zeros]
  /\ Return
  /\ UNCHANGED <<fat, cwd>>

-----------------------------------------------------------------------------
(* fat32_rmdir: the FAT, one cluster after the other, then the entry. *)

\* Mutant: the test starts at the fourth entry.
IsEmptyLate(c) ==
  \A i \in SlotIx : i > 2 => dir[c][i].name \in {Unused, Deleted}

\* The emptiness test reads the first sector, from its third entry on.
IsEmpty(c) ==
  \A i \in SlotIx : i >= 2 => dir[c][i].name \in {Unused, Deleted}

fat32_rmdir(n) ==
  LET p == EntryNamed(cwd, n) IN
  /\ Idle
  /\ p # NoSlot
  /\ At(p).dir
  /\ At(p).clus # 0 => IsEmpty(At(p).clus)
  /\ pc' = IF At(p).clus # 0 THEN "free" ELSE "erase"
  /\ job' = [NoJob EXCEPT !.slot = p, !.cur = At(p).clus]
  /\ UNCHANGED <<fat, dir, data, cwd>>

\* Mutant: the loop does not go on to the next cluster.
RmdirFreeStuck(next) ==
  /\ pc = "free"
  /\ fat_write_entry(job.cur, 0)
  /\ pc' = IF job.cur \in Clusters THEN "free" ELSE "erase"
  /\ UNCHANGED <<dir, data, cwd, job>>

RmdirFree(next) ==
  /\ pc = "free"
  /\ fat_write_entry(job.cur, 0)
  /\ pc' = IF next \in Clusters THEN "free" ELSE "erase"
  /\ job' = [job EXCEPT !.cur = next]
  /\ UNCHANGED <<dir, data, cwd>>

RmdirErase ==
  /\ pc = "erase"
  /\ WriteSlot(job.slot, Erase(At(job.slot)))
  /\ Return
  /\ UNCHANGED <<fat, cwd>>

-----------------------------------------------------------------------------
\* What callers do with files and with directories.
Call ==
  \/ \E n \in FileNames : fat32_create_file(n)
  \/ \E n \in Names : fat32_delete_file(n)
  \/ \E o, n \in FileNames : fat32_rename(o, n)
  \/ \E o, n \in DirNames : fat32_rename(o, n)
  \/ \E n \in Names \cup Dots, a \in BOOLEAN : fat32_change_dir(n, a)
  \/ \E n \in FileNames, b \in Buffers : fat32_write_file(n, b, FindFree)
  \/ \E n \in DirNames : fat32_mkdir(n, FindFree)
  \/ \E n \in DirNames : fat32_rmdir(n)

Step ==
  \/ WriteData(fat[job.cur])
  \/ WriteLink(FindFree)
  \/ WriteMark
  \/ WriteNoSpace(FindFree)
  \/ WriteEntry
  \/ MkdirSet
  \/ MkdirMark
  \/ MkdirInit
  \/ RmdirFree(fat[job.cur])
  \/ RmdirErase

\* The other calls that the driver accepts.  Programs can make those of
\* SYS_write, SYS_unlink, SYS_mkdir2 and SYS_rmdir2, which pass any path; the
\* driver treats "." and ".." as names like any other, and looks at the
\* attribute of an entry only in fat32_change_dir, fat32_mkdir and fat32_rmdir.
Misuse ==
  \/ \E n \in DirNames \cup Dots : fat32_create_file(n)
  \/ \E n \in Dots : fat32_delete_file(n)
  \/ \E o, n \in Names \cup Dots : /\ ~({o, n} \subseteq FileNames)
                                  /\ ~({o, n} \subseteq DirNames)
                                  /\ fat32_rename(o, n)
  \/ \E n \in DirNames \cup Dots, b \in Buffers : fat32_write_file(n, b, FindFree)
  \/ \E n \in FileNames \cup Dots : fat32_mkdir(n, FindFree)
  \/ \E n \in FileNames \cup Dots : fat32_rmdir(n)

Proper == Call \/ Step \/ Restart

Next ==
  \/ Proper /\ UNCHANGED misused
  \/ Misuse /\ misused' = TRUE

Spec == Init /\ [][Next]_vars

\* The processor goes on with an operation that it has begun.
FairSpec == Spec /\ WF_disk(Step)
-----------------------------------------------------------------------------
(* Properties.  They hold as long as callers have used the driver properly.  *)
(* Afterwards they do not: rmdir("..") from a directory in the root frees    *)
(* the root, because IsEmpty skips two entries that are no dot entries there.*)

Live(e) == e.name \in Names
Entries == {p \in Slots : Live(At(p))}
Files   == {p \in Entries : ~At(p).dir}

\* Everything on the disk that leads to cluster c: links of the FAT, and
\* entries of directories.
Refs(c) == {<<a, -1>> : a \in {a \in Clusters : fat[a] = c}}
             \cup {p \in Entries : At(p).clus = c}

\* What fat32_read_file returns for the entry at p and a buffer that is large
\* enough (read_chain).
ChainLength(c) == Cardinality({k \in 0..(Last - 2) : Walk(c)[k] \in Clusters})

Content(p) ==
  LET most == SectorSize * ChainLength(At(p).clus)
      len  == IF At(p).size < most THEN At(p).size ELSE most
      w    == Walk(At(p).clus)
  IN  [i \in 1..len |-> data[w[(i - 1) \div SectorSize]][(i - 1) % SectorSize]]

\* The directory that ".." in the first sector of c names (fat32_get_cwd_name).
Parent(c) ==
  LET up == {i \in SlotIx : dir[c][i].name = ".."}
      i  == CHOOSE x \in up : \A y \in up : x <= y
  IN  IF up = {} \/ dir[c][i].clus = 0 THEN Root ELSE dir[c][i].clus

\* The directories that its loop climbs through, from the current one up.
Climb ==
  LET up[k \in 0..Last] ==
        IF k = 0 THEN cwd
        ELSE IF up[k - 1] = Root THEN Root ELSE Parent(up[k - 1])
  IN  up

\* The entry of directory d whose name it prints for the directory at c ...
EntryFor(d, c) ==
  Search(d, {p \in Slots : At(p).name \notin {Unused, Deleted} /\ At(p).clus = c})

\* ... and what a caller who reads that name back has: it is printed up to its
\* first space, and the dot before the extension is not printed at all.
Printed(p) == Cut[At(p).name]

\* The entries that list_dir_at shows for directory d: it stops at the first
\* unused slot, like find_entry.
list_dir_at(d) ==
  {p \in Slots : /\ At(p).name \notin {Unused, Deleted}
                 /\ Search(d, Named({Unused}) \cup {p}) = p}

\* Those that fat32_match_prefix returns, in the same order, when the names in
\* ns are the ones that have the prefix and the array is long enough.
fat32_match_prefix(ns, d) ==
  {p \in list_dir_at(d) : At(p).name \in ns}

\* No cluster belongs to two chains: at most one link or entry leads to it,
\* and none leads back to the root directory, at every write of every
\* operation.
NoCrossLink ==
  ~misused => /\ \A c \in Clusters : \A r, q \in Refs(c) : r = q
              /\ Refs(Root) = {}

\* Between operations no link and no entry leads to a cluster that
\* fat_find_free would hand out, and neither does current_dir_cluster.
NoDangling ==
  ~misused /\ Idle => \A c \in Clusters : Refs(c) # {} \/ c = cwd => fat[c] # 0

\* The chain of a file is long enough for its size, also after writes that
\* ran out of space: a file of which stat reports n bytes can be read to the
\* n-th.
SizeCovered ==
  ~misused => \A p \in Files : At(p).size <= SectorSize * ChainLength(At(p).clus)

\* A directory knows itself and the directory it is in, so that "cd .." after
\* "cd D" comes back, whatever was renamed, deleted and made again meanwhile.
TreeOK ==
  ~misused /\ Idle => \A p \in Entries : At(p).dir =>
    LET c == At(p).clus
    IN  /\ c # 0
        /\ dir[c][0].name = "." /\ dir[c][0].clus = c
        /\ dir[c][1].name = ".."
        /\ \E k \in 0..(Last - 2) : Walk(dir[c][1].clus)[k] = p[1]

\* Nothing is hidden: every entry in the chain of a directory comes before its
\* first unused slot, so that ls shows it and the completion of its name finds
\* it, whatever was deleted, removed and made again in the same slots.
NothingHidden ==
  ~misused /\ Idle => \A p \in Entries : \A d \in {Root, cwd} :
    (\E k \in 0..(Last - 2) : Walk(d)[k] = p[1]) => p \in fat32_match_prefix({At(p).name}, d)

\* The path that "cd" prints (fat32_get_cwd_name).  Going up by ".." arrives at
\* the root.  If that takes no more levels than the array of names has room for
\* (the code does not check), a name is found for each level, and going down
\* again by the names as they are printed leads through the same directories,
\* also when renaming has made names ambiguous.  Where a name is printed in
\* part, because it has an extension or a space, nothing is claimed.
PathRight ==
  ~misused /\ Idle =>
    /\ Climb[Last] = Root
    /\ (\E k \in 0..Last : k <= STACK /\ Climb[k] = Root) =>
         \A k \in 1..Last : Climb[k - 1] # Root =>
           LET p == EntryFor(Climb[k], Climb[k - 1])
           IN  /\ p # NoSlot
               /\ Printed(p) = At(p).name =>
                    ChangeDirTo(Climb[k], Printed(p)) = Climb[k - 1]

\* A write changes what is read back from the file it was called for and from
\* no other file, even one of the same name behind it in the directory; no
\* other operation changes the content of any file.
Isolation ==
  [][\A p \in Files : ~misused' /\ p \in Files' /\ ~(pc \in {"data", "entry"}
                                        /\ p = EntryNamed(cwd, job.name))
        => Content(p)' = Content(p)]_vars

\* When fat32_write_file succeeds the file reads back as the buffer, whatever
\* the lengths of the buffer and of the chain the file had before.
ReadBack ==
  [][\A p \in Slots : /\ ~misused' /\ pc = "entry" /\ pc' = "idle"
                      /\ p = EntryNamed(cwd, job.name)
        => Content(p)' = job.buf]_vars

\* fat32_rmdir frees a cluster only if nothing is lost with it: it holds no
\* entry of a file or directory, and it is neither the root nor the current
\* directory.
OnlyEmptyFreed ==
  [][\A c \in Clusters : ~misused' /\ fat[c] # 0 /\ fat'[c] = 0
        => c \notin {Root, cwd} /\ \A i \in SlotIx : ~Live(dir[c][i])]_vars

\* Every operation ends: the loops that write (the turns of write_chain, the
\* freeing of fat32_rmdir) do not run on along a chain.
OperationsEnd == pc # "idle" ~> pc = "idle" \/ misused
=============================================================================
