---------------------------- MODULE FilesProofs ----------------------------
(***************************************************************************)
(* The file system calls are exact for every size of the buffer tmp, every *)
(* width of int and every number of descriptors.                           *)
(***************************************************************************)
EXTENDS Files, SequenceTheorems, TLAPS

Positions == 0 .. WORD - 1
Contents == Seq(Byte \union {Foreign})

-----------------------------------------------------------------------------
(* Arithmetic of int and uint32_t                                          *)

LEMMA Sizes ==
    /\ WORD \in Nat /\ TMP \in Nat /\ WORD \div 2 \in Nat
    /\ WORD = 2 * (WORD \div 2) /\ TMP < WORD \div 2 /\ 0 < WORD
BY FilesAssumption

(* The remainder of what is at most one turn away.                         *)
LEMMA ModWord ==
    ASSUME NEW v \in Int
    PROVE  /\ v % WORD \in Positions
           /\ v \in Positions => v % WORD = v
           /\ v + WORD \in Positions => v % WORD = v + WORD
<1> USE Sizes
<1>1. v % WORD \in Positions
  BY DEF Positions
<1>2. v \in Positions => v % WORD = v
  BY DEF Positions
<1>3. ASSUME v + WORD \in Positions PROVE v % WORD = v + WORD
  <2>1. (v + WORD) % WORD = v + WORD
    BY <1>3 DEF Positions
  <2> QED
    BY <1>3, <2>1 DEF Positions
<1> QED
  BY <1>1, <1>2, <1>3

(* A value of half a turn either way is kept by the conversion to int.     *)
LEMMA AsIntKeeps ==
    ASSUME NEW v \in Int, -(WORD \div 2) <= v, v < WORD \div 2
    PROVE  AsInt(v) = v
<1> USE Sizes
<1>1. CASE v >= 0
  <2>1. v % WORD = v
    BY <1>1, ModWord DEF Positions
  <2> QED
    BY <1>1, <2>1 DEF AsInt
<1>2. CASE v < 0
  <2>1. v % WORD = v + WORD
    BY <1>2, ModWord DEF Positions
  <2> QED
    BY <1>2, <2>1 DEF AsInt
<1> QED
  BY <1>1, <1>2

(* A position that is not negative as an int is below half a turn.         *)
LEMMA AsIntPositive ==
    ASSUME NEW v \in Positions, AsInt(v) >= 0
    PROVE  v < WORD \div 2
<1>1. v % WORD = v
  BY Sizes, ModWord DEF Positions
<1> QED
  BY Sizes, <1>1 DEF AsInt, Positions

(* The bytes SYS_read copies lie inside what it has loaded.                *)
LEMMA InsideLoaded ==
    ASSUME NEW pos \in Nat, NEW rd \in Nat, NEW n \in Int, n > 0,
           pos < WORD \div 2, rd < WORD \div 2, n <= AsInt(rd - AsInt(pos))
    PROVE  AsInt(pos) = pos /\ pos + n <= rd /\ (pos + n) % WORD = pos + n
<1>1. AsInt(pos) = pos
  BY Sizes, AsIntKeeps
<1>2. AsInt(rd - pos) = rd - pos
  <2>1. rd - pos \in Int /\ -(WORD \div 2) <= rd - pos /\ rd - pos < WORD \div 2
    BY Sizes
  <2> QED
    BY <2>1, AsIntKeeps
<1>3. pos + n <= rd
  BY <1>1, <1>2
<1>4. pos + n \in Positions
  BY <1>3, Sizes DEF Positions
<1> QED
  BY <1>1, <1>3, <1>4, ModWord DEF Positions

-----------------------------------------------------------------------------
(* The inductive invariant                                                 *)

Short == {b \in Seq(Byte) : Len(b) < WORD \div 2}
Entry == [used : BOOLEAN, name : Names, pos : Positions]

VarsOK ==
    /\ disk \in [Names -> Short \union {NoFile}]
    /\ fds \in [Fds -> Entry]
    /\ tmp \in [0 .. TMP - 1 -> Byte \union {Foreign}]
    /\ from \in [Fds -> Positions]
    /\ got \in [Fds -> Contents]
    /\ stdin \in [left : Nat, buf : Seq(Keys)]
    /\ owed \in Seq(Keys)

(* What a descriptor has read is the file between where it was set and     *)
(* where it is, and it has not moved if it has read nothing.               *)
Exact(fd) ==
    LET e == fds[fd]
        d == disk[e.name]
    IN  e.used /\ AsInt(from[fd]) >= 0 =>
          /\ got[fd] = <<>> => e.pos = from[fd]
          /\ got[fd] # <<>> => /\ d # NoFile
                               /\ from[fd] <= e.pos /\ e.pos <= Len(d)
                               /\ got[fd] = SubSeq(d, from[fd] + 1, e.pos)

(* The keys that are owed are those in the buffer of the call in progress. *)
KeysOwed == owed = IF Idle THEN <<>> ELSE stdin.buf

IInv == VarsOK /\ KeysOwed /\ \A fd \in Fds : Exact(fd)

LEMMA InitInv == Init => IInv
<1> SUFFICES ASSUME Init PROVE IInv
  OBVIOUS
<1>1. 0 \in Positions /\ <<>> \in Contents
  BY Sizes DEF Positions, Contents
<1>2. VarsOK
  BY <1>1 DEF Init, VarsOK, Entry
<1>3. KeysOwed /\ \A fd \in Fds : Exact(fd)
  BY DEF Init, KeysOwed, Idle, Exact
<1> QED
  BY <1>2, <1>3 DEF IInv

(* A descriptor that is set to a position, or that has a new file there,   *)
(* has read nothing yet.                                                   *)
LEMMA OpenInv ==
    ASSUME IInv, NEW n \in Names, SysOpen(n)
    PROVE  IInv'
<1> DEFINE fd == CHOOSE f \in alloc_fd : \A g \in alloc_fd : f <= g
<1>1. 0 \in Positions /\ <<>> \in Contents
  BY Sizes DEF Positions, Contents
<1>2. /\ fds' = [fds EXCEPT ![fd] = [used |-> TRUE, name |-> n, pos |-> 0]]
      /\ from' = [from EXCEPT ![fd] = 0] /\ got' = [got EXCEPT ![fd] = <<>>]
      /\ UNCHANGED <<disk, tmp, stdin, owed>>
  BY DEF SysOpen, Restart, kbvars
<1> HIDE DEF fd
<1>3. VarsOK'
  BY <1>1, <1>2 DEF IInv, VarsOK, Entry
<1>4. ASSUME NEW g \in Fds PROVE Exact(g)'
  <2>1. CASE g = fd
    BY <1>2, <2>1 DEF IInv, VarsOK, Exact, Entry
  <2>2. CASE g # fd
    BY <1>2, <2>2 DEF IInv, VarsOK, Exact, Entry
  <2> QED
    BY <2>1, <2>2
<1> QED
  BY <1>2, <1>3, <1>4 DEF IInv, KeysOwed, Idle

LEMMA CloseInv ==
    ASSUME IInv, fds_cleanup \/ \E fd \in FdRange : close_fd(fd)
    PROVE  IInv'
<1>1. /\ \A g \in Fds : fds'[g] = fds[g] \/ fds'[g] = [fds[g] EXCEPT !.used = FALSE]
      /\ fds' = [g \in Fds |-> fds'[g]]
      /\ UNCHANGED <<disk, tmp, from, got, stdin, owed>>
  <2>1. CASE fds_cleanup
    BY <2>1 DEF fds_cleanup, kbvars
  <2>2. CASE \E fd \in FdRange : close_fd(fd)
    BY <2>2 DEF close_fd, kbvars, IInv, VarsOK
  <2> QED
    BY <2>1, <2>2
<1>2. VarsOK'
  <2>1. \A g \in Fds : fds'[g] \in Entry
    BY <1>1 DEF IInv, VarsOK, Entry
  <2> QED
    BY <1>1, <2>1 DEF IInv, VarsOK
<1>3. ASSUME NEW g \in Fds PROVE Exact(g)'
  BY <1>1 DEF IInv, VarsOK, Exact, Entry
<1> QED
  BY <1>1, <1>2, <1>3 DEF IInv, KeysOwed, Idle

LEMMA SeekInv ==
    ASSUME IInv, NEW fd \in FdRange, NEW off \in Offsets, NEW whence \in 0 .. 3,
           SysLseek(fd, off, whence)
    PROVE  IInv'
<1> DEFINE p == Seeked(fd, off, whence)
<1>1. p \in Positions
  <2>1. fd \in Fds /\ fds[fd] \in Entry /\ disk[fds[fd].name] \in Short \union {NoFile}
    BY DEF SysLseek, Open, IInv, VarsOK, Entry
  <2>2. off \in Int /\ fds[fd].pos \in Int /\ Size(fds[fd].name) \in Int
    BY <2>1, Sizes DEF Offsets, Entry, Positions, Size, Exists, Short
  <2>3. off % WORD \in Positions /\ (fds[fd].pos + off) % WORD \in Positions
        /\ (Size(fds[fd].name) + off) % WORD \in Positions
    BY <2>2, ModWord
  <2> QED
    BY <2>1, <2>3 DEF Seeked, Entry
<1>2. /\ fds' = [fds EXCEPT ![fd].pos = p]
      /\ from' = [from EXCEPT ![fd] = p] /\ got' = [got EXCEPT ![fd] = <<>>]
      /\ UNCHANGED <<disk, tmp, stdin, owed>>
  BY DEF SysLseek, Restart, kbvars
<1> HIDE DEF p
<1>3. VarsOK'
  <2>1. <<>> \in Contents
    BY DEF Contents
  <2> QED
    BY <1>1, <1>2, <2>1 DEF IInv, VarsOK, Entry
<1>4. ASSUME NEW g \in Fds PROVE Exact(g)'
  <2>1. CASE g = fd
    BY <1>2, <2>1 DEF IInv, VarsOK, Exact, Entry
  <2>2. CASE g # fd
    BY <1>2, <2>2 DEF IInv, VarsOK, Exact, Entry
  <2> QED
    BY <2>1, <2>2
<1> QED
  BY <1>2, <1>3, <1>4 DEF IInv, KeysOwed, Idle

(* A name gets new content, or none.                                       *)
LEMMA ChangeInv ==
    ASSUME IInv, NEW n \in Names, NEW f \in Short \union {NoFile}, Changed(n, f),
           UNCHANGED <<fds, tmp, kbvars>>
    PROVE  IInv'
<1>1. VarsOK'
  <2>1. <<>> \in Contents
    BY DEF Contents
  <2> QED
    BY <2>1 DEF IInv, VarsOK, Changed, Entry, kbvars
<1>2. ASSUME NEW g \in Fds PROVE Exact(g)'
  <2>1. CASE fds[g].name = n
    BY <2>1 DEF IInv, VarsOK, Exact, Entry, Changed
  <2>2. CASE fds[g].name # n
    BY <2>2 DEF IInv, VarsOK, Exact, Entry, Changed
  <2> QED
    BY <2>1, <2>2
<1> QED
  BY <1>1, <1>2 DEF IInv, KeysOwed, Idle, kbvars

(* A part of a sequence followed by the n elements behind it.              *)
LEMMA Extended ==
    ASSUME NEW S, NEW d \in Seq(S), NEW a \in Nat, NEW b \in Nat, NEW n \in Nat,
           a <= b, b + n <= Len(d), NEW t \in Seq(S), Len(t) = n,
           \A i \in 1 .. n : t[i] = d[b + i]
    PROVE  SubSeq(d, a + 1, b) \o t = SubSeq(d, a + 1, b + n)
<1> DEFINE w == SubSeq(d, b + 1, b + n)
<1>1. \A i \in b + 1 .. b + n : d[i] \in S
  <2>1. \A i \in b + 1 .. b + n : i \in 1 .. Len(d)
    BY LenProperties
  <2> QED
    BY <2>1, ElementOfSeq
<1>2. b + 1 \in Int /\ b + n \in Int
  OBVIOUS
<1>3. /\ w \in Seq(S)
      /\ Len(w) = IF b + 1 <= b + n THEN (b + n) - (b + 1) + 1 ELSE 0
      /\ \A i \in 1 .. (b + n) - (b + 1) + 1 : w[i] = d[(b + 1) + i - 1]
  BY <1>1, <1>2, SubSeqProperties
<1> HIDE DEF w
<1>4. Len(w) = n /\ \A i \in 1 .. n : w[i] = d[b + i]
  <2>1. \A i \in 1 .. n : i \in 1 .. (b + n) - (b + 1) + 1 /\ (b + 1) + i - 1 = b + i
    OBVIOUS
  <2> QED
    BY <1>3, <2>1
<1>5. t = w
  BY <1>3, <1>4, SeqEqual
<1>6. /\ a + 1 \in 1 .. Len(d) + 1 /\ b \in (a + 1) - 1 .. Len(d)
      /\ b + n \in b .. Len(d)
  BY LenProperties
<1>7. SubSeq(d, a + 1, b) \o w = SubSeq(d, a + 1, b + n)
  BY <1>6, ConcatAdjacentSubSeq DEF w
<1> QED
  BY <1>5, <1>7

(* The two cases of nothing: a part of no length, and nothing appended.    *)
LEMMA EmptyPart ==
    ASSUME NEW S, NEW d \in Seq(S), NEW a \in Nat
    PROVE  SubSeq(d, a + 1, a) = <<>>
BY SMT

LEMMA NotEmpty ==
    ASSUME NEW S, NEW s \in Seq(S), NEW t \in Seq(S), Len(t) > 0
    PROVE  s \o t # <<>>
<1>1. Len(s \o t) = Len(s) + Len(t) /\ Len(s) \in Nat /\ Len(t) \in Nat
  OBVIOUS
<1>2. Len(<<>>) = 0
  OBVIOUS
<1> QED
  BY <1>1, <1>2

(* SYS_read goes on exactly where the descriptor is.                       *)
LEMMA ReadInv ==
    ASSUME IInv, NEW fd \in FdRange, NEW count \in Counts, SysRead(fd, count)
    PROVE  IInv'
<1> USE Sizes
<1> DEFINE e == fds[fd]
           d == disk[e.name]
           rd == fat32_read_file(e.name)
           n == ReadLength(fd, count)
           new == Copied(Loaded(e.name), AsInt(e.pos), n)
<1>1. fd \in Fds /\ e \in Entry /\ e.used /\ e.name \in Names /\ d \in Short /\ d # NoFile
  BY DEF SysRead, Open, Exists, IInv, VarsOK, Entry
<1>2. /\ d \in Seq(Byte) /\ Len(d) \in Nat /\ Len(d) < WORD \div 2
      /\ rd = IF TMP < Len(d) THEN TMP ELSE Len(d)
  BY <1>1 DEF fat32_read_file, Lesser, Size, Exists, Short
<1>3. e.pos \in Positions /\ AsInt(e.pos) \in Int /\ count \in Nat
  BY <1>1, ModWord DEF Entry, AsInt, Counts, Positions
<1>4. n \in Int /\ n <= count /\ n <= AsInt(rd - AsInt(e.pos))
  <2>1. rd - AsInt(e.pos) \in Int
    BY <1>2, <1>3
  <2>2. AsInt(rd - AsInt(e.pos)) \in Int
    BY <2>1, ModWord DEF AsInt, Positions
  <2> QED
    BY <1>3, <2>2 DEF ReadLength, Lesser
<1>5. /\ Loaded(e.name) \in [0 .. TMP - 1 -> Byte \union {Foreign}]
      /\ \A i \in 0 .. rd - 1 : Loaded(e.name)[i] = d[i + 1]
  <2>1. DOMAIN tmp = 0 .. TMP - 1 /\ \A i \in 0 .. TMP - 1 : tmp[i] \in Byte \union {Foreign}
    BY DEF IInv, VarsOK
  <2>2. \A i \in 0 .. TMP - 1 : i < rd => i + 1 \in 1 .. Len(d) /\ d[i + 1] \in Byte
    BY <1>2
  <2> QED
    BY <1>2, <2>1, <2>2 DEF Loaded
<1>6. /\ tmp' = Loaded(e.name) /\ UNCHANGED <<disk, from, stdin, owed>>
      /\ IF n < 0 THEN UNCHANGED <<fds, got>>
         ELSE /\ got' = [got EXCEPT ![fd] = @ \o new]
              /\ fds' = [fds EXCEPT ![fd].pos = (@ + n) % WORD]
  BY DEF SysRead, kbvars
<1>7. ASSUME n >= 0 PROVE new \in Contents /\ Len(new) = n
  <2>1. \A i \in 1 .. n : AsInt(e.pos) + i - 1 \in 0 .. TMP - 1 =>
                             Loaded(e.name)[AsInt(e.pos) + i - 1] \in Byte \union {Foreign}
    BY <1>5
  <2>2. \A i \in 1 .. n : new[i] \in Byte \union {Foreign}
    BY <1>5, <2>1 DEF Copied
  <2>3. new = [i \in 1 .. n |-> new[i]]
    BY DEF Copied
  <2> HIDE DEF new
  <2> QED
    BY <1>4, <1>7, <2>2, <2>3 DEF Contents
<1>8. ASSUME AsInt(from[fd]) >= 0, n > 0
      PROVE  /\ e.pos + n <= Len(d) /\ (e.pos + n) % WORD = e.pos + n
             /\ from[fd] <= e.pos
             /\ got[fd] = SubSeq(d, from[fd] + 1, e.pos)
             /\ \A i \in 1 .. n : new[i] = d[e.pos + i]
  <2>1. from[fd] \in Positions /\ from[fd] < WORD \div 2 /\ got[fd] \in Contents
    BY <1>1, <1>8, AsIntPositive DEF IInv, VarsOK
  <2>2. /\ got[fd] = <<>> => e.pos = from[fd]
        /\ got[fd] # <<>> => /\ from[fd] <= e.pos /\ e.pos <= Len(d)
                             /\ got[fd] = SubSeq(d, from[fd] + 1, e.pos)
    BY <1>1, <1>8 DEF IInv, Exact
  <2>3. from[fd] <= e.pos /\ e.pos < WORD \div 2
    <3>1. e.pos \in Nat /\ from[fd] \in Nat /\ Len(d) < WORD \div 2 /\ Len(d) \in Nat
      BY <1>2, <1>3, <2>1 DEF Positions
    <3> HIDE DEF d, e
    <3> QED
      BY <2>1, <2>2, <3>1
  <2>4. e.pos \in Nat /\ rd \in Nat /\ rd <= Len(d) /\ rd <= TMP /\ rd < WORD \div 2
    BY <1>2, <1>3 DEF Positions
  <2>6. AsInt(e.pos) = e.pos /\ e.pos + n <= rd /\ (e.pos + n) % WORD = e.pos + n
    <3> HIDE DEF e, rd, n
    <3> QED
      BY <1>4, <1>8, <2>3, <2>4, InsideLoaded
  <2>8. got[fd] = SubSeq(d, from[fd] + 1, e.pos)
    <3>1. CASE got[fd] = <<>>
      <4>1. from[fd] \in Nat /\ d \in Seq(Byte)
        BY <1>2, <2>1 DEF Positions
      <4>2. SubSeq(d, from[fd] + 1, from[fd]) = <<>>
        BY <4>1, EmptyPart
      <4> QED
        BY <2>2, <3>1, <4>2
    <3> QED
      BY <2>2, <3>1
  <2>9. ASSUME NEW i \in 1 .. n PROVE new[i] = d[e.pos + i]
    <3>1. e.pos + i - 1 \in 0 .. rd - 1 /\ e.pos + i - 1 \in 0 .. TMP - 1
      <4> HIDE DEF e, rd, n
      <4> QED
        BY <1>4, <2>4, <2>6
    <3>2. new[i] = Loaded(e.name)[e.pos + i - 1]
      BY <1>5, <2>6, <3>1 DEF Copied
    <3>3. Loaded(e.name)[e.pos + i - 1] = d[(e.pos + i - 1) + 1]
      BY <1>5, <3>1
    <3> QED
      BY <1>3, <3>2, <3>3 DEF Positions
  <2> HIDE DEF new, n, rd, d, e
  <2>10. e.pos + n <= Len(d)
    BY <1>2, <1>4, <2>4, <2>6
  <2> QED
    BY <2>3, <2>6, <2>8, <2>9, <2>10
<1> HIDE DEF new, n, rd
<1>a. ASSUME n >= 0
      PROVE  got' = [got EXCEPT ![fd] = got[fd] \o new]
             /\ fds' = [fds EXCEPT ![fd].pos = (e.pos + n) % WORD]
  BY <1>4, <1>6, <1>a
<1>9. VarsOK'
  <2>1. CASE n < 0
    BY <1>5, <1>6, <2>1 DEF IInv, VarsOK
  <2>2. CASE n >= 0
    <3>1. (e.pos + n) % WORD \in Positions
      BY <1>3, <1>4, ModWord DEF Positions
    <3>2. got[fd] \in Contents /\ got[fd] \o new \in Contents
      BY <1>1, <1>7, <2>2 DEF IInv, VarsOK, Contents
    <3>4. got' \in [Fds -> Contents] /\ fds' \in [Fds -> Entry]
      BY <1>a, <2>2, <3>1, <3>2 DEF IInv, VarsOK, Entry
    <3> QED
      BY <1>5, <1>6, <3>4 DEF IInv, VarsOK
  <2> QED
    BY <1>4, <2>1, <2>2
<1>10. ASSUME NEW g \in Fds PROVE Exact(g)'
  <2>1. CASE n < 0
    BY <1>6, <2>1 DEF IInv, Exact
  <2>2. CASE n >= 0 /\ g # fd
    BY <1>6, <2>2 DEF IInv, VarsOK, Exact, Entry
  <2>3. CASE n = 0 /\ g = fd
    <3>1. new = <<>> /\ got[fd] \in Contents /\ got \in [Fds -> Contents]
      BY <1>1, <1>7, <2>3 DEF Contents, IInv, VarsOK
    <3>2. got[fd] \o new = got[fd]
      BY <3>1 DEF Contents
    <3>3. (e.pos + n) % WORD = e.pos
      BY <1>3, <2>3, ModWord DEF Positions
    <3>4. got'[fd] = got[fd] /\ fds'[fd] = fds[fd]
      BY <1>1, <1>6, <2>3, <3>1, <3>2, <3>3 DEF IInv, VarsOK, Entry
    <3> QED
      BY <1>6, <2>3, <3>4 DEF IInv, Exact
  <2>4. CASE n > 0 /\ g = fd
    <3>1. SUFFICES ASSUME AsInt(from[fd]) >= 0
                   PROVE  /\ got'[fd] # <<>> => /\ from[fd] <= fds'[fd].pos
                                                /\ fds'[fd].pos <= Len(d)
                                                /\ got'[fd] = SubSeq(d, from[fd] + 1, fds'[fd].pos)
                          /\ got'[fd] # <<>>
                          /\ fds'[fd].name = e.name
      BY <1>1, <1>6, <2>4 DEF Exact
    <3>2. /\ got'[fd] = got[fd] \o new /\ fds'[fd].name = e.name
          /\ fds'[fd].pos = (e.pos + n) % WORD
      <4>1. n >= 0
        BY <1>4, <2>4
      <4>2. got \in [Fds -> Contents] /\ fds \in [Fds -> Entry]
        BY DEF IInv, VarsOK
      <4> QED
        BY <1>1, <1>a, <4>1, <4>2 DEF Entry
    <3>3. got[fd] \in Contents /\ d \in Contents /\ from[fd] \in Positions
      BY <1>1, <1>2 DEF IInv, VarsOK, Contents
    <3>4. /\ new \in Contents /\ Len(new) = n /\ n \in Nat /\ n > 0
          /\ from[fd] \in Nat /\ e.pos \in Nat
      BY <1>3, <1>4, <1>7, <2>4, <3>3 DEF Positions
    <3>5. /\ e.pos + n <= Len(d) /\ (e.pos + n) % WORD = e.pos + n
          /\ from[fd] <= e.pos /\ got[fd] = SubSeq(d, from[fd] + 1, e.pos)
          /\ \A i \in 1 .. n : new[i] = d[e.pos + i]
      BY <1>8, <2>4, <3>1
    <3> HIDE DEF d, e
    <3>6. SubSeq(d, from[fd] + 1, e.pos) \o new = SubSeq(d, from[fd] + 1, e.pos + n)
      <4> DEFINE S == Byte \union {Foreign}
      <4>1. d \in Seq(S) /\ new \in Seq(S)
        BY <3>3, <3>4 DEF Contents
      <4> DEFINE a == from[fd]
                 b == e.pos
      <4>2. a \in Nat /\ b \in Nat /\ n \in Nat /\ Len(new) = n
        BY <3>4
      <4>3. a <= b /\ b + n <= Len(d) /\ \A i \in 1 .. n : new[i] = d[b + i]
        BY <3>5
      <4> HIDE DEF S, a, b
      <4>4. SubSeq(d, a + 1, b) \o new = SubSeq(d, a + 1, b + n)
        BY ONLY <4>1, <4>2, <4>3, Extended
      <4> QED
        BY <4>4 DEF a, b
    <3>7. got[fd] \o new # <<>>
      BY <3>3, <3>4, NotEmpty DEF Contents
    <3>8. from[fd] <= e.pos + n
      BY <3>4, <3>5
    <3> QED
      BY <3>2, <3>5, <3>6, <3>7, <3>8
  <2> QED
    BY <1>4, <2>1, <2>2, <2>3, <2>4
<1> QED
  BY <1>6, <1>9, <1>10 DEF IInv, KeysOwed, Idle


(* SYS_write, fat32_create_file, fat32_mkdir and SYS_unlink.               *)
LEMMA DirectoryInv ==
    ASSUME IInv,
           \/ \E n \in Names : Create(n) \/ SysUnlink(n)
           \/ \E fd \in FdRange, bytes \in Buffers : SysWrite(fd, bytes)
    PROVE  IInv'
<1>1. <<>> \in Short /\ Buffers \subseteq Short
  BY FilesAssumption, Sizes, EmptySeq DEF Short
<1>2. ASSUME NEW n \in Names, Create(n) PROVE IInv'
  BY <1>1, <1>2, ChangeInv DEF Create
<1>3. ASSUME NEW n \in Names, SysUnlink(n) PROVE IInv'
  BY <1>3, ChangeInv DEF SysUnlink
<1>4. ASSUME NEW fd \in FdRange, NEW bytes \in Buffers, SysWrite(fd, bytes) PROVE IInv'
  <2>1. fds[fd].name \in Names
    BY <1>4 DEF SysWrite, Open, IInv, VarsOK, Entry
  <2> QED
    BY <1>1, <1>4, <2>1, ChangeInv DEF SysWrite
<1> QED
  BY <1>2, <1>3, <1>4

(* Keys that are handed over as they were taken leave nothing behind.      *)
LEMMA AllDelivered ==
    ASSUME NEW s \in Seq(Keys)
    PROVE  Delivered(s, s) = <<>>
<1>1. SubSeq(s, 1, Len(s)) = s /\ Len(s) \in Nat
  BY SubSeqFull, LenProperties
<1>2. SubSeq(s, Len(s) + 1, Len(s)) = <<>>
  BY <1>1, SubSeqEmpty
<1> QED
  BY <1>1, <1>2 DEF Delivered

LEMMA StdinInv ==
    ASSUME IInv,
           \/ \E count \in 1 .. MaxLine : StdinCall(count)
           \/ \E k \in Keys : StdinKey(k)
    PROVE  IInv'
<1>1. ASSUME NEW count \in 1 .. MaxLine, StdinCall(count) PROVE IInv'
  <2>1. UNCHANGED <<disk, fds, tmp, from, got, owed>> /\ stdin' = [left |-> count, buf |-> <<>>]
    BY <1>1 DEF StdinCall
  <2>2. VarsOK' /\ KeysOwed'
    BY <1>1, <2>1, FilesAssumption DEF IInv, VarsOK, KeysOwed, StdinCall, Idle
  <2> QED
    BY <2>1, <2>2 DEF IInv, Exact
<1>2. ASSUME NEW k \in Keys, StdinKey(k) PROVE IInv'
  <2> DEFINE taken == IF k = ETX THEN owed ELSE Append(owed, k)
             ends == k \in {NL, ETX} \/ stdin.left = 1
  <2>1. /\ stdin.left # 0 /\ owed = stdin.buf /\ owed \in Seq(Keys)
        /\ stdin.left \in Nat
    BY <1>2 DEF IInv, VarsOK, KeysOwed, StdinKey, Idle
  <2>2. /\ UNCHANGED <<disk, fds, tmp, from, got>>
        /\ stdin' = IF ends THEN [left |-> 0, buf |-> <<>>]
                    ELSE [left |-> stdin.left - 1, buf |-> Append(stdin.buf, k)]
        /\ owed' = IF ends THEN Delivered(taken, Returned(k)) ELSE taken
    BY <1>2 DEF StdinKey
  <2>3. taken \in Seq(Keys) /\ taken = Returned(k)
    BY <2>1 DEF Returned
  <2>4. CASE ends
    <3>1. owed' = <<>> /\ stdin' = [left |-> 0, buf |-> <<>>]
      BY <2>2, <2>3, <2>4, AllDelivered
    <3>2. VarsOK' /\ KeysOwed'
      <4>1. <<>> \in Seq(Keys)
        BY EmptySeq
      <4> HIDE DEF taken, ends
      <4>2. UNCHANGED <<disk, fds, tmp, from, got>> /\ stdin'.left = 0
        BY <2>2, <3>1
      <4>3. stdin' \in [left : Nat, buf : Seq(Keys)] /\ owed' \in Seq(Keys)
        BY <3>1, <4>1
      <4> QED
        BY <3>1, <4>2, <4>3 DEF IInv, VarsOK, KeysOwed, Idle
    <3> QED
      BY <2>2, <3>2 DEF IInv, Exact
  <2>5. CASE ~ends
    <3>1. /\ owed' = Append(owed, k) /\ owed' \in Seq(Keys)
          /\ stdin' = [left |-> stdin.left - 1, buf |-> Append(owed, k)]
          /\ stdin.left - 1 \in Nat /\ stdin.left - 1 # 0
      BY <2>1, <2>2, <2>3, <2>5
    <3>2. VarsOK' /\ KeysOwed'
      BY <2>2, <3>1 DEF IInv, VarsOK, KeysOwed, Idle
    <3> QED
      BY <2>2, <3>2 DEF IInv, Exact
  <2> QED
    BY <2>4, <2>5
<1> QED
  BY <1>1, <1>2

LEMMA Inductive == IInv /\ [Next]_vars => IInv'
<1> SUFFICES ASSUME IInv, [Next]_vars PROVE IInv'
  OBVIOUS
<1>1. CASE UNCHANGED vars
  BY <1>1 DEF vars, kbvars, IInv, VarsOK, KeysOwed, Idle, Exact
<1>2. CASE Next
  BY <1>2, OpenInv, CloseInv, SeekInv, ReadInv, DirectoryInv, StdinInv DEF Next
<1> QED
  BY <1>1, <1>2

LEMMA Invariance == Spec => []IInv
<1> QED
  BY InitInv, Inductive, PTL DEF Spec

(* Consecutive reads return the bytes of the file one after the other,     *)
(* whatever the other descriptors and processes do in between: for every   *)
(* size of tmp that is an int, every width of int and every content.       *)
THEOREM ReadsAreExact == Spec => []ReadsExact
<1>1. IInv => ReadsExact
  <2> SUFFICES ASSUME IInv, NEW fd \in Fds, fds[fd].used, AsInt(from[fd]) >= 0,
                      got[fd] # <<>>
               PROVE  /\ fds[fd].pos <= SysFstat(fd)
                      /\ got[fd] = SubSeq(disk[fds[fd].name], from[fd] + 1, fds[fd].pos)
    BY DEF ReadsExact
  <2>1. /\ disk[fds[fd].name] # NoFile /\ fds[fd].pos <= Len(disk[fds[fd].name])
        /\ got[fd] = SubSeq(disk[fds[fd].name], from[fd] + 1, fds[fd].pos)
    BY DEF IInv, Exact
  <2>2. SysFstat(fd) = Len(disk[fds[fd].name])
    <3>1. Open(fd) /\ fd \notin 0 .. 2
      BY FilesAssumption DEF Open, Fds
    <3>2. SysStat(fds[fd].name) = Len(disk[fds[fd].name])
      BY <2>1 DEF SysStat, Exists, Size
    <3> QED
      BY <3>1, <3>2 DEF SysFstat
  <2> QED
    BY <2>1, <2>2
<1> QED
  BY <1>1, Invariance, PTL

(* A program that reads the keyboard gets every key that left the ring, in *)
(* order and once, over calls of any length.                               *)
THEOREM KeysAreReturned == Spec => []KeysReturned
<1>1. IInv => KeysReturned
  BY DEF IInv, KeysOwed, KeysReturned
<1> QED
  BY <1>1, Invariance, PTL

=============================================================================
