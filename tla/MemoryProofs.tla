---------------------------- MODULE MemoryProofs ----------------------------
(***************************************************************************)
(* The slab caches and munmap_all_user on top of the buddy allocator, for  *)
(* every heap size and every set of caches.  Beside the invariant of the   *)
(* buddy allocator (IInv), which munmap_all_user keeps too, the argument   *)
(* needs two things: a slab is an owned block of one page whose objects    *)
(* the free list and the callers share out (SlabOK), and a magic number    *)
(* can be left only where no block begins, apart from a block that is just *)
(* being freed (MagicOK), since list_add overwrites it.                    *)
(***************************************************************************)
EXTENDS Memory, BuddyProofs, FiniteSetTheorems

-----------------------------------------------------------------------------
(* One slab: h is its header, L its links and U the objects that callers   *)
(* hold.  q is the free list.                                              *)

Links(q, first, L) ==
    /\ first = IF Len(q) = 0 THEN NULL ELSE q[1]
    /\ \A i \in 1 .. Len(q) : L[q[i]] = IF i < Len(q) THEN q[i + 1] ELSE NULL

FreeList(q, k, U) ==
    /\ q \in Seq(1 .. Per(k))
    /\ NoDup(q)
    /\ Ran(q) = (1 .. Per(k)) \ U

SlabOK(k, h, L, U) ==
    /\ h.magic /\ h.cache = k
    /\ h.in_use = Cardinality(U)
    /\ U # {} /\ U \subseteq 1 .. Per(k)
    /\ \E q : FreeList(q, k, U) /\ Links(q, h.freelist, L)

Headers == [magic : BOOLEAN, in_use : Int, freelist : {NULL} \union Slots,
            cache : {NULL} \union Caches]

LinkTables == [Slots -> {NULL} \union Slots]

(* A part that is not larger than the whole fits once at least.            *)
LEMMA FitsOnce ==
    ASSUME NEW N \in Nat, NEW k \in 1 .. N
    PROVE  N \div k \in 1 .. N
<1> DEFINE q == N \div k
           r == N % k
<1>1. q \in Int /\ r \in 0 .. (k - 1) /\ N = k * q + r
  OBVIOUS
<1> HIDE DEF q, r
<1>2. q >= 1
  <2>1. SUFFICES ASSUME q <= 0 PROVE FALSE
    BY <1>1
  <2>2. k * q <= 0
    BY <1>1, <2>1
  <2> QED
    BY <1>1, <2>2
<1>3. k * q >= q
  BY <1>1, <1>2
<1>4. q <= N
  BY <1>1, <1>3
<1> QED
  BY <1>1, <1>2, <1>4 DEF q

(* A page has room for one object at least, and for as many as Slots has.  *)
LEMMA PerFacts ==
    /\ \A k \in Caches : Per(k) \in Nat /\ Per(k) >= 1 /\ 1 .. Per(k) \subseteq Slots
    /\ Slots \subseteq Nat /\ IsFiniteSet(Slots) /\ NULL \notin Slots
<1> DEFINE N == FRAME_SIZE - SLAB_HEADER
<1>0. N \in Nat /\ Caches \subseteq 1 .. N
  BY CacheAssumption DEF FRAME_SIZE, SLAB_HEADER
<1>1. \A k \in Caches : Per(k) = N \div k
  BY DEF Per
<1> HIDE DEF N
<1>2. \A k \in Caches : Per(k) \in 1 .. N
  BY <1>0, <1>1, FitsOnce
<1>3. \A k \in Caches : 1 .. Per(k) \subseteq Slots
  BY DEF Slots
<1>4. ASSUME NEW n \in Slots PROVE n \in 1 .. N
  <2>1. PICK k \in Caches : n \in 1 .. Per(k)
    BY DEF Slots
  <2> QED
    BY <1>0, <1>2, <2>1
<1>5. IsFiniteSet(1 .. N)
  BY <1>0, FS_Interval
<1>6. IsFiniteSet(Slots)
  BY <1>4, <1>5, FS_Subset
<1>7. Slots \subseteq Nat /\ 0 \notin Slots
  BY <1>0, <1>4
<1>8. \A k \in Caches : Per(k) \in Nat /\ Per(k) >= 1
  BY <1>0, <1>2
<1> QED
  BY <1>3, <1>6, <1>7, <1>8 DEF NULL

(* The objects of a slab that callers hold are finitely many.              *)
LEMMA UsedFinite ==
    ASSUME NEW k \in Caches, NEW U, U \subseteq 1 .. Per(k)
    PROVE  IsFiniteSet(U) /\ Cardinality(U) \in Nat
<1>1. IsFiniteSet(1 .. Per(k))
  BY PerFacts, FS_Interval
<1> QED
  BY <1>1, FS_Subset, FS_CardinalityType

(* slab_alloc takes the first free object.                                 *)
LEMMA TakeKeeps ==
    ASSUME NEW k \in Caches, NEW h \in Headers, NEW L \in LinkTables, NEW U,
           SlabOK(k, h, L, U), h.freelist # NULL
    PROVE  /\ h.freelist \in (1 .. Per(k)) \ U
           /\ SlabOK(k, Popped(h, L[h.freelist]), L, U \union {h.freelist})
<1> DEFINE n == h.freelist
           g == Popped(h, L[n])
<1>1. PICK q : FreeList(q, k, U) /\ Links(q, n, L)
  BY DEF SlabOK
<1>2. q \in Seq(1 .. Per(k)) /\ Len(q) \in Nat /\ Len(q) # 0 /\ DOMAIN q = 1 .. Len(q) /\ n = q[1]
  BY <1>1 DEF FreeList, Links
<1>3. n \in (1 .. Per(k)) \ U
  BY <1>1, <1>2 DEF FreeList, Ran
<1>4. g.magic /\ g.cache = k /\ g.freelist = L[n] /\ g.in_use = h.in_use + 1
  BY DEF Popped, SlabOK, Headers
<1>5. Cardinality(U \union {n}) = Cardinality(U) + 1
  BY <1>3, UsedFinite, FS_AddElement DEF SlabOK
<1> DEFINE r == Tail(q)
<1>6. /\ r \in Seq(1 .. Per(k)) /\ Len(r) = Len(q) - 1 /\ DOMAIN r = 1 .. (Len(q) - 1)
      /\ \A i \in 1 .. (Len(q) - 1) : r[i] = q[i + 1]
  BY <1>2
<1>7. NoDup(r)
  <2>1. ASSUME NEW i \in DOMAIN r, NEW j \in DOMAIN r, r[i] = r[j] PROVE i = j
    <3>1. i + 1 \in DOMAIN q /\ j + 1 \in DOMAIN q /\ q[i + 1] = q[j + 1]
      BY <1>2, <1>6, <2>1
    <3>2. i + 1 = j + 1
      BY <1>1, <3>1 DEF FreeList, NoDup
    <3> QED
      BY <1>6, <3>2
  <2> QED
    BY <2>1 DEF NoDup
<1>8. Ran(r) = (1 .. Per(k)) \ (U \union {n})
  <2>1. \A i \in DOMAIN r : r[i] \in Ran(q) /\ r[i] # n
    <3>1. \A i \in DOMAIN r : i + 1 \in DOMAIN q /\ i + 1 # 1 /\ r[i] = q[i + 1] /\ 1 \in DOMAIN q
      BY <1>2, <1>6
    <3> QED
      BY <1>1, <1>2, <3>1 DEF FreeList, NoDup, Ran
  <2>2. ASSUME NEW i \in DOMAIN q, q[i] # n PROVE q[i] \in Ran(r)
    <3>1. i - 1 \in DOMAIN r /\ r[i - 1] = q[i]
      BY <1>2, <1>6, <2>2
    <3> QED
      BY <3>1 DEF Ran
  <2>3. Ran(r) = Ran(q) \ {n}
    BY <2>1, <2>2 DEF Ran
  <2> QED
    BY <1>1, <2>3 DEF FreeList
<1>9. Links(r, L[n], L)
  <2>1. L[n] = IF 1 < Len(q) THEN q[2] ELSE NULL
    BY <1>1, <1>2 DEF Links
  <2>2. ASSUME NEW i \in 1 .. Len(r) PROVE L[r[i]] = IF i < Len(r) THEN r[i + 1] ELSE NULL
    <3>1. i + 1 \in 1 .. Len(q) /\ r[i] = q[i + 1] /\ i \in Nat
      BY <1>2, <1>6
    <3>2. L[r[i]] = IF i + 1 < Len(q) THEN q[(i + 1) + 1] ELSE NULL
      BY <1>1, <3>1 DEF Links
    <3>3. CASE i < Len(r)
      BY <1>2, <1>6, <3>1, <3>2, <3>3
    <3>4. CASE ~ (i < Len(r))
      BY <1>2, <1>6, <3>1, <3>2, <3>4
    <3> QED
      BY <3>3, <3>4
  <2>3. L[n] = IF Len(r) = 0 THEN NULL ELSE r[1]
    <3>1. CASE Len(q) = 1
      BY <1>6, <2>1, <3>1
    <3>2. CASE Len(q) # 1
      BY <1>2, <1>6, <2>1, <3>2
    <3> QED
      BY <3>1, <3>2
  <2> QED
    BY <2>2, <2>3 DEF Links
<1>10. FreeList(r, k, U \union {n})
  BY <1>6, <1>7, <1>8 DEF FreeList
<1>11. SlabOK(k, g, L, U \union {n})
  BY <1>3, <1>4, <1>5, <1>9, <1>10 DEF SlabOK
<1> QED
  BY <1>3, <1>11

(* slab_free puts an object in front of the free list.                     *)
LEMMA PushKeeps ==
    ASSUME NEW k \in Caches, NEW h \in Headers, NEW L \in LinkTables, NEW U,
           SlabOK(k, h, L, U), NEW n \in U, Pushed(h, n).in_use # 0
    PROVE  SlabOK(k, Pushed(h, n), [L EXCEPT ![n] = h.freelist], U \ {n})
<1> DEFINE g == Pushed(h, n)
           M == [L EXCEPT ![n] = h.freelist]
<1>1. PICK q : FreeList(q, k, U) /\ Links(q, h.freelist, L)
  BY DEF SlabOK
<1>2. q \in Seq(1 .. Per(k)) /\ Len(q) \in Nat /\ DOMAIN q = 1 .. Len(q)
  BY <1>1 DEF FreeList
<1>3. n \in 1 .. Per(k) /\ n \in Slots /\ n \notin Ran(q)
  BY <1>1, PerFacts DEF FreeList, SlabOK
<1>4. g.magic /\ g.cache = k /\ g.freelist = n /\ g.in_use = h.in_use - 1
  BY DEF Pushed, SlabOK, Headers
<1>5. IsFiniteSet(U) /\ Cardinality(U \ {n}) = Cardinality(U) - 1
  BY UsedFinite, FS_RemoveElement DEF SlabOK
<1>6. U \ {n} # {}
  <2>1. SUFFICES ASSUME U \ {n} = {} PROVE FALSE
    OBVIOUS
  <2>2. Cardinality(U \ {n}) = 0
    BY <2>1, FS_EmptySet
  <2> QED
    BY <1>4, <1>5, <2>2 DEF SlabOK
<1> DEFINE r == list_add(q, n)
<1>7. /\ r \in Seq(1 .. Per(k)) /\ NoDup(r) /\ Ran(r) = Ran(q) \union {n}
  <2>1. NoDup(q)
    BY <1>1 DEF FreeList
  <2> DEFINE S == 1 .. Per(k)
  <2>2. q \in Seq(S) /\ n \in S
    BY <1>2, <1>3
  <2> HIDE DEF S
  <2>3. /\ r \in Seq(S) /\ Ran(r) = Ran(q) \union {n}
        /\ NoDup(q) /\ n \notin Ran(q) => NoDup(r)
    BY <2>2, ListAdd
  <2> QED
    BY <1>3, <2>1, <2>3 DEF S
<1>8. /\ Len(r) = Len(q) + 1 /\ r[1] = n
      /\ \A i \in 1 .. Len(q) : r[i + 1] = q[i]
  BY <1>2 DEF list_add
<1>9. Ran(r) = (1 .. Per(k)) \ (U \ {n})
  BY <1>1, <1>3, <1>7 DEF FreeList
<1>10. M[n] = h.freelist /\ \A i \in Slots : i # n => M[i] = L[i]
  BY <1>3 DEF LinkTables
<1> HIDE DEF r, M
<1>11. \A i \in 1 .. Len(q) : q[i] \in Slots /\ q[i] # n
  <2>0. \A i \in 1 .. Len(q) : q[i] \in Ran(q)
    BY <1>2 DEF Ran
  <2>1. \A i \in 1 .. Len(q) : q[i] \in 1 .. Per(k)
    <3>1. PICK I : I = 1 .. Per(k)
      OBVIOUS
    <3>2. q \in Seq(I)
      BY <1>2, <3>1
    <3>3. \A i \in 1 .. Len(q) : q[i] \in I
      BY <3>2
    <3> QED
      BY <3>1, <3>3
  <2>2. 1 .. Per(k) \subseteq Slots
    BY PerFacts
  <2> QED
    BY <1>3, <2>0, <2>1, <2>2
<1>12. Links(r, n, M)
  <2>1. ASSUME NEW i \in 1 .. Len(r) PROVE M[r[i]] = IF i < Len(r) THEN r[i + 1] ELSE NULL
    <3>1. CASE i = 1
      <4>1. M[r[i]] = IF Len(q) = 0 THEN NULL ELSE q[1]
        BY <1>1, <1>8, <1>10, <3>1 DEF Links
      <4>2. CASE Len(q) = 0
        BY <1>8, <3>1, <4>1, <4>2
      <4>3. CASE Len(q) # 0
        BY <1>2, <1>8, <3>1, <4>1, <4>3
      <4> QED
        BY <4>2, <4>3
    <3>2. CASE i # 1
      <4>1. PICK j \in 1 .. Len(q) : i = j + 1 /\ i - 1 = j
        <5>1. i - 1 \in 1 .. Len(q) /\ i = (i - 1) + 1
          BY <1>2, <1>8, <3>2
        <5> QED
          BY <5>1
      <4>2. M[r[i]] = IF j < Len(q) THEN q[j + 1] ELSE NULL
        BY <1>1, <1>8, <1>10, <1>11, <4>1 DEF Links
      <4>3. CASE j < Len(q)
        <5>1. j + 1 \in 1 .. Len(q) /\ i < Len(r)
          BY <1>2, <1>8, <4>1, <4>3
        <5> QED
          BY <1>8, <4>1, <4>2, <4>3, <5>1
      <4>4. CASE ~ (j < Len(q))
        <5>1. ~ (i < Len(r))
          BY <1>2, <1>8, <4>1, <4>4
        <5> QED
          BY <4>2, <4>4, <5>1
      <4> QED
        BY <4>3, <4>4
    <3> QED
      BY <3>1, <3>2
  <2>2. n = IF Len(r) = 0 THEN NULL ELSE r[1]
    BY <1>2, <1>8
  <2> QED
    BY <2>1, <2>2 DEF Links
<1>13. FreeList(r, k, U \ {n})
  BY <1>7, <1>9 DEF FreeList
<1>14. U \ {n} \subseteq 1 .. Per(k) /\ g.in_use = Cardinality(U \ {n})
  BY <1>4, <1>5 DEF SlabOK
<1>15. SlabOK(k, g, M, U \ {n})
  BY <1>4, <1>6, <1>12, <1>13, <1>14 DEF SlabOK
<1> QED
  BY <1>15 DEF M

(* When in_use goes down to 0, the object was the last that a caller held. *)
LEMMA LastObject ==
    ASSUME NEW k \in Caches, NEW h \in Headers, NEW L, NEW U,
           SlabOK(k, h, L, U), NEW n \in U, Pushed(h, n).in_use = 0
    PROVE  U = {n}
<1>1. h.in_use - 1 = 0 /\ h.in_use \in Int
  BY DEF Pushed, Headers
<1>2. IsFiniteSet(U) /\ Cardinality(U) = 1
  <2>1. U \subseteq 1 .. Per(k) /\ h.in_use = Cardinality(U)
    BY DEF SlabOK
  <2>2. IsFiniteSet(U) /\ Cardinality(U) \in Nat
    BY <2>1, UsedFinite
  <2> QED
    BY <1>1, <2>1, <2>2
<1>3. PICK x : U = {x}
  BY <1>2, FS_Singleton
<1> QED
  BY <1>3

(* A page that has just become a slab.                                     *)
LEMMA NewSlab ==
    ASSUME NEW k \in Caches
    PROVE  SlabOK(k, [magic |-> TRUE, in_use |-> 1, freelist |-> Per(k) - 1, cache |-> k],
                  [i \in Slots |-> IF i <= Per(k) THEN i - 1 ELSE NULL], {Per(k)})
<1> DEFINE N == Per(k)
           h == [magic |-> TRUE, in_use |-> 1, freelist |-> N - 1, cache |-> k]
           L == [i \in Slots |-> IF i <= N THEN i - 1 ELSE NULL]
           q == [i \in 1 .. (N - 1) |-> N - i]
<1>1. N \in Nat /\ N >= 1 /\ 1 .. N \subseteq Slots /\ N - 1 \in Nat
  BY PerFacts
<1>2. Cardinality({N}) = 1
  BY FS_Singleton
<1> HIDE DEF N
<1>3. q \in Seq(1 .. N) /\ Len(q) = N - 1 /\ DOMAIN q = 1 .. (N - 1)
  <2>1. \A i \in 1 .. (N - 1) : N - i \in 1 .. N
    BY <1>1
  <2>2. q \in [1 .. (N - 1) -> 1 .. N]
    BY <2>1
  <2> QED
    BY <1>1, <2>2
<1>4. \A i \in 1 .. (N - 1) : q[i] = N - i
  OBVIOUS
<1> HIDE DEF q
<1>5. NoDup(q)
  BY <1>1, <1>3, <1>4 DEF NoDup
<1>6. Ran(q) = (1 .. N) \ {N}
  <2>1. ASSUME NEW i \in 1 .. (N - 1) PROVE q[i] \in (1 .. N) \ {N}
    BY <1>1, <1>4
  <2>2. ASSUME NEW n \in (1 .. N) \ {N} PROVE n \in Ran(q)
    <3>1. N - n \in 1 .. (N - 1) /\ N - (N - n) = n
      BY <1>1
    <3>2. q[N - n] = n
      BY <1>4, <3>1
    <3> QED
      BY <1>3, <3>1, <3>2 DEF Ran
  <2> QED
    BY <1>3, <2>1, <2>2 DEF Ran
<1>7. Links(q, N - 1, L)
  <2>1. N - 1 = IF Len(q) = 0 THEN NULL ELSE q[1]
    <3>1. CASE N = 1
      BY <1>3, <3>1 DEF NULL
    <3>2. CASE N # 1
      BY <1>1, <1>3, <1>4, <3>2
    <3> QED
      BY <3>1, <3>2
  <2>2. ASSUME NEW i \in 1 .. Len(q) PROVE L[q[i]] = IF i < Len(q) THEN q[i + 1] ELSE NULL
    <3>1. q[i] = N - i /\ N - i \in 1 .. N /\ i \in Nat
      BY <1>1, <1>3, <1>4
    <3>2. L[q[i]] = (N - i) - 1
      BY <1>1, <3>1
    <3>3. CASE i < Len(q)
      <4>1. i + 1 \in 1 .. (N - 1) /\ N - (i + 1) = (N - i) - 1
        BY <1>1, <1>3, <3>1, <3>3
      <4> QED
        BY <1>4, <3>2, <3>3, <4>1
    <3>4. CASE ~ (i < Len(q))
      <4>1. (N - i) - 1 = 0
        BY <1>1, <1>3, <3>1, <3>4
      <4> QED
        BY <3>2, <3>4, <4>1 DEF NULL
    <3> QED
      BY <3>3, <3>4
  <2> QED
    BY <2>1, <2>2 DEF Links
<1>8. FreeList(q, k, {N})
  BY <1>3, <1>5, <1>6 DEF FreeList, N
<1>9. h.magic /\ h.cache = k /\ h.in_use = 1 /\ h.freelist = N - 1
  OBVIOUS
<1>10. {N} # {} /\ {N} \subseteq 1 .. Per(k)
  BY <1>1 DEF N
<1> HIDE DEF h, L
<1>11. SlabOK(k, h, L, {N})
  BY <1>2, <1>7, <1>8, <1>9, <1>10 DEF SlabOK
<1> QED
  BY <1>11 DEF h, L, N

(* kcalloc writes only into objects that are not on the free list.         *)
LEMMA ClearKeeps ==
    ASSUME NEW k \in Caches, NEW h, NEW L \in LinkTables, NEW U,
           SlabOK(k, h, L, U), NEW n \in U
    PROVE  SlabOK(k, h, [L EXCEPT ![n] = NULL], U)
<1> DEFINE M == [L EXCEPT ![n] = NULL]
<1>1. PICK q : FreeList(q, k, U) /\ Links(q, h.freelist, L)
  BY DEF SlabOK
<1>2. \A i \in 1 .. Len(q) : q[i] \in Slots /\ q[i] # n
  <2>1. q \in Seq(1 .. Per(k)) /\ Ran(q) = (1 .. Per(k)) \ U
    BY <1>1 DEF FreeList
  <2>2. \A i \in 1 .. Len(q) : q[i] \in 1 .. Per(k) /\ q[i] \in Ran(q)
    BY <2>1 DEF Ran
  <2> QED
    BY <2>1, <2>2, PerFacts
<1>3. \A i \in Slots : i # n => M[i] = L[i]
  BY DEF LinkTables
<1> HIDE DEF M
<1>4. Links(q, h.freelist, M)
  BY <1>1, <1>2, <1>3 DEF Links
<1>5. SlabOK(k, h, M, U)
  BY <1>1, <1>4 DEF SlabOK
<1> QED
  BY <1>5 DEF M

(* f is what is met from first on, after n links.                          *)
Follows(f, first, L, N) ==
    f = [n \in 0 .. N |-> IF n = 0 THEN first
                          ELSE IF f[n - 1] = NULL THEN NULL ELSE L[f[n - 1]]]

(* The free list, as the sequence that its links spell.                    *)
Spelled(q, N) == [n \in 0 .. N |-> IF n < Len(q) THEN q[n + 1] ELSE NULL]

(* One step of following the links.                                        *)
LEMMA FollowsStep ==
    ASSUME NEW f, NEW first, NEW L, NEW N \in Nat, Follows(f, first, L, N)
    PROVE  /\ f[0] = first /\ DOMAIN f = 0 .. N
           /\ \A n \in 1 .. N : f[n] = IF f[n - 1] = NULL THEN NULL ELSE L[f[n - 1]]
<1>1. \A n \in 0 .. N : f[n] = IF n = 0 THEN first
                               ELSE IF f[n - 1] = NULL THEN NULL ELSE L[f[n - 1]]
  BY DEF Follows
<1>2. DOMAIN f = 0 .. N
  BY DEF Follows
<1>3. \A n \in 1 .. N : n \in 0 .. N /\ n # 0
  OBVIOUS
<1>4. 0 \in 0 .. N
  OBVIOUS
<1> QED
  BY <1>1, <1>2, <1>3, <1>4

(* Following the links spells the free list.                               *)
LEMMA SpelledFollows ==
    ASSUME NEW S, NULL \notin S, NEW q \in Seq(S), NEW first, NEW L, Links(q, first, L), NEW N \in Nat
    PROVE  Follows(Spelled(q, N), first, L, N)
<1> DEFINE f == Spelled(q, N)
<1>1. \A n \in 0 .. N : f[n] = IF n < Len(q) THEN q[n + 1] ELSE NULL
  BY DEF Spelled
<1>2. Len(q) \in Nat /\ \A i \in 1 .. Len(q) : q[i] # NULL
  OBVIOUS
<1>3. ASSUME NEW n \in 0 .. N
      PROVE  f[n] = IF n = 0 THEN first ELSE IF f[n - 1] = NULL THEN NULL ELSE L[f[n - 1]]
  <2>1. CASE n = 0
    <3>1. f[0] = IF 0 < Len(q) THEN q[1] ELSE NULL
      BY <1>1, <2>1
    <3>2. first = IF Len(q) = 0 THEN NULL ELSE q[1]
      BY DEF Links
    <3> QED
      BY <1>2, <2>1, <3>1, <3>2
  <2>2. CASE n # 0 /\ n <= Len(q)
    <3>1. n - 1 \in 0 .. N /\ n - 1 < Len(q) /\ n \in 1 .. Len(q) /\ (n - 1) + 1 = n
      BY <1>2, <2>2
    <3>2. f[n - 1] = q[n] /\ q[n] # NULL
      BY <1>1, <1>2, <3>1
    <3>3. L[q[n]] = IF n < Len(q) THEN q[n + 1] ELSE NULL
      BY <3>1 DEF Links
    <3> QED
      BY <1>1, <2>2, <3>2, <3>3
  <2>3. CASE n # 0 /\ ~ (n <= Len(q))
    <3>1. n - 1 \in 0 .. N /\ ~ (n - 1 < Len(q)) /\ ~ (n < Len(q))
      BY <1>2, <2>3
    <3>2. f[n - 1] = NULL /\ f[n] = NULL
      BY <1>1, <3>1
    <3> QED
      BY <2>3, <3>2
  <2> QED
    BY <2>1, <2>2, <2>3
<1>4. f = [n \in 0 .. N |-> f[n]]
  BY DEF Spelled
<1> HIDE DEF f
<1>5. Follows(f, first, L, N)
  BY <1>3, <1>4 DEF Follows
<1> QED
  BY <1>5 DEF f

(* There is only one way to follow the links.                              *)
LEMMA FollowsOnce ==
    ASSUME NEW f, NEW g, NEW first, NEW L, NEW N \in Nat,
           Follows(f, first, L, N), Follows(g, first, L, N)
    PROVE  \A n \in 0 .. N : f[n] = g[n]
<1> DEFINE Bad == {n \in 0 .. N : f[n] # g[n]}
<1> SUFFICES ASSUME Bad # {} PROVE FALSE
  OBVIOUS
<1>1. Bad \subseteq Nat
  OBVIOUS
<1>2. PICK m \in Bad : \A n \in Bad : m <= n
  BY <1>1, LeastOrder
<1>3. m # 0
  BY <1>2, FollowsStep
<1>4. m \in 1 .. N /\ m - 1 \in 0 .. N /\ m - 1 \notin Bad
  BY <1>2, <1>3
<1>5. f[m - 1] = g[m - 1]
  BY <1>4
<1>6. f[m] = g[m]
  BY <1>4, <1>5, FollowsStep
<1> QED
  BY <1>2, <1>6

(* How many numbers an interval has.                                       *)
LEMMA IntervalSize ==
    ASSUME NEW n \in Nat
    PROVE  /\ IsFiniteSet(1 .. n) /\ Cardinality(1 .. n) = n
           /\ Cardinality(0 .. (n - 1)) = n
<1>1. /\ IsFiniteSet(1 .. n)
      /\ Cardinality(1 .. n) = IF 1 > n THEN 0 ELSE n - 1 + 1
  BY FS_Interval
<1>2. n - 1 \in Int /\ 0 \in Int
  OBVIOUS
<1>3. Cardinality(0 .. (n - 1)) = IF 0 > n - 1 THEN 0 ELSE (n - 1) - 0 + 1
  BY <1>2, FS_Interval
<1>4. CASE n = 0
  BY <1>1, <1>3, <1>4
<1>5. CASE n # 0
  <2>1. ~ (1 > n) /\ ~ (0 > n - 1) /\ n - 1 + 1 = n /\ (n - 1) - 0 + 1 = n
    BY <1>5
  <2> QED
    BY <1>1, <1>3, <2>1
<1> QED
  BY <1>4, <1>5

(* What the links of a slab lead to: each object that is not used, once.   *)
LEMMA ChainExact ==
    ASSUME NEW p \in Frames, NEW k \in Caches, NEW U, SlabOK(k, hdr[p], link[p], U)
    PROVE  LET met == {n \in DOMAIN Chain(p) : Chain(p)[n] # NULL}
           IN  /\ {Chain(p)[n] : n \in met} = (1 .. Per(k)) \ U
               /\ Cardinality(met) = Per(k) - hdr[p].in_use
<1> DEFINE N == Cardinality(Slots)
           first == hdr[p].freelist
           f == Chain(p)
<1>1. PICK q : FreeList(q, k, U) /\ Links(q, first, link[p])
  BY DEF SlabOK
<1>2. q \in Seq(1 .. Per(k)) /\ NoDup(q) /\ Ran(q) = (1 .. Per(k)) \ U
      /\ Len(q) \in Nat /\ DOMAIN q = 1 .. Len(q)
  BY <1>1 DEF FreeList
<1>3. N \in Nat /\ Per(k) \in Nat /\ NULL \notin 1 .. Per(k)
  BY PerFacts, FS_CardinalityType DEF NULL
<1>4. Follows(Spelled(q, N), first, link[p], N)
  BY <1>1, <1>2, <1>3, SpelledFollows
<1>5. Follows(f, first, link[p], N)
  <2>1. \E g : Follows(g, first, link[p], N)
    BY <1>4
  <2> QED
    BY <2>1 DEF Follows, Chain
<1> HIDE DEF f, N
<1>6. DOMAIN f = 0 .. N /\ \A n \in 0 .. N : f[n] = IF n < Len(q) THEN q[n + 1] ELSE NULL
  <2>1. \A n \in 0 .. N : f[n] = Spelled(q, N)[n]
    BY <1>3, <1>4, <1>5, FollowsOnce
  <2>2. DOMAIN f = 0 .. N
    BY <1>3, <1>5, FollowsStep
  <2> QED
    BY <2>1, <2>2 DEF Spelled
<1>7. /\ IsFiniteSet(1 .. Per(k)) /\ Cardinality(1 .. Per(k)) = Per(k)
      /\ IsFiniteSet(1 .. Len(q)) /\ Cardinality(1 .. Len(q)) = Len(q)
  BY <1>2, <1>3, IntervalSize
<1>8. IsFiniteSet(Ran(q)) /\ Cardinality(Ran(q)) = Len(q)
  <2>1. q \in Bijection(1 .. Len(q), Ran(q))
    BY <1>2 DEF Bijection, Injection, Surjection, IsInjective, NoDup, Ran
  <2>2. ExistsBijection(1 .. Len(q), Ran(q))
    BY <2>1 DEF ExistsBijection
  <2> QED
    BY <1>7, <2>2, FS_Bijection
<1>9. Len(q) <= N
  <2>1. Ran(q) \subseteq Slots /\ IsFiniteSet(Slots)
    BY <1>2, PerFacts
  <2> QED
    BY <1>8, <2>1, FS_Subset DEF N
<1>10. Cardinality((1 .. Per(k)) \ U) = Per(k) - Cardinality(U)
  <2>1. U \subseteq 1 .. Per(k)
    BY DEF SlabOK
  <2>2. /\ (1 .. Per(k)) \intersect U = U
        /\ Cardinality((1 .. Per(k)) \ U) = Cardinality(1 .. Per(k)) - Cardinality((1 .. Per(k)) \intersect U)
    BY <1>7, <2>1, FS_Difference
  <2> QED
    BY <1>7, <2>2
<1> DEFINE met == {n \in DOMAIN f : f[n] # NULL}
<1>11. met = 0 .. (Len(q) - 1)
  <2>1. ASSUME NEW n \in 0 .. N PROVE f[n] # NULL <=> n < Len(q)
    <3>1. n < Len(q) => n + 1 \in 1 .. Len(q)
      BY <1>2
    <3>2. \A i \in 1 .. Len(q) : q[i] # NULL
      BY <1>2, <1>3
    <3> QED
      BY <1>6, <3>1, <3>2
  <2> QED
    BY <1>2, <1>3, <1>6, <1>9, <2>1
<1>12. Cardinality(met) = Len(q)
  BY <1>2, <1>11, IntervalSize
<1>13. {f[n] : n \in met} = Ran(q)
  <2>1. ASSUME NEW n \in met PROVE f[n] \in Ran(q)
    <3>1. n \in 0 .. N /\ n < Len(q) /\ n + 1 \in DOMAIN q
      BY <1>2, <1>3, <1>9, <1>11
    <3> QED
      BY <1>6, <3>1 DEF Ran
  <2>2. ASSUME NEW i \in DOMAIN q PROVE \E n \in met : f[n] = q[i]
    <3>1. i - 1 \in met /\ i - 1 \in 0 .. N /\ i - 1 < Len(q) /\ (i - 1) + 1 = i
      BY <1>2, <1>3, <1>9, <1>11
    <3> QED
      BY <1>6, <3>1
  <2> QED
    BY <2>1, <2>2 DEF Ran
<1>14. hdr[p].in_use = Cardinality(U)
  BY DEF SlabOK
<1> HIDE DEF met
<1>15. {f[n] : n \in met} = (1 .. Per(k)) \ U /\ Cardinality(met) = Per(k) - hdr[p].in_use
  BY <1>2, <1>8, <1>10, <1>12, <1>13, <1>14
<1> QED
  BY <1>15 DEF met, f

-----------------------------------------------------------------------------
(* The inductive invariant.                                                *)

Locals == [s : Frames, obj : {NULL} \union Slots, next : {NULL} \union Slots,
           cache : {NULL} \union Caches]

SlabTypes ==
    /\ hdr \in [Frames -> Headers]
    /\ link \in [Frames -> LinkTables]
    /\ slabs \in [Caches -> Seq(Frames)]
    /\ sub \in [Ctx -> {"none", "take", "page", "build"}]
    /\ loc \in [Ctx -> Locals]
    /\ objs \in [Ctx -> SUBSET (Frames \X Slots)]

Used(p) == {n \in Slots : <<p, n>> \in AllObjs}

(* No page is on two lists, or twice on one.                               *)
ListsOK ==
    /\ \A k \in Caches : NoDup(slabs[k])
    /\ \A k, m \in Caches : \A p \in Ran(slabs[k]) : p \in Ran(slabs[m]) => k = m

(* A slab is an owned block of one page, not a user's.                     *)
PagesOK ==
    \A k \in Caches : \A p \in Ran(slabs[k]) :
       /\ <<p, 0>> \in live /\ ~ frames[p].user
       /\ SlabOK(k, hdr[p], link[p], Used(p))

ObjsOK == \A x \in AllObjs : x[1] \in SlabPages

(* A context inside slab_alloc.                                            *)
Taking(c) ==
    /\ pc[c] = "idle" /\ loc[c].cache \in Caches
    /\ loc[c].s \in Ran(slabs[loc[c].cache])
    /\ loc[c].obj = hdr[loc[c].s].freelist /\ loc[c].obj # NULL
    /\ loc[c].next = link[loc[c].s][loc[c].obj]

Paging(c) ==
    /\ pc[c] \in {"a_lock", "a_find", "a_split"} /\ req[c] = 0 /\ ~ usr[c]
    /\ loc[c].cache \in Caches

Making(c) ==
    /\ pc[c] = "idle" /\ loc[c].cache \in Caches
    /\ <<loc[c].s, 0>> \in live /\ loc[c].s \notin SlabPages /\ ~ frames[loc[c].s].user

SubOK ==
    \A c \in Ctx : /\ sub[c] = "take" => Taking(c)
                   /\ sub[c] = "page" => Paging(c)
                   /\ sub[c] = "build" => Making(c)

(* A magic number is left only where no block begins, or in the block that *)
(* is being freed.                                                         *)
MagicOK ==
    /\ \A b \in FreeBlocks : ~ hdr[b[1]].magic
    /\ \A c \in Ctx : pc[c] = "a_split" => ~ hdr[blk[c]].magic
    /\ \A b \in live : b[1] \notin SlabPages \union Building => ~ hdr[b[1]].magic

(* The scan of munmap_all_user: what is behind it is no user's, and the    *)
(* block it is at lies inside the block that it has become by merging.     *)
Reaping == {"r_scan", "r_merge"}

ReapOK ==
    /\ scan \in [Ctx -> Nat] /\ adv \in [Ctx -> Orders]
    /\ \A c \in Ctx :
          /\ pc[c] \notin Reaping => scan[c] = 0
          /\ pc[c] \in Reaping =>
                /\ scan[c] <= Size[MAX_ORDER]
                /\ \A i \in Frames : i < scan[c] => ~ IsUser(i)
          /\ pc[c] = "r_merge" =>
                /\ blk[c] <= scan[c]
                /\ scan[c] + Size[adv[c]] <= blk[c] + Size[ord[c]]

SlabInv == SlabTypes /\ ListsOK /\ PagesOK /\ ObjsOK /\ SubOK /\ MagicOK

MInv == IInv /\ SlabInv /\ ReapOK

(* The pages on the lists.                                                 *)
LEMMA OnLists ==
    ASSUME NEW p
    PROVE  p \in SlabPages <=> \E k \in Caches : p \in Ran(slabs[k])
BY DEF SlabPages, Ran

(* With one context, its objects are all the objects.                      *)
LEMMA OneObjs ==
    ASSUME NEW c \in Ctx
    PROVE  /\ Ctx = {c} /\ AllObjs = objs[c] /\ AllObjs' = objs'[c]
           /\ Building = IF sub[c] = "build" THEN {loc[c].s} ELSE {}
           /\ Building' = IF sub'[c] = "build" THEN {loc'[c].s} ELSE {}
<1>1. Ctx = {c}
  BY OneContext
<1>2. AllObjs = objs[c] /\ AllObjs' = objs'[c]
  BY <1>1 DEF AllObjs
<1>3. {d \in Ctx : sub[d] = "build"} = IF sub[c] = "build" THEN {c} ELSE {}
  BY <1>1
<1>4. {d \in Ctx : sub'[d] = "build"} = IF sub'[c] = "build" THEN {c} ELSE {}
  BY <1>1
<1>5. Building = IF sub[c] = "build" THEN {loc[c].s} ELSE {}
  BY <1>3 DEF Building
<1>6. Building' = IF sub'[c] = "build" THEN {loc'[c].s} ELSE {}
  BY <1>4 DEF Building
<1> QED
  BY <1>1, <1>2, <1>5, <1>6

(* Different blocks of a tiling begin at different frames.                 *)
LEMMA StartsApart ==
    ASSUME NEW A, Tiling(A), NEW a \in A, NEW b \in A, a[1] = b[1]
    PROVE  a = b
<1>1. /\ a[1] \in Nat /\ Size[a[2]] \in Nat /\ Size[a[2]] > 0
      /\ Size[b[2]] \in Nat /\ Size[b[2]] > 0
  BY InHeap DEF Tiling
<1>2. ~ Disjoint(a, b)
  BY <1>1 DEF Disjoint
<1> QED
  BY <1>2 DEF Tiling

(* What a change of one list does to the free blocks.                      *)
LEMMA FreeSub ==
    ASSUME FreeAreaOK, NEW o \in Orders, NEW t \in Seq(Frames), NEW X,
           free_area' = [free_area EXCEPT ![o] = t], Ran(t) \subseteq Ran(free_area[o]) \union X
    PROVE  \A b \in FreeBlocks' : b \in FreeBlocks \/ b[1] \in X
<1> SUFFICES ASSUME NEW b \in FreeBlocks', b \notin FreeBlocks PROVE b[1] \in X
  OBVIOUS
<1>1. b \in Frames \X Orders /\ b[1] \in Ran(free_area'[b[2]])
  BY DEF FreeBlocks, Ran
<1>2. b[1] \notin Ran(free_area[b[2]])
  BY <1>1, FreeBlocksRan
<1>3. CASE b[2] = o
  <2>1. free_area'[o] = t
    BY DEF FreeAreaOK
  <2> QED
    BY <1>1, <1>2, <1>3, <2>1
<1>4. CASE b[2] # o
  <2>1. free_area'[b[2]] = free_area[b[2]]
    BY <1>1, <1>4 DEF FreeAreaOK
  <2> QED
    BY <1>1, <1>2, <2>1
<1> QED
  BY <1>3, <1>4

(* list_add writes into the first words of the block.                      *)
LEMMA OverwrittenIs ==
    ASSUME NEW h \in [Frames -> Headers], NEW i \in Frames
    PROVE  /\ Overwritten(h, i) \in [Frames -> Headers]
           /\ ~ Overwritten(h, i)[i].magic
           /\ \A p \in Frames : p # i => Overwritten(h, i)[p] = h[p]
           /\ \A p \in Frames : ~ h[p].magic => ~ Overwritten(h, i)[p].magic
<1> DEFINE g == [h[i] EXCEPT !.magic = FALSE]
<1>1. g \in Headers /\ ~ g.magic
  BY DEF Headers
<1>2. Overwritten(h, i) = [h EXCEPT ![i] = g]
  BY DEF Overwritten
<1> HIDE DEF g
<1> QED
  BY <1>1, <1>2

(* A step of the buddy allocator that leaves the slabs their pages.        *)
HeapStep ==
    /\ UNCHANGED <<link, slabs, objs>>
    /\ hdr' \in [Frames -> Headers]
    /\ \A p \in SlabPages : hdr'[p] = hdr[p]
    /\ EntriesKept
    /\ \A p \in SlabPages : <<p, 0>> \in live'

LEMMA HeapStepKeeps ==
    ASSUME MInv, HeapStep
    PROVE  ListsOK' /\ PagesOK' /\ ObjsOK' /\ SlabPages' = SlabPages
<1> USE DEF MInv, SlabInv, HeapStep
<1>1. slabs' = slabs /\ link' = link /\ AllObjs' = AllObjs /\ SlabPages' = SlabPages
  BY DEF AllObjs, SlabPages
<1>2. ListsOK'
  BY <1>1 DEF ListsOK
<1>3. ObjsOK'
  BY <1>1 DEF ObjsOK
<1>4. ASSUME NEW k \in Caches, NEW p \in Ran(slabs[k])
      PROVE  /\ <<p, 0>> \in live' /\ ~ frames'[p].user
             /\ SlabOK(k, hdr'[p], link'[p], Used(p)')
  <2>1. p \in SlabPages
    BY OnLists
  <2>2. /\ <<p, 0>> \in live /\ ~ frames[p].user
        /\ SlabOK(k, hdr[p], link[p], Used(p))
    BY DEF PagesOK
  <2>3. <<p, 0>> \in Owned /\ <<p, 0>> \in Owned'
    BY <2>1, <2>2 DEF Owned
  <2>4. frames'[p] = frames[p]
    BY <2>3 DEF EntriesKept
  <2>5. Used(p)' = Used(p)
    BY <1>1 DEF Used
  <2> QED
    BY <1>1, <2>1, <2>2, <2>4, <2>5
<1>5. PagesOK'
  BY <1>1, <1>4 DEF PagesOK
<1> QED
  BY <1>1, <1>2, <1>3, <1>5

-----------------------------------------------------------------------------
(* Steps inside slab_alloc and slab_free that leave the buddy allocator    *)
(* alone.                                                                  *)

(* The invariant of the buddy allocator speaks of its variables only.      *)
LEMMA QuietKeeps ==
    ASSUME MInv, UNCHANGED vars
    PROVE  /\ IInv' /\ EntriesKept /\ FreeBlocks' = FreeBlocks
           /\ frames' = frames /\ live' = live /\ pc' = pc /\ blk' = blk /\ ord' = ord
           /\ req' = req /\ usr' = usr
<1>1. IInv' /\ StepOK
  BY NextInv DEF MInv
<1> QED
  BY <1>1 DEF StepOK, vars, FreeBlocks

LEMMA QuietReap ==
    ASSUME MInv, UNCHANGED <<vars, scan, adv>>
    PROVE  ReapOK'
<1>1. UNCHANGED <<frames, pc, blk, ord, scan, adv>>
  BY DEF vars
<1> QED
  BY <1>1 DEF MInv, ReapOK, IsUser

(* A header stays a header.                                                *)
LEMMA HeaderTypes ==
    ASSUME NEW h \in Headers, NEW n \in {NULL} \union Slots
    PROVE  Popped(h, n) \in Headers /\ Pushed(h, n) \in Headers
<1>1. h.in_use + 1 \in Int /\ h.in_use - 1 \in Int
  BY DEF Headers
<1>2. Popped(h, n) \in Headers
  BY <1>1 DEF Popped, Headers
<1>3. Pushed(h, n) \in Headers
  BY <1>1 DEF Pushed, Headers
<1> QED
  BY <1>2, <1>3

(* An update with the value that was there.                                *)
LEMMA SameUpdate ==
    ASSUME NEW S, NEW T, NEW f \in [S -> T], NEW x \in S
    PROVE  f = [f EXCEPT ![x] = f[x]]
OBVIOUS

(* A change inside the slab p of cache k: h, L and O are its header, its   *)
(* links and the objects in use afterwards.                                *)
SlabChange(c, k, p, h, L, O) ==
    /\ p \in Ran(slabs[k])
    /\ UNCHANGED vars /\ UNCHANGED slabs /\ Building' = Building
    /\ h \in Headers /\ hdr' = [hdr EXCEPT ![p] = h]
    /\ L \in LinkTables /\ link' = [link EXCEPT ![p] = L]
    /\ O \in SUBSET (Frames \X Slots) /\ objs' = [objs EXCEPT ![c] = O]
    /\ \A x \in Frames \X Slots : x[1] # p => (x \in O <=> x \in objs[c])
    /\ SlabOK(k, h, L, {n \in Slots : <<p, n>> \in O})

LEMMA OneSlab ==
    ASSUME MInv, NEW c \in Ctx, NEW k \in Caches, NEW p, NEW h, NEW L, NEW O,
           SlabChange(c, k, p, h, L, O)
    PROVE  /\ ListsOK' /\ PagesOK' /\ ObjsOK' /\ MagicOK' /\ SlabPages' = SlabPages
           /\ hdr' \in [Frames -> Headers] /\ link' \in [Frames -> LinkTables]
           /\ objs' \in [Ctx -> SUBSET (Frames \X Slots)]
<1> USE DEF MInv, SlabInv, SlabChange
<1>1. p \in Frames /\ p \in SlabPages
  BY OnLists DEF SlabTypes, Ran
<1>2. /\ hdr' \in [Frames -> Headers] /\ hdr'[p] = h
      /\ \A q \in Frames : q # p => hdr'[q] = hdr[q]
  BY <1>1 DEF SlabTypes
<1>3. /\ link' \in [Frames -> LinkTables] /\ link'[p] = L
      /\ \A q \in Frames : q # p => link'[q] = link[q]
  BY <1>1 DEF SlabTypes
<1>4. objs' \in [Ctx -> SUBSET (Frames \X Slots)] /\ objs'[c] = O
  BY DEF SlabTypes
<1>5. AllObjs = objs[c] /\ AllObjs' = O
  BY <1>4, OneObjs
<1>6. slabs' = slabs /\ SlabPages' = SlabPages
  BY DEF SlabPages
<1>7. ListsOK'
  BY <1>6 DEF ListsOK
<1>8. ObjsOK'
  <2>1. \A x \in O : x \in Frames \X Slots
    OBVIOUS
  <2> QED
    BY <1>1, <1>5, <1>6, <2>1 DEF ObjsOK
<1>9. /\ FreeBlocks' = FreeBlocks /\ live' = live /\ frames' = frames /\ pc' = pc /\ blk' = blk
  BY QuietKeeps
<1>10. PagesOK'
  <2>1. ASSUME NEW m \in Caches, NEW q \in Ran(slabs[m])
        PROVE  /\ <<q, 0>> \in live /\ ~ frames[q].user
               /\ SlabOK(m, hdr'[q], link'[q], Used(q)')
    <3>1. /\ <<q, 0>> \in live /\ ~ frames[q].user /\ SlabOK(m, hdr[q], link[q], Used(q))
      BY DEF PagesOK
    <3>2. CASE q = p
      <4>1. m = k
        BY <3>2 DEF ListsOK
      <4>2. Used(p)' = {n \in Slots : <<p, n>> \in O}
        BY <1>5 DEF Used
      <4> QED
        BY <1>2, <1>3, <3>1, <3>2, <4>1, <4>2
    <3>3. CASE q # p
      <4>1. q \in Frames
        BY DEF SlabTypes, Ran
      <4>2. Used(q)' = Used(q)
        <5>1. \A n \in Slots : <<q, n>> \in O <=> <<q, n>> \in objs[c]
          BY <3>3, <4>1
        <5> QED
          BY <1>5, <5>1 DEF Used
      <4> QED
        BY <1>2, <1>3, <3>1, <3>3, <4>1, <4>2
    <3> QED
      BY <3>2, <3>3
  <2> QED
    BY <1>6, <1>9, <2>1 DEF PagesOK
<1>11. hdr[p].magic /\ h.magic
  BY DEF PagesOK, SlabOK
<1>12. \A q \in Frames : ~ hdr[q].magic => ~ hdr'[q].magic
  BY <1>2, <1>11
<1>13. MagicOK'
  <2>1. \A b \in FreeBlocks \union live : b[1] \in Frames
    BY Starts, InHeap DEF IInv
  <2>2. \A d \in Ctx : blk[d] \in Frames
    BY DEF IInv, VarsOK
  <2> QED
    BY <1>6, <1>9, <1>12, <2>1, <2>2 DEF MagicOK
<1> QED
  BY <1>2, <1>3, <1>4, <1>6, <1>7, <1>8, <1>10, <1>13

(* The walk over the slabs finds one with a free object.                   *)
LEMMA FindInv ==
    ASSUME MInv, NEW c \in Ctx, NEW k \in Caches, SlabFind(c, k)
    PROVE  SlabInv' /\ IInv'
<1> USE DEF MInv, SlabInv
<1>1. PICK j \in DOMAIN slabs[k] :
          /\ First(k, j)
          /\ LET p == slabs[k][j]
             IN  loc' = [loc EXCEPT ![c] = [s |-> p, obj |-> hdr[p].freelist,
                              next |-> link[p][hdr[p].freelist], cache |-> k]]
  BY DEF SlabFind
<1>2. PICK p : p = slabs[k][j]
  OBVIOUS
<1>3. /\ pc[c] = "idle" /\ sub[c] = "none" /\ sub' = [sub EXCEPT ![c] = "take"]
      /\ UNCHANGED vars /\ UNCHANGED <<hdr, link, slabs, objs>>
  BY DEF SlabFind, Ready
<1>4. p \in Ran(slabs[k]) /\ p \in Frames /\ hdr[p].freelist # NULL
  BY <1>1, <1>2 DEF SlabTypes, Ran, First
<1> DEFINE l == [s |-> p, obj |-> hdr[p].freelist,
                 next |-> link[p][hdr[p].freelist], cache |-> k]
<1>5. loc' = [loc EXCEPT ![c] = l]
  BY <1>1, <1>2
<1>6. hdr[p] \in Headers /\ hdr[p].freelist \in Slots /\ link[p] \in LinkTables
  BY <1>4 DEF SlabTypes, Headers
<1>7. l \in Locals
  BY <1>4, <1>6 DEF Locals, LinkTables
<1>8. l.s = p /\ l.obj = hdr[p].freelist /\ l.next = link[p][hdr[p].freelist] /\ l.cache = k
  OBVIOUS
<1> HIDE DEF l
<1>9. loc' \in [Ctx -> Locals] /\ loc'[c] = l /\ sub'[c] = "take"
      /\ sub' \in [Ctx -> {"none", "take", "page", "build"}]
  BY <1>3, <1>5, <1>7 DEF SlabTypes
<1>10. HeapStep
  <2>1. EntriesKept /\ live' = live
    BY <1>3, QuietKeeps
  <2>2. \A q \in SlabPages : <<q, 0>> \in live
    BY OnLists DEF PagesOK
  <2> QED
    BY <1>3, <2>1, <2>2 DEF HeapStep, SlabTypes
<1>11. /\ IInv' /\ FreeBlocks' = FreeBlocks /\ live' = live /\ pc' = pc /\ blk' = blk
  BY <1>3, QuietKeeps
<1>12. ListsOK' /\ PagesOK' /\ ObjsOK' /\ SlabPages' = SlabPages
  BY <1>10, HeapStepKeeps
<1>13. SlabTypes'
  BY <1>3, <1>9 DEF SlabTypes
<1>14. Building' = Building
  BY <1>3, <1>9, OneObjs
<1>15. MagicOK'
  BY <1>3, <1>11, <1>12, <1>14 DEF MagicOK
<1>16. Taking(c)'
  BY <1>3, <1>4, <1>8, <1>9, <1>11 DEF Taking
<1>17. SubOK'
  BY <1>9, <1>16, OneObjs DEF SubOK
<1> QED
  BY <1>11, <1>12, <1>13, <1>15, <1>17

(* ... and takes it.                                                       *)
LEMMA TakeInv ==
    ASSUME MInv, NEW c \in Ctx, SlabTake(c)
    PROVE  SlabInv' /\ IInv'
<1> USE DEF MInv, SlabInv
<1>1. Taking(c) /\ sub[c] = "take"
  BY DEF SubOK, SlabTake
<1>2. PICK k \in Caches, p \in Frames : k = loc[c].cache /\ p = loc[c].s /\ p \in Ran(slabs[k])
  BY <1>1 DEF Taking, SlabTypes, Locals
<1>3. PICK n : n = loc[c].obj /\ n = hdr[p].freelist /\ n # NULL /\ loc[c].next = link[p][n]
  BY <1>1, <1>2 DEF Taking
<1>4. p \in Frames /\ hdr[p] \in Headers /\ link[p] \in LinkTables /\ n \in Slots
  BY <1>2, <1>3 DEF SlabTypes, Ran, Headers
<1> DEFINE h == Popped(hdr[p], link[p][n])
           O == objs[c] \union {<<p, n>>}
<1>5. /\ hdr' = [hdr EXCEPT ![p] = h] /\ objs' = [objs EXCEPT ![c] = O]
      /\ sub' = [sub EXCEPT ![c] = "none"] /\ loc' = [loc EXCEPT ![c] = NoLocals]
      /\ UNCHANGED vars /\ link' = link /\ slabs' = slabs
  BY <1>2, <1>3 DEF SlabTake
<1>6. link' = [link EXCEPT ![p] = link[p]]
  BY <1>4, <1>5, SameUpdate DEF SlabTypes
<1>7. h \in Headers
  <2>1. link[p][n] \in {NULL} \union Slots
    BY <1>4 DEF LinkTables
  <2> QED
    BY <1>4, <2>1, HeaderTypes
<1>8. O \in SUBSET (Frames \X Slots)
  BY <1>4 DEF SlabTypes
<1>9. SlabOK(k, h, link[p], Used(p) \union {n})
  BY <1>2, <1>3, <1>4, TakeKeeps DEF PagesOK
<1>10. {m \in Slots : <<p, m>> \in O} = Used(p) \union {n}
  BY <1>4, OneObjs DEF Used
<1>11. \A x \in Frames \X Slots : x[1] # p => (x \in O <=> x \in objs[c])
  OBVIOUS
<1> HIDE DEF h, O
<1>12. sub'[c] = "none" /\ sub' \in [Ctx -> {"none", "take", "page", "build"}]
  BY <1>5 DEF SlabTypes
<1>13. Building' = Building
  BY <1>1, <1>12, OneObjs
<1>14. /\ ListsOK' /\ PagesOK' /\ ObjsOK' /\ MagicOK'
       /\ hdr' \in [Frames -> Headers] /\ link' \in [Frames -> LinkTables]
       /\ objs' \in [Ctx -> SUBSET (Frames \X Slots)]
  <2>1. SlabOK(k, h, link[p], {m \in Slots : <<p, m>> \in O})
    BY <1>9, <1>10
  <2>2. SlabChange(c, k, p, h, link[p], O)
    BY <1>2, <1>4, <1>5, <1>6, <1>7, <1>8, <1>11, <1>13, <2>1 DEF SlabChange
  <2> QED
    BY <2>2, OneSlab
<1>15. loc' \in [Ctx -> Locals]
  <2>1. NoLocals \in Locals
    BY RootBlock DEF NoLocals, Locals
  <2> QED
    BY <1>5, <2>1 DEF SlabTypes
<1>16. SlabTypes'
  BY <1>5, <1>12, <1>14, <1>15 DEF SlabTypes
<1>17. SubOK'
  BY <1>12, OneObjs DEF SubOK
<1> QED
  BY <1>5, <1>14, <1>16, <1>17, QuietKeeps

(* An object that the caller holds, in its slab.                           *)
LEMMA HeldObject ==
    ASSUME MInv, NEW c \in Ctx, NEW p, NEW n, <<p, n>> \in objs[c]
    PROVE  /\ p \in Frames /\ n \in Slots /\ n \in Used(p)
           /\ hdr[p] \in Headers /\ link[p] \in LinkTables
           /\ \E k \in Caches : p \in Ran(slabs[k]) /\ SlabOK(k, hdr[p], link[p], Used(p))
<1>1. p \in Frames /\ n \in Slots
  BY DEF MInv, SlabInv, SlabTypes
<1>2. <<p, n>> \in AllObjs
  BY OneObjs
<1>3. PICK k \in Caches : p \in Ran(slabs[k])
  BY <1>2, OnLists DEF MInv, SlabInv, ObjsOK
<1> QED
  BY <1>1, <1>2, <1>3 DEF MInv, SlabInv, PagesOK, SlabTypes, Used

(* kcalloc clears an object.                                               *)
LEMMA ClearInv ==
    ASSUME MInv, NEW c \in Ctx, NEW p \in Frames, NEW n \in Slots, kcalloc(c, p, n)
    PROVE  SlabInv' /\ IInv'
<1> USE DEF MInv, SlabInv
<1>1. /\ <<p, n>> \in objs[c] /\ pc[c] = "idle" /\ sub[c] = "none"
      /\ link' = [link EXCEPT ![p][n] = NULL]
      /\ UNCHANGED vars /\ UNCHANGED <<hdr, slabs, sub, loc, objs>>
  BY DEF kcalloc, Ready
<1>2. PICK k \in Caches : p \in Ran(slabs[k]) /\ SlabOK(k, hdr[p], link[p], Used(p))
  BY <1>1, HeldObject
<1>3. n \in Used(p) /\ hdr[p] \in Headers /\ link[p] \in LinkTables
  BY <1>1, HeldObject
<1> DEFINE L == [link[p] EXCEPT ![n] = NULL]
<1>4. L \in LinkTables
  BY <1>3 DEF LinkTables
<1>5. link' = [link EXCEPT ![p] = L]
  BY <1>1
<1>6. SlabOK(k, hdr[p], L, Used(p))
  BY <1>2, <1>3, ClearKeeps
<1> HIDE DEF L
<1>7. {m \in Slots : <<p, m>> \in objs[c]} = Used(p)
  BY OneObjs DEF Used
<1>8. Building' = Building
  BY <1>1 DEF Building
<1>9. SlabChange(c, k, p, hdr[p], L, objs[c])
  <2>1. hdr' = [hdr EXCEPT ![p] = hdr[p]] /\ objs' = [objs EXCEPT ![c] = objs[c]]
    BY <1>1, SameUpdate DEF SlabTypes
  <2>2. objs[c] \in SUBSET (Frames \X Slots)
    BY DEF SlabTypes
  <2> QED
    BY <1>1, <1>2, <1>3, <1>4, <1>5, <1>6, <1>7, <1>8, <2>1, <2>2 DEF SlabChange
<1>10. /\ ListsOK' /\ PagesOK' /\ ObjsOK' /\ MagicOK'
       /\ hdr' \in [Frames -> Headers] /\ link' \in [Frames -> LinkTables]
       /\ objs' \in [Ctx -> SUBSET (Frames \X Slots)]
  BY <1>9, OneSlab
<1>11. SlabTypes'
  BY <1>1, <1>10 DEF SlabTypes
<1>12. SubOK'
  BY <1>1, OneObjs DEF SubOK
<1> QED
  BY <1>1, <1>10, <1>11, <1>12, QuietKeeps

(* slab_free of an object that is not the last one of its slab.            *)
LEMMA FreeInv ==
    ASSUME MInv, NEW c \in Ctx, NEW p \in Frames, NEW n \in Slots, SlabFree(c, p, n)
    PROVE  SlabInv' /\ IInv'
<1> USE DEF MInv, SlabInv
<1> DEFINE h == Pushed(hdr[p], n)
           O == objs[c] \ {<<p, n>>}
           L == [link[p] EXCEPT ![n] = hdr[p].freelist]
<1>1. /\ <<p, n>> \in objs[c] /\ pc[c] = "idle" /\ sub[c] = "none" /\ h.in_use # 0
      /\ hdr' = [hdr EXCEPT ![p] = h] /\ objs' = [objs EXCEPT ![c] = O]
      /\ link' = [link EXCEPT ![p][n] = hdr[p].freelist]
      /\ UNCHANGED vars /\ UNCHANGED <<slabs, sub, loc>>
  BY DEF SlabFree, Ready
<1>2. PICK k \in Caches : p \in Ran(slabs[k]) /\ SlabOK(k, hdr[p], link[p], Used(p))
  BY <1>1, HeldObject
<1>3. n \in Used(p) /\ hdr[p] \in Headers /\ link[p] \in LinkTables
  BY <1>1, HeldObject
<1>4. h \in Headers /\ hdr[p].freelist \in {NULL} \union Slots
  BY <1>3, HeaderTypes DEF Headers
<1>5. L \in LinkTables
  BY <1>3, <1>4 DEF LinkTables
<1>6. link' = [link EXCEPT ![p] = L]
  BY <1>1
<1>7. SlabOK(k, h, L, Used(p) \ {n})
  BY <1>1, <1>2, <1>3, PushKeeps
<1>8. {m \in Slots : <<p, m>> \in O} = Used(p) \ {n}
  BY OneObjs DEF Used
<1>9. O \in SUBSET (Frames \X Slots)
  BY DEF SlabTypes
<1>10. \A x \in Frames \X Slots : x[1] # p => (x \in O <=> x \in objs[c])
  OBVIOUS
<1> HIDE DEF h, L, O
<1>11. Building' = Building
  BY <1>1 DEF Building
<1>12. SlabChange(c, k, p, h, L, O)
  <2>1. SlabOK(k, h, L, {m \in Slots : <<p, m>> \in O})
    BY <1>7, <1>8
  <2> QED
    BY <1>1, <1>2, <1>4, <1>5, <1>6, <1>9, <1>10, <1>11, <2>1 DEF SlabChange
<1>13. /\ ListsOK' /\ PagesOK' /\ ObjsOK' /\ MagicOK'
       /\ hdr' \in [Frames -> Headers] /\ link' \in [Frames -> LinkTables]
       /\ objs' \in [Ctx -> SUBSET (Frames \X Slots)]
  BY <1>12, OneSlab
<1>14. SlabTypes'
  BY <1>1, <1>13 DEF SlabTypes
<1>15. SubOK'
  BY <1>1, OneObjs DEF SubOK
<1> QED
  BY <1>1, <1>13, <1>14, <1>15, QuietKeeps

(* A page becomes a slab.                                                  *)
LEMMA BuildInv ==
    ASSUME MInv, NEW c \in Ctx, SlabBuild(c)
    PROVE  SlabInv' /\ IInv'
<1> USE DEF MInv, SlabInv
<1>1. Making(c) /\ sub[c] = "build"
  BY DEF SubOK, SlabBuild
<1>2. PICK k \in Caches, p \in Frames : k = loc[c].cache /\ p = loc[c].s
  BY <1>1 DEF Making, SlabTypes, Locals
<1>3. <<p, 0>> \in live /\ p \notin SlabPages /\ ~ frames[p].user /\ p \in Frames
  BY <1>1, <1>2 DEF Making, SlabTypes, Locals
<1> DEFINE N == Per(k)
           h == [magic |-> TRUE, in_use |-> 1, freelist |-> N - 1, cache |-> k]
           L == [i \in Slots |-> IF i <= N THEN i - 1 ELSE NULL]
           O == objs[c] \union {<<p, N>>}
           t == list_add(slabs[k], p)
<1>4. /\ hdr' = [hdr EXCEPT ![p] = h] /\ link' = [link EXCEPT ![p] = L]
      /\ slabs' = [slabs EXCEPT ![k] = t] /\ objs' = [objs EXCEPT ![c] = O]
      /\ sub' = [sub EXCEPT ![c] = "none"] /\ loc' = [loc EXCEPT ![c] = NoLocals]
      /\ UNCHANGED vars
  BY <1>2 DEF SlabBuild
<1>5. N \in Nat /\ N >= 1 /\ N \in Slots /\ 1 .. N \subseteq Slots /\ Slots \subseteq Nat /\ NULL \notin Slots
  <2>1. N \in Nat /\ N >= 1 /\ 1 .. N \subseteq Slots
    BY PerFacts
  <2> QED
    BY <2>1, PerFacts
<1>6. SlabOK(k, h, L, {N})
  BY NewSlab
<1> HIDE DEF N
<1>7. \A i \in 1 .. N : i - 1 \in {NULL} \union Slots
  <2>1. \A i \in 1 .. N : i - 1 = 0 \/ i - 1 \in 1 .. N
    BY <1>5
  <2> QED
    BY <1>5, <2>1 DEF NULL
<1>8. h \in Headers
  <2>1. N - 1 \in {NULL} \union Slots
    BY <1>5, <1>7
  <2> QED
    BY <2>1 DEF Headers
<1>9. L \in LinkTables
  <2>1. ASSUME NEW i \in Slots PROVE (IF i <= N THEN i - 1 ELSE NULL) \in {NULL} \union Slots
    <3>1. CASE i <= N
      <4>1. i \in 1 .. N
        BY <1>5, <3>1 DEF NULL
      <4> QED
        BY <1>7, <3>1, <4>1
    <3>2. CASE ~ (i <= N)
      BY <3>2
    <3> QED
      BY <3>1, <3>2
  <2> QED
    BY <2>1 DEF LinkTables
<1>10. O \in SUBSET (Frames \X Slots)
  BY <1>3, <1>5 DEF SlabTypes
<1>11. /\ t \in Seq(Frames) /\ NoDup(t) /\ Ran(t) = Ran(slabs[k]) \union {p}
  <2>1. slabs[k] \in Seq(Frames) /\ NoDup(slabs[k]) /\ p \notin Ran(slabs[k])
    BY <1>3, OnLists DEF SlabTypes, ListsOK
  <2> QED
    BY <1>3, <2>1, ListAdd
<1>12. {m \in Slots : <<p, m>> \in O} = {N} /\ AllObjs = objs[c]
  <2>1. AllObjs = objs[c]
    BY OneObjs
  <2>2. \A m \in Slots : <<p, m>> \notin objs[c]
    BY <1>3, <2>1 DEF ObjsOK
  <2> QED
    BY <1>5, <2>1, <2>2
<1>13. \A x \in Frames \X Slots : x[1] # p => (x \in O <=> x \in objs[c])
  OBVIOUS
<1>14. \A x \in O : x \in objs[c] \/ x[1] = p
  OBVIOUS
<1>15. h.magic
  OBVIOUS
<1> HIDE DEF h, L, O, t
<1>16. /\ hdr' \in [Frames -> Headers] /\ hdr'[p] = h
       /\ \A q \in Frames : q # p => hdr'[q] = hdr[q]
  BY <1>3, <1>4, <1>8 DEF SlabTypes
<1>17. /\ link' \in [Frames -> LinkTables] /\ link'[p] = L
       /\ \A q \in Frames : q # p => link'[q] = link[q]
  BY <1>3, <1>4, <1>9 DEF SlabTypes
<1>18. objs' \in [Ctx -> SUBSET (Frames \X Slots)] /\ objs'[c] = O /\ AllObjs' = O
  BY <1>4, <1>10, OneObjs DEF SlabTypes
<1>19. /\ slabs' \in [Caches -> Seq(Frames)] /\ slabs'[k] = t
       /\ \A m \in Caches : m # k => slabs'[m] = slabs[m]
  BY <1>4, <1>11 DEF SlabTypes
<1>20. /\ sub' \in [Ctx -> {"none", "take", "page", "build"}] /\ sub'[c] = "none"
       /\ loc' \in [Ctx -> Locals]
  <2>1. NoLocals \in Locals
    BY RootBlock DEF NoLocals, Locals
  <2> QED
    BY <1>4, <2>1 DEF SlabTypes
<1>21. SlabTypes'
  BY <1>16, <1>17, <1>18, <1>19, <1>20 DEF SlabTypes
<1>22. ASSUME NEW q PROVE q \in SlabPages' <=> q \in SlabPages \/ q = p
  <2>1. q \in SlabPages' <=> \E m \in Caches : q \in Ran(slabs'[m])
    BY DEF SlabPages, Ran
  <2> QED
    BY <1>11, <1>19, <2>1, OnLists
<1>23. ListsOK'
  <2>1. \A m \in Caches : NoDup(slabs'[m])
    BY <1>11, <1>19 DEF ListsOK
  <2>2. ASSUME NEW m \in Caches, NEW o \in Caches, NEW q \in Ran(slabs'[m]), q \in Ran(slabs'[o])
        PROVE  m = o
    <3>1. CASE q = p
      <4>1. \A r \in Caches : r # k => p \notin Ran(slabs'[r])
        BY <1>3, <1>19, OnLists
      <4> QED
        BY <2>2, <3>1, <4>1
    <3>2. CASE q # p
      <4>1. q \in Ran(slabs[m]) /\ q \in Ran(slabs[o])
        BY <1>11, <1>19, <2>2, <3>2
      <4> QED
        BY <4>1 DEF ListsOK
    <3> QED
      BY <3>1, <3>2
  <2> QED
    BY <2>1, <2>2 DEF ListsOK
<1>24. ObjsOK'
  BY <1>12, <1>14, <1>18, <1>22 DEF ObjsOK
<1>25. /\ IInv' /\ FreeBlocks' = FreeBlocks /\ live' = live /\ frames' = frames
       /\ pc' = pc /\ blk' = blk
  BY <1>4, QuietKeeps
<1>26. PagesOK'
  <2>1. ASSUME NEW m \in Caches, NEW q \in Ran(slabs'[m])
        PROVE  /\ <<q, 0>> \in live /\ ~ frames[q].user
               /\ SlabOK(m, hdr'[q], link'[q], Used(q)')
    <3>1. CASE q = p
      <4>1. m = k
        BY <1>3, <1>19, <3>1, OnLists
      <4>2. Used(p)' = {N}
        BY <1>12, <1>18 DEF Used
      <4> QED
        BY <1>3, <1>6, <1>16, <1>17, <3>1, <4>1, <4>2
    <3>2. CASE q # p
      <4>1. q \in Ran(slabs[m])
        BY <1>11, <1>19, <3>2
      <4>2. q \in Frames
        BY <4>1 DEF SlabTypes, Ran
      <4>3. Used(q)' = Used(q)
        <5>1. \A n \in Slots : <<q, n>> \in O <=> <<q, n>> \in objs[c]
          BY <1>13, <3>2, <4>2
        <5> QED
          BY <1>12, <1>18, <5>1 DEF Used
      <4> QED
        BY <1>16, <1>17, <3>2, <4>1, <4>2, <4>3 DEF PagesOK
    <3> QED
      BY <3>1, <3>2
  <2> QED
    BY <1>25, <2>1 DEF PagesOK
<1>27. Building = {p} /\ Building' = {}
  BY <1>1, <1>2, <1>20, OneObjs
<1>28. MagicOK'
  <2>1. /\ FreeBlocks \subseteq Pieces /\ live \subseteq Pieces /\ FreeBlocks \cap live = {}
        /\ \A b \in Pieces : b[1] \in Frames
    BY Starts, InHeap DEF IInv, Apart
  <2>2. ASSUME NEW b \in FreeBlocks PROVE ~ hdr'[b[1]].magic
    <3>1. b # <<p, 0>>
      BY <1>3, <2>1
    <3>2. b[1] # p
      <4>1. <<p, 0>>[1] = p
        OBVIOUS
      <4> QED
        BY <1>3, <2>1, <3>1, <4>1, Starts DEF IInv
    <3> QED
      BY <1>16, <2>1, <3>2 DEF MagicOK
  <2>3. \A b \in live : b[1] \notin SlabPages' => ~ hdr'[b[1]].magic
    BY <1>16, <1>22, <1>27, <2>1 DEF MagicOK
  <2>4. \A d \in Ctx : pc[d] # "a_split"
    BY <1>1, OneObjs DEF Making
  <2> QED
    BY <1>25, <1>27, <2>2, <2>3, <2>4 DEF MagicOK
<1>29. SubOK'
  BY <1>20, OneObjs DEF SubOK
<1> QED
  BY <1>21, <1>23, <1>24, <1>25, <1>26, <1>28, <1>29

-----------------------------------------------------------------------------
(* Steps of the buddy allocator under the slabs.                           *)

(* What they do to the magic numbers: a new free block has lost its own, a *)
(* new owned block has none, unless it is about to become a slab.          *)
HeapMove ==
    /\ HeapStep
    /\ \A f \in Frames : hdr'[f].magic => hdr[f].magic
    /\ \A b \in FreeBlocks' : b \in FreeBlocks \/ ~ hdr'[b[1]].magic
    /\ \A b \in live' : b \in live \/ ~ hdr'[b[1]].magic \/ b[1] \in Building'
    /\ Building \subseteq Building'
    /\ \A c \in Ctx : pc'[c] = "a_split" => ~ hdr'[blk'[c]].magic

LEMMA HeapMoveKeeps ==
    ASSUME MInv, HeapMove
    PROVE  /\ ListsOK' /\ PagesOK' /\ ObjsOK' /\ MagicOK'
           /\ SlabPages' = SlabPages /\ slabs' = slabs
<1> USE DEF MInv, SlabInv
<1>1. ListsOK' /\ PagesOK' /\ ObjsOK' /\ SlabPages' = SlabPages /\ slabs' = slabs
  BY HeapStepKeeps DEF HeapMove, HeapStep
<1>2. \A b \in FreeBlocks \union live : b[1] \in Frames
  BY Starts, InHeap DEF IInv
<1>3. \A b \in FreeBlocks' : ~ hdr'[b[1]].magic
  BY <1>2 DEF HeapMove, MagicOK
<1>4. \A b \in live' : b[1] \notin SlabPages' \union Building' => ~ hdr'[b[1]].magic
  BY <1>1, <1>2 DEF HeapMove, MagicOK
<1>5. MagicOK'
  BY <1>3, <1>4 DEF HeapMove, MagicOK
<1> QED
  BY <1>1, <1>5

(* What the slabs have of the heap.                                        *)
LEMMA PagesLive ==
    ASSUME MInv
    PROVE  /\ \A p \in SlabPages : <<p, 0>> \in live /\ p \in Frames /\ hdr[p].magic
           /\ hdr \in [Frames -> Headers]
<1> USE DEF MInv, SlabInv
<1>1. ASSUME NEW p \in SlabPages PROVE <<p, 0>> \in live /\ p \in Frames /\ hdr[p].magic
  <2>1. PICK k \in Caches : p \in Ran(slabs[k])
    BY OnLists
  <2> QED
    BY <2>1 DEF PagesOK, SlabOK, SlabTypes, Ran
<1> QED
  BY <1>1 DEF SlabTypes

(* Steps that change neither the lists nor the owners.                     *)
LEMMA CalmMove ==
    ASSUME MInv, NEW c \in Ctx, EntriesKept, UNCHANGED <<hdr, link, slabs, objs>>,
           free_area' = free_area, live' = live, pc'[c] # "a_split", Building' = Building
    PROVE  HeapMove
<1>1. HeapStep
  BY PagesLive DEF HeapStep
<1>2. FreeBlocks' = FreeBlocks
  BY DEF FreeBlocks
<1>3. \A d \in Ctx : d = c
  BY OneObjs
<1> QED
  BY <1>1, <1>2, <1>3 DEF HeapMove

(* buddy_alloc takes the head of a list: it has no magic number.           *)
LEMMA FindMove ==
    ASSUME MInv, NEW c \in Ctx, AllocFind(c), UNCHANGED slabvars
    PROVE  HeapMove
<1> USE DEF MInv
<1>0. EntriesKept
  BY AllocFindInv DEF StepOK
<1>1. PICK o \in Orders :
          /\ FirstFit(req[c], o)
          /\ blk' = [blk EXCEPT ![c] = Head(free_area[o])]
          /\ free_area' = [free_area EXCEPT ![o] = Tail(@)]
  BY DEF AllocFind
<1>2. free_area[o] \in Seq(Frames) /\ NoDup(free_area[o]) /\ free_area[o] # <<>>
  BY <1>1 DEF FirstFit, IInv, FreeAreaOK
<1> DEFINE t == Tail(free_area[o])
<1>3. /\ t \in Seq(Frames) /\ Ran(t) \subseteq Ran(free_area[o]) \union {}
      /\ Head(free_area[o]) \in Ran(free_area[o]) /\ Head(free_area[o]) \in Frames
  BY <1>2, ListPop
<1>4. \A b \in FreeBlocks' : b \in FreeBlocks
  <2>1. free_area' = [free_area EXCEPT ![o] = t]
    BY <1>1
  <2>2. PICK X : X = {}
    OBVIOUS
  <2>3. t \in Seq(Frames) /\ Ran(t) \subseteq Ran(free_area[o]) \union X /\ FreeAreaOK
    BY <1>3 DEF IInv
  <2> HIDE DEF t
  <2>4. \A b \in FreeBlocks' : b \in FreeBlocks \/ b[1] \in X
    BY <2>1, <2>3, FreeSub
  <2> QED
    BY <2>2, <2>4
<1>5. <<Head(free_area[o]), o>> \in FreeBlocks
  BY <1>3, FreeBlocksRan
<1>6. blk'[c] = Head(free_area[o])
  BY <1>1 DEF IInv, VarsOK
<1>7. live' = live /\ UNCHANGED <<hdr, link, slabs, objs, sub, loc>>
  BY DEF AllocFind, slabvars
<1>8. ~ hdr[blk'[c]].magic
  BY <1>5, <1>6 DEF SlabInv, MagicOK
<1>9. HeapStep
  BY <1>0, <1>7, PagesLive DEF HeapStep
<1>10. Building' = Building
  BY <1>7 DEF Building
<1> QED
  BY <1>4, <1>7, <1>8, <1>9, <1>10, OneObjs DEF HeapMove

(* buddy_alloc hands its block out, which had no magic number.             *)
LEMMA DoneMove ==
    ASSUME MInv, NEW c \in Ctx, AllocDone(c), UNCHANGED <<hdr, link, slabs, objs>>,
           Building \subseteq Building'
    PROVE  HeapMove
<1> USE DEF MInv
<1>0. EntriesKept
  BY AllocDoneInv DEF StepOK
<1>1. /\ pc[c] = "a_split" /\ pc'[c] = "idle" /\ free_area' = free_area
      /\ live' = live \union {<<blk[c], req[c]>>}
  BY DEF AllocDone, Return, IInv, VarsOK
<1>2. ~ hdr[blk[c]].magic
  BY <1>1 DEF SlabInv, MagicOK
<1>3. HeapStep
  BY <1>0, <1>1, PagesLive DEF HeapStep
<1>4. FreeBlocks' = FreeBlocks
  BY <1>1 DEF FreeBlocks
<1>5. \A d \in Ctx : d = c
  BY OneObjs
<1>6. \A b \in live' : b \in live \/ ~ hdr'[b[1]].magic
  BY <1>1, <1>2
<1> QED
  BY <1>1, <1>3, <1>4, <1>5, <1>6 DEF HeapMove

(* A block that is no slab is given back.                                  *)
LEMMA FreeMove ==
    ASSUME MInv, NEW c \in Ctx, NEW i \in Frames, FreeCall(c, i), i \notin SlabPages,
           UNCHANGED slabvars
    PROVE  HeapMove
<1> USE DEF MInv
<1>0. EntriesKept
  BY FreeCallInv DEF StepOK
<1>1. /\ pc'[c] = "f_lock" /\ free_area' = free_area
      /\ live' = live \ {<<i, frames[i].order>>}
  BY DEF FreeCall, IInv, VarsOK
<1>2. UNCHANGED <<hdr, link, slabs, objs, sub, loc>>
  BY DEF slabvars
<1>3. HeapStep
  BY <1>0, <1>1, <1>2, PagesLive DEF HeapStep
<1>4. FreeBlocks' = FreeBlocks /\ Building' = Building
  BY <1>1, <1>2 DEF FreeBlocks, Building
<1>5. \A d \in Ctx : d = c
  BY OneObjs
<1> QED
  BY <1>1, <1>2, <1>3, <1>4, <1>5 DEF HeapMove

(* Joining takes a block from a list.                                      *)
LEMMA JoinMove ==
    ASSUME MInv, NEW c \in Ctx, pc[c] \in Merging, Join(c),
           UNCHANGED <<memlock, pc, req, usr, live>>, UNCHANGED slabvars
    PROVE  HeapMove
<1> USE DEF MInv
<1>0. EntriesKept
  BY JoinInv DEF StepOK
<1> DEFINE o == ord[c]
           j == Buddy(blk[c], o)
           t == list_remove(free_area[o], j)
<1>1. o \in Orders /\ free_area' = [free_area EXCEPT ![o] = t]
  BY DEF Join, IInv, VarsOK
<1>2. j \in Ran(free_area[o])
  <2>1. <<j, o>> \in FreeBlocks
    BY MergeableIsFree DEF Join
  <2> QED
    BY <2>1 DEF FreeBlocks, Ran
<1>3. t \in Seq(Frames) /\ Ran(t) = Ran(free_area[o]) \ {j}
  BY <1>1, <1>2, ListRemove DEF IInv, FreeAreaOK
<1> HIDE DEF o, j, t
<1>4. \A b \in FreeBlocks' : b \in FreeBlocks
  <2>1. Ran(t) \subseteq Ran(free_area[o]) \union {}
    BY <1>3
  <2> QED
    BY <1>1, <1>3, <2>1, FreeSub DEF IInv
<1>5. UNCHANGED <<hdr, link, slabs, objs, sub, loc>>
  BY DEF slabvars
<1>6. HeapStep
  BY <1>0, <1>5, PagesLive DEF HeapStep
<1>7. Building' = Building
  BY <1>5 DEF Building
<1>8. \A d \in Ctx : d = c /\ pc'[d] # "a_split"
  BY OneObjs DEF Merging
<1> QED
  BY <1>4, <1>5, <1>6, <1>7, <1>8 DEF HeapMove

(* A block goes on a list and loses the magic number it may have.          *)
LEMMA PutMove ==
    ASSUME MInv, IInv', EntriesKept, NEW c \in Ctx, NEW i \in Frames, NEW o \in Orders,
           free_area' = [free_area EXCEPT ![o] = list_add(@, i)],
           hdr' = Overwritten(hdr, i), UNCHANGED <<link, slabs, objs, sub, loc, live>>,
           pc'[c] = "a_split" => pc[c] = "a_split" /\ blk'[c] = blk[c]
    PROVE  HeapMove
<1> USE DEF MInv
<1> DEFINE t == list_add(free_area[o], i)
<1>1. t \in Seq(Frames) /\ Ran(t) = Ran(free_area[o]) \union {i}
  BY ListAdd DEF IInv, FreeAreaOK
<1>2. free_area' = [free_area EXCEPT ![o] = t] /\ free_area'[o] = t
  BY DEF IInv, FreeAreaOK
<1> HIDE DEF t
<1>3. \A b \in FreeBlocks' : b \in FreeBlocks \/ b[1] \in {i}
  <2>1. PICK X : X = {i}
    OBVIOUS
  <2>2. FreeAreaOK /\ Ran(t) \subseteq Ran(free_area[o]) \union X
    BY <1>1, <2>1 DEF IInv
  <2>3. \A b \in FreeBlocks' : b \in FreeBlocks \/ b[1] \in X
    BY <1>1, <1>2, <2>2, FreeSub
  <2> QED
    BY <2>1, <2>3
<1>4. /\ hdr' \in [Frames -> Headers] /\ ~ hdr'[i].magic
      /\ \A p \in Frames : p # i => hdr'[p] = hdr[p]
      /\ \A p \in Frames : ~ hdr[p].magic => ~ hdr'[p].magic
  BY PagesLive, OverwrittenIs
<1>5. <<i, o>> \in FreeBlocks'
  <2>1. i \in Ran(t)
    BY <1>1
  <2>2. \E k \in DOMAIN free_area'[o] : free_area'[o][k] = i
    BY <1>2, <2>1 DEF Ran
  <2> QED
    BY <2>2 DEF FreeBlocks
<1>6. i \notin SlabPages
  <2>1. SUFFICES ASSUME i \in SlabPages PROVE FALSE
    OBVIOUS
  <2>2. <<i, 0>> \in live'
    BY <2>1, PagesLive
  <2>3. Tiling(Pieces') /\ <<i, 0>> \in Pieces' /\ <<i, o>> \in Pieces' /\ FreeBlocks' \cap live' = {}
    BY <1>5, <2>2 DEF IInv, Pieces, Apart
  <2>4. <<i, 0>>[1] = <<i, o>>[1]
    OBVIOUS
  <2>5. <<i, 0>> = <<i, o>>
    BY <2>3, <2>4, StartsApart
  <2> QED
    BY <1>5, <2>2, <2>3, <2>5
<1>7. \A p \in SlabPages : hdr'[p] = hdr[p]
  BY <1>4, <1>6, PagesLive
<1>8. HeapStep
  BY <1>4, <1>7, PagesLive DEF HeapStep
<1>9. Building' = Building
  BY DEF Building
<1>10. \A d \in Ctx : pc'[d] = "a_split" => ~ hdr'[blk'[d]].magic
  <2>1. \A d \in Ctx : d = c
    BY OneObjs
  <2>2. blk[c] \in Frames /\ (pc[c] = "a_split" => ~ hdr[blk[c]].magic)
    BY DEF IInv, VarsOK, SlabInv, MagicOK
  <2> QED
    BY <1>4, <2>1, <2>2
<1> QED
  BY <1>3, <1>4, <1>8, <1>9, <1>10 DEF HeapMove

(* What is left to show of a step that leaves the slabs alone.             *)
LEMMA MoveInv ==
    ASSUME MInv, HeapMove, IInv', SubOK',
           sub' \in [Ctx -> {"none", "take", "page", "build"}], loc' \in [Ctx -> Locals]
    PROVE  SlabInv' /\ IInv'
<1>1. SlabTypes'
  BY DEF HeapMove, HeapStep, SlabTypes, MInv, SlabInv
<1> QED
  BY <1>1, HeapMoveKeeps DEF SlabInv

(* A context that is in buddy_alloc or buddy_free stays in slab_alloc if   *)
(* it was there.                                                           *)
LEMMA SubMove ==
    ASSUME MInv, NEW c \in Ctx, sub' = sub, loc' = loc, pc[c] # "idle" \/ sub[c] = "none",
           sub[c] = "page" => /\ pc'[c] \in {"a_lock", "a_find", "a_split"}
                              /\ req'[c] = req[c] /\ usr'[c] = usr[c]
    PROVE  /\ SubOK' /\ sub' \in [Ctx -> {"none", "take", "page", "build"}]
           /\ loc' \in [Ctx -> Locals] /\ Building' = Building
<1> USE DEF MInv, SlabInv
<1>1. sub[c] # "take" /\ sub[c] # "build"
  BY DEF SubOK, Taking, Making
<1>2. sub[c] = "page" => Paging(c)'
  BY DEF SubOK, Paging
<1>3. \A d \in Ctx : d = c
  BY OneObjs
<1>4. SubOK'
  BY <1>1, <1>2, <1>3 DEF SubOK
<1> QED
  BY <1>4 DEF SlabTypes, Building

NoReap(c) == pc[c] \notin Reaping /\ pc'[c] \notin Reaping

(* munmap_all_user is not under way.                                       *)
LEMMA NoReapKeeps ==
    ASSUME MInv, NEW c \in Ctx, NoReap(c), UNCHANGED <<scan, adv>>
    PROVE  ReapOK'
<1>1. \A d \in Ctx : d = c
  BY OneObjs
<1>2. scan'[c] = 0 /\ pc'[c] # "r_merge"
  BY DEF MInv, ReapOK, NoReap, Reaping
<1> QED
  BY <1>1, <1>2 DEF MInv, ReapOK, NoReap

(* slab_alloc asks for a page.                                             *)
LEMMA GrowInv ==
    ASSUME MInv, NEW c \in Ctx, NEW k \in Caches, SlabGrow(c, k)
    PROVE  SlabInv' /\ IInv' /\ NoReap(c)
<1> USE DEF MInv, SlabInv
<1>1. /\ pc[c] = "idle" /\ sub[c] = "none" /\ AllocCall(c, 0, FALSE)
      /\ sub' = [sub EXCEPT ![c] = "page"] /\ loc' = [loc EXCEPT ![c].cache = k]
      /\ UNCHANGED <<hdr, link, slabs, objs>>
  BY DEF SlabGrow, Ready
<1>2. IInv' /\ EntriesKept
  <2>1. 0 \in Orders
    BY SizeFacts DEF Orders
  <2> QED
    BY <1>1, <2>1, AllocCallInv DEF StepOK
<1>3. /\ pc'[c] = "a_lock" /\ req'[c] = 0 /\ usr'[c] = FALSE
      /\ free_area' = free_area /\ live' = live
  BY <1>1 DEF AllocCall, IInv, VarsOK
<1>4. /\ sub' \in [Ctx -> {"none", "take", "page", "build"}] /\ sub'[c] = "page"
      /\ loc' \in [Ctx -> Locals] /\ loc'[c].cache = k
  <2>1. loc[c] \in Locals
    BY DEF SlabTypes
  <2> DEFINE l == [loc[c] EXCEPT !.cache = k]
  <2>2. l \in Locals /\ l.cache = k
    BY <2>1 DEF Locals
  <2>3. loc' = [loc EXCEPT ![c] = l]
    BY <1>1
  <2> HIDE DEF l
  <2> QED
    BY <1>1, <2>2, <2>3 DEF SlabTypes
<1>5. Building' = Building
  BY <1>1, <1>4, OneObjs
<1>6. HeapMove
  BY <1>1, <1>2, <1>3, <1>5, CalmMove
<1>7. Paging(c)'
  BY <1>3, <1>4 DEF Paging
<1>8. SubOK'
  BY <1>4, <1>7, OneObjs DEF SubOK
<1>9. NoReap(c)
  BY <1>1, <1>3 DEF NoReap, Reaping
<1> QED
  BY <1>2, <1>4, <1>6, <1>8, <1>9, MoveInv

(* ... gets none, ...                                                      *)
LEMMA NullInv ==
    ASSUME MInv, NEW c \in Ctx, SlabNull(c)
    PROVE  SlabInv' /\ IInv' /\ NoReap(c)
<1> USE DEF MInv, SlabInv
<1>1. /\ sub[c] = "page" /\ AllocNull(c) /\ pc[c] = "a_find"
      /\ sub' = [sub EXCEPT ![c] = "none"] /\ loc' = [loc EXCEPT ![c] = NoLocals]
      /\ UNCHANGED <<hdr, link, slabs, objs>>
  BY DEF SlabNull, AllocNull
<1>2. IInv' /\ EntriesKept
  BY <1>1, AllocNullInv DEF StepOK
<1>3. pc'[c] = "idle" /\ free_area' = free_area /\ live' = live
  BY <1>1 DEF AllocNull, Return, IInv, VarsOK
<1>4. /\ sub' \in [Ctx -> {"none", "take", "page", "build"}] /\ sub'[c] = "none"
      /\ loc' \in [Ctx -> Locals]
  <2>1. NoLocals \in Locals
    BY RootBlock DEF NoLocals, Locals
  <2> QED
    BY <1>1, <2>1 DEF SlabTypes
<1>5. Building' = Building
  BY <1>1, <1>4, OneObjs
<1>6. HeapMove
  BY <1>1, <1>2, <1>3, <1>5, CalmMove
<1>7. SubOK'
  BY <1>4, OneObjs DEF SubOK
<1>8. NoReap(c)
  BY <1>1, <1>3 DEF NoReap, Reaping
<1> QED
  BY <1>2, <1>4, <1>6, <1>7, <1>8, MoveInv

(* ... or gets one, which is nobody's slab.                                *)
LEMMA PageInv ==
    ASSUME MInv, NEW c \in Ctx, SlabPage(c)
    PROVE  SlabInv' /\ IInv' /\ NoReap(c)
<1> USE DEF MInv, SlabInv
<1>1. /\ sub[c] = "page" /\ AllocDone(c) /\ pc[c] = "a_split"
      /\ sub' = [sub EXCEPT ![c] = "build"] /\ loc' = [loc EXCEPT ![c].s = blk[c]]
      /\ UNCHANGED <<hdr, link, slabs, objs>>
  BY DEF SlabPage, AllocDone
<1>2. IInv' /\ EntriesKept
  BY <1>1, AllocDoneInv DEF StepOK
<1>3. req[c] = 0 /\ ~ usr[c] /\ loc[c].cache \in Caches /\ blk[c] \in Frames
  BY <1>1 DEF SubOK, Paging, IInv, VarsOK
<1>4. /\ pc'[c] = "idle" /\ <<blk[c], 0>> \in live'
      /\ frames'[blk[c]] = Entry(0, TRUE, usr[c])
  BY <1>1, <1>3 DEF AllocDone, Return, IInv, VarsOK
<1>5. /\ sub' \in [Ctx -> {"none", "take", "page", "build"}] /\ sub'[c] = "build"
      /\ loc' \in [Ctx -> Locals] /\ loc'[c].s = blk[c] /\ loc'[c].cache \in Caches
  <2>1. loc[c] \in Locals
    BY DEF SlabTypes
  <2> DEFINE l == [loc[c] EXCEPT !.s = blk[c]]
  <2>2. l \in Locals /\ l.s = blk[c] /\ l.cache = loc[c].cache
    BY <1>3, <2>1 DEF Locals
  <2>3. loc' = [loc EXCEPT ![c] = l]
    BY <1>1
  <2> HIDE DEF l
  <2> QED
    BY <1>1, <1>3, <2>2, <2>3 DEF SlabTypes
<1>6. Building \subseteq Building'
  BY <1>1, OneObjs
<1>7. HeapMove
  BY <1>1, <1>6, DoneMove
<1>8. blk[c] \notin SlabPages
  <2>1. SUFFICES ASSUME blk[c] \in SlabPages PROVE FALSE
    OBVIOUS
  <2>2. <<blk[c], 0>> \in live
    BY <2>1, PagesLive
  <2>3. c \in Holding /\ Hand(c)[1] = blk[c]
    BY <1>1 DEF Holding, Hand
  <2>4. Hand(c) \in Pieces /\ <<blk[c], 0>> \in Pieces /\ Hand(c) \notin live
    BY <2>2, <2>3, Starts DEF IInv, Apart
  <2>5. <<blk[c], 0>>[1] = Hand(c)[1]
    BY <2>3
  <2>6. <<blk[c], 0>> = Hand(c)
    BY <2>4, <2>5, StartsApart DEF IInv
  <2> QED
    BY <2>2, <2>4, <2>6
<1>9. SlabPages' = SlabPages
  BY <1>7, HeapMoveKeeps
<1>10. Making(c)'
  BY <1>3, <1>4, <1>5, <1>8, <1>9 DEF Making, Entry
<1>11. SubOK'
  BY <1>5, <1>10, OneObjs DEF SubOK
<1>12. NoReap(c)
  BY <1>1, <1>4 DEF NoReap, Reaping
<1> QED
  BY <1>2, <1>5, <1>7, <1>11, <1>12, MoveInv

(* kmalloc of a block, mmap_user, page_alloc.                              *)
LEMMA BlockAllocInv ==
    ASSUME MInv, NEW c \in Ctx, NEW o \in Orders, NEW u \in BOOLEAN, BlockAlloc(c, o, u)
    PROVE  SlabInv' /\ IInv' /\ NoReap(c)
<1> USE DEF MInv, SlabInv
<1>1. /\ pc[c] = "idle" /\ sub[c] = "none" /\ AllocCall(c, o, u)
      /\ UNCHANGED <<hdr, link, slabs, objs>> /\ sub' = sub /\ loc' = loc
  BY DEF BlockAlloc, Ready, slabvars
<1>2. IInv' /\ EntriesKept
  BY <1>1, AllocCallInv DEF StepOK
<1>3. pc'[c] = "a_lock" /\ free_area' = free_area /\ live' = live
  BY <1>1 DEF AllocCall, IInv, VarsOK
<1>4. /\ SubOK' /\ sub' \in [Ctx -> {"none", "take", "page", "build"}]
      /\ loc' \in [Ctx -> Locals] /\ Building' = Building
  BY <1>1, SubMove
<1>5. HeapMove
  BY <1>1, <1>2, <1>3, <1>4, CalmMove
<1>6. NoReap(c)
  BY <1>1, <1>3 DEF NoReap, Reaping
<1> QED
  BY <1>2, <1>4, <1>5, <1>6, MoveInv

(* kfree and munmap_user of a block.                                       *)
LEMMA BlockFreeInv ==
    ASSUME MInv, NEW c \in Ctx, NEW i \in Frames, BlockFree(c, i)
    PROVE  SlabInv' /\ IInv' /\ NoReap(c)
<1> USE DEF MInv, SlabInv
<1>1. /\ pc[c] = "idle" /\ sub[c] = "none" /\ FreeCall(c, i) /\ i \notin SlabPages
      /\ UNCHANGED slabvars /\ sub' = sub /\ loc' = loc
  BY DEF BlockFree, Ready, slabvars
<1>2. IInv'
  BY <1>1, FreeCallInv
<1>3. pc'[c] = "f_lock"
  BY <1>1 DEF FreeCall, IInv, VarsOK
<1>4. /\ SubOK' /\ sub' \in [Ctx -> {"none", "take", "page", "build"}]
      /\ loc' \in [Ctx -> Locals]
  BY <1>1, SubMove
<1>5. HeapMove
  BY <1>1, FreeMove
<1>6. NoReap(c)
  BY <1>1, <1>3 DEF NoReap, Reaping
<1> QED
  BY <1>2, <1>4, <1>5, <1>6, MoveInv

(* One turn of the splitting loop.                                         *)
LEMMA SplitInv ==
    ASSUME MInv, NEW c \in Ctx, BuddySplit(c)
    PROVE  SlabInv' /\ IInv' /\ NoReap(c)
<1> USE DEF MInv, SlabInv
<1> DEFINE o == ord[c] - 1
           i == Buddy(blk[c], o)
<1>1. /\ AllocSplit(c) /\ hdr' = Overwritten(hdr, i) /\ sub' = sub /\ loc' = loc
      /\ UNCHANGED <<link, slabs, sub, loc, objs>>
  BY DEF BuddySplit
<1>2. IInv' /\ EntriesKept
  BY <1>1, AllocSplitInv DEF StepOK
<1>3. /\ pc[c] = "a_split" /\ pc' = pc /\ blk' = blk /\ live' = live /\ req' = req /\ usr' = usr
      /\ free_area' = [free_area EXCEPT ![o] = list_add(@, i)] /\ ord'[c] = o
  BY <1>1 DEF AllocSplit, IInv, VarsOK
<1>4. o \in Orders /\ i \in Frames
  <2>1. o \in Orders
    BY <1>2, <1>3 DEF IInv, VarsOK
  <2>2. <<blk[c], ord[c]>> \in Blocks /\ ord[c] \in Orders /\ ord[c] = o + 1
    <3>1. c \in Holding
      BY <1>3 DEF Holding
    <3>2. Hand(c) \in Blocks
      BY <3>1, Starts DEF IInv
    <3>3. ord[c] \in Orders /\ ord[c] = o + 1
      BY SizeFacts DEF IInv, VarsOK, Orders
    <3> QED
      BY <3>2, <3>3 DEF Hand
  <2>3. i = blk[c] + Size[o]
    BY <2>2 DEF Buddy, Blocks
  <2>4. <<blk[c] + Size[o], o>> \in Blocks
    BY <2>1, <2>2, Halves
  <2> QED
    BY <2>1, <2>3, <2>4, InHeap
<1> HIDE DEF o, i
<1>5. UNCHANGED <<link, slabs, objs, sub, loc, live>>
  BY <1>1, <1>3
<1>6. HeapMove
  BY <1>1, <1>2, <1>3, <1>4, <1>5, PutMove
<1>7. /\ SubOK' /\ sub' \in [Ctx -> {"none", "take", "page", "build"}]
      /\ loc' \in [Ctx -> Locals]
  BY <1>1, <1>3, SubMove
<1>8. NoReap(c)
  BY <1>3 DEF NoReap, Reaping
<1> QED
  BY <1>2, <1>6, <1>7, <1>8, MoveInv

(* The end of buddy_free.                                                  *)
LEMMA BuddyDoneInv ==
    ASSUME MInv, NEW c \in Ctx, BuddyFreeDone(c)
    PROVE  SlabInv' /\ IInv' /\ NoReap(c)
<1> USE DEF MInv, SlabInv
<1>1. /\ FreeDone(c) /\ hdr' = Overwritten(hdr, blk[c]) /\ sub' = sub /\ loc' = loc
      /\ UNCHANGED <<link, slabs, sub, loc, objs>>
  BY DEF BuddyFreeDone
<1>2. IInv' /\ EntriesKept
  BY <1>1, FreeDoneInv DEF StepOK
<1>3. /\ pc[c] = "f_merge" /\ pc'[c] = "idle" /\ live' = live
      /\ free_area' = [free_area EXCEPT ![ord[c]] = list_add(@, blk[c])]
      /\ ord[c] \in Orders /\ blk[c] \in Frames
  BY <1>1 DEF FreeDone, PutBack, Return, IInv, VarsOK
<1>4. UNCHANGED <<link, slabs, objs, sub, loc, live>>
  BY <1>1, <1>3
<1>5. HeapMove
  BY <1>1, <1>2, <1>3, <1>4, PutMove
<1>6. sub[c] # "page"
  BY <1>3 DEF SubOK, Paging
<1>7. /\ SubOK' /\ sub' \in [Ctx -> {"none", "take", "page", "build"}]
      /\ loc' \in [Ctx -> Locals]
  BY <1>1, <1>3, <1>6, SubMove
<1>8. NoReap(c)
  BY <1>3 DEF NoReap, Reaping
<1> QED
  BY <1>2, <1>5, <1>7, <1>8, MoveInv

(* slab_free of the last object: the slab is taken from its list and the   *)
(* page, which still has the magic number, is given back.                  *)
LEMMA ReleaseInv ==
    ASSUME MInv, NEW c \in Ctx, NEW p \in Frames, NEW n \in Slots, SlabRelease(c, p, n)
    PROVE  SlabInv' /\ IInv' /\ NoReap(c)
<1> USE DEF MInv, SlabInv
<1> DEFINE h == [NoHeader EXCEPT !.magic = TRUE]
           O == objs[c] \ {<<p, n>>}
<1>1. /\ <<p, n>> \in objs[c] /\ pc[c] = "idle" /\ sub[c] = "none"
      /\ Pushed(hdr[p], n).in_use = 0
      /\ hdr' = [hdr EXCEPT ![p] = h] /\ link' = [link EXCEPT ![p] = NoLinks]
      /\ slabs' = [slabs EXCEPT ![hdr[p].cache] = Unlinked(@, p)]
      /\ objs' = [objs EXCEPT ![c] = O]
      /\ live' = live \ {<<p, 0>>} /\ blk' = [blk EXCEPT ![c] = p]
      /\ ord' = [ord EXCEPT ![c] = 0] /\ pc' = [pc EXCEPT ![c] = "f_lock"]
      /\ UNCHANGED <<frames, free_area, memlock, req, usr>> /\ sub' = sub /\ loc' = loc
  BY DEF SlabRelease, Ready
<1>2. PICK k \in Caches : p \in Ran(slabs[k]) /\ SlabOK(k, hdr[p], link[p], Used(p))
  BY <1>1, HeldObject
<1>3. n \in Used(p) /\ hdr[p] \in Headers /\ hdr[p].cache = k
  BY <1>1, <1>2, HeldObject DEF SlabOK
<1>4. Used(p) = {n}
  BY <1>1, <1>2, <1>3, LastObject
<1>5. p \in SlabPages /\ <<p, 0>> \in live /\ ~ frames[p].user
  BY <1>2, OnLists DEF PagesOK
<1>6. FreeCall(c, p)
  <2>1. <<p, 0>> \in Owned
    BY <1>5 DEF Owned
  <2>2. <<p, 0>>[1] = p /\ <<p, 0>>[2] = 0
    OBVIOUS
  <2>3. frames[p].order = 0 /\ frames[p].alloc
    BY <2>1, <2>2 DEF IInv, FlagsExact
  <2>4. \A d \in Ctx : d = c
    BY OneObjs
  <2>5. \A d \in Ctx : pc[d] = "f_lock" => blk[d] # p
    BY <1>1, <2>4
  <2> QED
    BY <1>1, <2>3, <2>5 DEF FreeCall
<1>7. IInv'
  BY <1>6, FreeCallInv
<1>8. pc'[c] = "f_lock" /\ \A d \in Ctx : d = c
  BY <1>1, OneObjs DEF IInv, VarsOK
<1>9. NoReap(c)
  BY <1>1, <1>8 DEF NoReap, Reaping
<1>10. h \in Headers /\ NoLinks \in LinkTables
  <2>0. NoHeader \in Headers
    BY DEF NoHeader, Headers
  <2>1. h \in Headers
    BY <2>0 DEF Headers
  <2>2. NoLinks \in LinkTables
    BY DEF NoLinks, LinkTables
  <2> QED
    BY <2>1, <2>2
<1>11. O \in SUBSET (Frames \X Slots) /\ \A m \in Slots : <<p, m>> \notin O
  <2>1. O \in SUBSET (Frames \X Slots)
    BY DEF SlabTypes
  <2>2. AllObjs = objs[c]
    BY OneObjs
  <2>3. \A m \in Slots : <<p, m>> \in objs[c] => m = n
    BY <1>4, <2>2 DEF Used
  <2> QED
    BY <2>1, <2>3
<1>12. \A x \in Frames \X Slots : x[1] # p => (x \in O <=> x \in objs[c])
  OBVIOUS
<1>13. \A x \in O : x \in objs[c] /\ x[1] # p
  BY <1>11
<1> HIDE DEF h, O
<1> DEFINE t == list_remove(slabs[k], p)
<1>14. t \in Seq(Frames) /\ NoDup(t) /\ Ran(t) = Ran(slabs[k]) \ {p}
  BY <1>2, ListRemove DEF SlabTypes, ListsOK
<1>15. slabs' = [slabs EXCEPT ![k] = t]
  BY <1>1, <1>3 DEF Unlinked
<1> HIDE DEF t
<1>16. /\ hdr' \in [Frames -> Headers]
       /\ \A q \in Frames : q # p => hdr'[q] = hdr[q]
  BY <1>1, <1>10 DEF SlabTypes
<1>17. /\ link' \in [Frames -> LinkTables]
       /\ \A q \in Frames : q # p => link'[q] = link[q]
  BY <1>1, <1>10 DEF SlabTypes
<1>18. objs' \in [Ctx -> SUBSET (Frames \X Slots)] /\ objs'[c] = O /\ AllObjs' = O
  BY <1>1, <1>11, OneObjs DEF SlabTypes
<1>19. /\ slabs' \in [Caches -> Seq(Frames)] /\ slabs'[k] = t
       /\ \A m \in Caches : m # k => slabs'[m] = slabs[m]
  BY <1>14, <1>15 DEF SlabTypes
<1>20. SlabTypes'
  BY <1>1, <1>16, <1>17, <1>18, <1>19 DEF SlabTypes
<1>21. \A m \in Caches : p \in Ran(slabs[m]) => m = k
  BY <1>2 DEF ListsOK
<1>22. ASSUME NEW m \in Caches PROVE Ran(slabs'[m]) = Ran(slabs[m]) \ {p}
  BY <1>14, <1>19, <1>21
<1>23. ASSUME NEW q PROVE q \in SlabPages' <=> q \in SlabPages /\ q # p
  <2>1. q \in SlabPages' <=> \E m \in Caches : q \in Ran(slabs'[m])
    BY DEF SlabPages, Ran
  <2> QED
    BY <1>22, <2>1, OnLists
<1>24. ListsOK'
  <2>1. \A m \in Caches : NoDup(slabs'[m])
    BY <1>14, <1>19 DEF ListsOK
  <2> QED
    BY <1>22, <2>1 DEF ListsOK
<1>25. ObjsOK'
  <2>1. AllObjs = objs[c]
    BY OneObjs
  <2> QED
    BY <1>13, <1>18, <1>23, <2>1 DEF ObjsOK
<1>26. PagesOK'
  <2>1. ASSUME NEW m \in Caches, NEW q \in Ran(slabs'[m])
        PROVE  /\ <<q, 0>> \in live' /\ ~ frames'[q].user
               /\ SlabOK(m, hdr'[q], link'[q], Used(q)')
    <3>1. q \in Ran(slabs[m]) /\ q # p
      BY <1>22
    <3>2. q \in Frames
      BY <3>1 DEF SlabTypes, Ran
    <3>3. Used(q)' = Used(q)
      <4>1. \A i \in Slots : <<q, i>> \in O <=> <<q, i>> \in objs[c]
        BY <1>12, <3>1, <3>2
      <4>2. AllObjs = objs[c]
        BY OneObjs
      <4> QED
        BY <1>18, <4>1, <4>2 DEF Used
    <3>4. /\ <<q, 0>> \in live /\ ~ frames[q].user
          /\ SlabOK(m, hdr[q], link[q], Used(q))
      BY <3>1 DEF PagesOK
    <3> QED
      BY <1>1, <1>16, <1>17, <3>1, <3>2, <3>3, <3>4
  <2> QED
    BY <2>1 DEF PagesOK
<1>27. SubOK'
  BY <1>1, <1>8 DEF SubOK
<1>28. MagicOK'
  <2>1. /\ FreeBlocks \subseteq Pieces /\ live \subseteq Pieces /\ FreeBlocks \cap live = {}
        /\ \A b \in Pieces : b[1] \in Frames
        /\ \A a, b \in Pieces : a[1] = b[1] => a = b
    BY Starts, InHeap DEF IInv, Apart
  <2>2. <<p, 0>>[1] = p
    OBVIOUS
  <2>3. ASSUME NEW b \in FreeBlocks \union live, b # <<p, 0>>
        PROVE  b[1] # p /\ b[1] \in Frames
    BY <1>5, <2>1, <2>2, <2>3
  <2>4. FreeBlocks' = FreeBlocks /\ Building' = Building
    BY <1>1 DEF FreeBlocks, Building
  <2>5. \A b \in FreeBlocks : ~ hdr'[b[1]].magic
    BY <1>5, <1>16, <2>1, <2>3 DEF MagicOK
  <2>6. \A b \in live' : b[1] \notin SlabPages' \union Building' => ~ hdr'[b[1]].magic
    BY <1>1, <1>16, <1>23, <2>3, <2>4 DEF MagicOK
  <2>7. \A d \in Ctx : pc'[d] # "a_split"
    BY <1>8
  <2> QED
    BY <2>4, <2>5, <2>6, <2>7 DEF MagicOK
<1> QED
  BY <1>7, <1>9, <1>20, <1>24, <1>25, <1>26, <1>27, <1>28

(* The steps of buddy_alloc and buddy_free that write no page.             *)
LEMMA BuddyQuietInv ==
    ASSUME MInv, NEW c \in Ctx, BuddyQuiet(c)
    PROVE  SlabInv' /\ IInv' /\ NoReap(c)
<1> USE DEF MInv, SlabInv
<1>1. UNCHANGED slabvars /\ UNCHANGED <<hdr, link, slabs, objs>> /\ sub' = sub /\ loc' = loc
  BY DEF BuddyQuiet, slabvars
<1>2. Building' = Building
  BY <1>1 DEF Building
<1>3. sub[c] = "page" => pc[c] \in {"a_lock", "a_find", "a_split"}
  BY DEF SubOK, Paging
<1> DEFINE Goal == /\ HeapMove /\ IInv' /\ NoReap(c) /\ pc[c] # "idle"
                   /\ sub[c] = "page" => /\ pc'[c] \in {"a_lock", "a_find", "a_split"}
                                         /\ req'[c] = req[c] /\ usr'[c] = usr[c]
<1>4. ASSUME AllocLock(c) PROVE Goal
  <2>1. IInv' /\ EntriesKept
    BY <1>4, AllocLockInv DEF StepOK
  <2>2. /\ pc[c] = "a_lock" /\ pc'[c] = "a_find" /\ free_area' = free_area /\ live' = live
        /\ req' = req /\ usr' = usr
    BY <1>4 DEF AllocLock, IInv, VarsOK
  <2>3. HeapMove
    BY <1>1, <1>2, <2>1, <2>2, CalmMove
  <2> QED
    BY <2>1, <2>2, <2>3 DEF NoReap, Reaping
<1>5. ASSUME AllocFind(c) PROVE Goal
  <2>1. IInv'
    BY <1>5, AllocFindInv
  <2>2. pc[c] = "a_find" /\ pc'[c] = "a_split" /\ req' = req /\ usr' = usr
    BY <1>5 DEF AllocFind, IInv, VarsOK
  <2>3. HeapMove
    BY <1>1, <1>5, FindMove
  <2> QED
    BY <2>1, <2>2, <2>3 DEF NoReap, Reaping
<1>6. ASSUME FreeLock(c) PROVE Goal
  <2>1. IInv' /\ EntriesKept
    BY <1>6, FreeLockInv DEF StepOK
  <2>2. pc[c] = "f_lock" /\ pc'[c] = "f_merge" /\ free_area' = free_area /\ live' = live
    BY <1>6 DEF FreeLock, IInv, VarsOK
  <2>3. HeapMove
    BY <1>1, <1>2, <2>1, <2>2, CalmMove
  <2> QED
    BY <1>3, <2>1, <2>2, <2>3 DEF NoReap, Reaping
<1>7. ASSUME FreeMerge(c) PROVE Goal
  <2>1. IInv'
    BY <1>7, FreeMergeInv
  <2>2. /\ pc[c] = "f_merge" /\ pc' = pc /\ Join(c) /\ UNCHANGED <<memlock, pc, req, usr, live>>
    BY <1>7 DEF FreeMerge
  <2>3. HeapMove
    BY <1>1, <2>2, JoinMove DEF Merging
  <2> QED
    BY <1>3, <2>1, <2>2, <2>3 DEF NoReap, Reaping
<1>8. ASSUME sub[c] = "none" /\ AllocNull(c) PROVE Goal
  <2>1. IInv' /\ EntriesKept
    BY <1>8, AllocNullInv DEF StepOK
  <2>2. pc[c] = "a_find" /\ pc'[c] = "idle" /\ free_area' = free_area /\ live' = live
    BY <1>8 DEF AllocNull, Return, IInv, VarsOK
  <2>3. HeapMove
    BY <1>1, <1>2, <2>1, <2>2, CalmMove
  <2> QED
    BY <1>8, <2>1, <2>2, <2>3 DEF NoReap, Reaping
<1>9. ASSUME sub[c] = "none" /\ AllocDone(c) PROVE Goal
  <2>1. IInv'
    BY <1>9, AllocDoneInv
  <2>2. pc[c] = "a_split" /\ pc'[c] = "idle"
    BY <1>9 DEF AllocDone, Return, IInv, VarsOK
  <2>3. HeapMove
    BY <1>1, <1>2, <1>9, DoneMove
  <2> QED
    BY <1>9, <2>1, <2>2, <2>3 DEF NoReap, Reaping
<1>10. Goal
  BY <1>4, <1>5, <1>6, <1>7, <1>8, <1>9 DEF BuddyQuiet
<1>11. /\ SubOK' /\ sub' \in [Ctx -> {"none", "take", "page", "build"}]
       /\ loc' \in [Ctx -> Locals]
  BY <1>1, <1>10, SubMove
<1> QED
  BY <1>10, <1>11, MoveInv

(* One step of the caches, of buddy_alloc or of buddy_free.                *)
LEMMA SlabNextInv ==
    ASSUME MInv, SlabNext, UNCHANGED <<scan, adv>>
    PROVE  /\ MInv'
           /\ UNCHANGED vars \/ \A c \in Ctx : pc[c] \notin Reaping
<1>1. PICK c \in Ctx :
       \/ \E k \in Caches : SlabFind(c, k) \/ SlabGrow(c, k)
       \/ SlabTake(c) \/ SlabNull(c) \/ SlabPage(c) \/ SlabBuild(c)
       \/ \E p \in Frames, n \in Slots :
             SlabFree(c, p, n) \/ SlabRelease(c, p, n) \/ kcalloc(c, p, n)
       \/ \E o \in Orders : BlockAlloc(c, o, FALSE)
       \/ \E i \in Frames : BlockFree(c, i)
       \/ BuddySplit(c) \/ BuddyFreeDone(c) \/ BuddyQuiet(c)
  BY DEF SlabNext
<1>2. CASE \/ \E k \in Caches : SlabFind(c, k)
           \/ SlabTake(c) \/ SlabBuild(c)
           \/ \E p \in Frames, n \in Slots : SlabFree(c, p, n) \/ kcalloc(c, p, n)
  <2>1. UNCHANGED vars
    BY <1>2 DEF SlabFind, SlabTake, SlabBuild, SlabFree, kcalloc
  <2>2. SlabInv' /\ IInv'
    BY <1>2, FindInv, TakeInv, BuildInv, FreeInv, ClearInv
  <2>3. ReapOK'
    BY <2>1, QuietReap
  <2> QED
    BY <2>1, <2>2, <2>3 DEF MInv
<1>3. CASE \/ \E k \in Caches : SlabGrow(c, k)
           \/ SlabNull(c) \/ SlabPage(c)
           \/ \E p \in Frames, n \in Slots : SlabRelease(c, p, n)
           \/ \E o \in Orders : BlockAlloc(c, o, FALSE)
           \/ \E i \in Frames : BlockFree(c, i)
           \/ BuddySplit(c) \/ BuddyFreeDone(c) \/ BuddyQuiet(c)
  <2>1. SlabInv' /\ IInv' /\ NoReap(c)
    BY <1>3, GrowInv, NullInv, PageInv, ReleaseInv, BlockAllocInv, BlockFreeInv, SplitInv,
       BuddyDoneInv, BuddyQuietInv
  <2>2. ReapOK'
    BY <2>1, NoReapKeeps
  <2>3. \A d \in Ctx : pc[d] \notin Reaping
    BY <2>1, OneObjs DEF NoReap
  <2> QED
    BY <2>1, <2>2, <2>3 DEF MInv
<1> QED
  BY <1>1, <1>2, <1>3

-----------------------------------------------------------------------------
(* munmap_all_user.                                                        *)

(* A context moves on with no block in its hands.                          *)
LEMMA WalkInv ==
    ASSUME IInv, NEW c \in Ctx, c \notin Holding, c \notin Holding', NEW l \in Labels,
           pc' = [pc EXCEPT ![c] = l], UNCHANGED <<frames, free_area, live>>,
           \A d \in Ctx : d # c => blk'[d] = blk[d] /\ ord'[d] = ord[d],
           VarsOK', Exclusive'
    PROVE  IInv' /\ EntriesKept
<1> USE DEF IInv
<1>1. \A d \in Ctx : d # c => pc'[d] = pc[d]
  BY DEF VarsOK
<1>2. FreeAreaOK' /\ FreeBlocks' = FreeBlocks
  BY DEF FreeAreaOK, FreeBlocks
<1>3. Holding' = Holding /\ \A d \in Holding : Hand(d)' = Hand(d)
  BY <1>1 DEF Holding, Hand
<1>4. Pieces' = Pieces
  BY <1>2, <1>3 DEF Pieces
<1>5. Tiling(Pieces)'
  BY <1>4
<1>6. Apart'
  BY <1>2, <1>3 DEF Apart
<1>7. pc[c] # "f_lock" /\ pc'[c] # "f_lock" /\ pc[c] \notin Merging /\ pc'[c] \notin Merging
  BY DEF Holding
<1>8. Freeing' = Freeing
  BY <1>1, <1>3, <1>7 DEF Freeing, Hand
<1>9. Owned' = Owned
  BY <1>8 DEF Owned
<1>10. FlagsExact'
  BY <1>2, <1>9 DEF FlagsExact
<1>11. MergeOK'
  BY <1>1, <1>7 DEF MergeOK
<1> QED
  BY <1>2, <1>5, <1>6, <1>9, <1>10, <1>11 DEF EntriesKept

(* What is left to show of a step of munmap_all_user.                      *)
LEMMA ReapMove ==
    ASSUME MInv, NEW c \in Ctx, HeapMove, IInv', sub' = sub, loc' = loc, ReapOK',
           pc[c] # "idle" \/ sub[c] = "none",
           pc[c] \in {"idle", "r_lock"} \union Reaping
    PROVE  MInv'
<1>1. sub[c] # "page"
  BY DEF MInv, SlabInv, SubOK, Paging, Reaping
<1>2. /\ SubOK' /\ sub' \in [Ctx -> {"none", "take", "page", "build"}]
      /\ loc' \in [Ctx -> Locals]
  BY <1>1, SubMove
<1> QED
  BY <1>2, MoveInv DEF MInv

(* The call, and the lock.                                                 *)
LEMMA ReapCallInv ==
    ASSUME MInv, NEW c \in Ctx, Ready(c), ReapCall(c), UNCHANGED slabvars
    PROVE  MInv' /\ pc[c] \notin Reaping
<1> USE DEF MInv
<1>1. /\ pc[c] = "idle" /\ sub[c] = "none" /\ pc' = [pc EXCEPT ![c] = "r_lock"]
      /\ pc'[c] = "r_lock" /\ UNCHANGED <<frames, free_area, memlock, req, usr, blk, ord, live>>
      /\ UNCHANGED <<scan, adv>> /\ UNCHANGED <<hdr, link, slabs, objs>> /\ sub' = sub /\ loc' = loc
  BY DEF Ready, ReapCall, slabvars, IInv, VarsOK
<1>2. c \notin Holding /\ c \notin Holding'
  BY <1>1 DEF Holding, Merging
<1>3. VarsOK' /\ Exclusive'
  <2>1. VarsOK'
    BY <1>1 DEF IInv, VarsOK, Labels
  <2>2. Exclusive'
    BY <1>1 DEF IInv, VarsOK, Exclusive, Locked, Merging
  <2> QED
    BY <2>1, <2>2
<1>4. IInv' /\ EntriesKept
  BY <1>1, <1>2, <1>3, WalkInv DEF Labels
<1>5. HeapMove
  BY <1>1, <1>4, CalmMove DEF Building
<1>6. NoReap(c)
  BY <1>1 DEF NoReap, Reaping
<1>7. ReapOK'
  BY <1>1, <1>6, NoReapKeeps
<1> QED
  BY <1>1, <1>4, <1>5, <1>6, <1>7, ReapMove DEF NoReap

LEMMA ReapLockInv ==
    ASSUME MInv, NEW c \in Ctx, ReapLock(c), UNCHANGED slabvars
    PROVE  MInv' /\ pc[c] \notin Reaping
<1> USE DEF MInv
<1>1. /\ pc[c] = "r_lock" /\ memlock = 0 /\ memlock' = 1 /\ pc' = [pc EXCEPT ![c] = "r_scan"]
      /\ pc'[c] = "r_scan" /\ UNCHANGED <<frames, free_area, req, usr, blk, ord, live>>
      /\ UNCHANGED <<scan, adv>> /\ UNCHANGED <<hdr, link, slabs, objs>> /\ sub' = sub /\ loc' = loc
  BY DEF ReapLock, slabvars, IInv, VarsOK
<1>2. c \notin Holding /\ c \notin Holding'
  BY <1>1 DEF Holding, Merging
<1>3. VarsOK' /\ Exclusive'
  <2>1. VarsOK'
    BY <1>1 DEF IInv, VarsOK, Labels
  <2>2. Exclusive'
    BY <1>1 DEF IInv, VarsOK, Exclusive, Locked, Merging
  <2> QED
    BY <2>1, <2>2
<1>4. IInv' /\ EntriesKept
  BY <1>1, <1>2, <1>3, WalkInv DEF Labels
<1>5. HeapMove
  BY <1>1, <1>4, CalmMove DEF Building
<1>6. ReapOK'
  <2>1. \A d \in Ctx : d = c
    BY OneObjs
  <2>2. scan'[c] = 0 /\ scan' \in [Ctx -> Nat] /\ adv' \in [Ctx -> Orders]
    BY <1>1 DEF ReapOK, Reaping
  <2>3. \A i \in Frames : i >= 0
    BY DEF Frames
  <2>4. 0 <= Size[MAX_ORDER]
    BY RootBlock
  <2>5. \A i \in Frames : ~ (i < 0)
    BY <2>3 DEF Frames
  <2> QED
    BY <1>1, <2>1, <2>2, <2>4, <2>5 DEF ReapOK, Reaping
<1> QED
  BY <1>1, <1>4, <1>5, <1>6, ReapMove DEF Reaping

(* The kernel's blocks stay where they are.                                *)
Spared ==
    \A b \in live : ~ frames[b[1]].user => b \in live' /\ frames'[b[1]] = frames[b[1]]

LEMMA KeptIsSpared ==
    ASSUME EntriesKept, \A b \in live : ~ frames[b[1]].user => b \in live'
    PROVE  Spared
BY DEF EntriesKept, Spared, Owned

(* The scan passes a frame where no block of a user begins.                *)
LEMMA ReapSkipInv ==
    ASSUME MInv, NEW c \in Ctx, ReapSkip(c), UNCHANGED slabvars
    PROVE  MInv' /\ Spared
<1> USE DEF MInv
<1>1. /\ pc[c] = "r_scan" /\ scan[c] \in Frames /\ ~ IsUser(scan[c])
      /\ scan' = [scan EXCEPT ![c] = @ + 1] /\ adv' = adv /\ UNCHANGED vars
      /\ UNCHANGED <<hdr, link, slabs, objs>> /\ sub' = sub /\ loc' = loc
  BY DEF ReapSkip, slabvars, vars
<1>2. /\ IInv' /\ EntriesKept /\ frames' = frames /\ live' = live /\ pc' = pc
  BY <1>1, QuietKeeps
<1>3. HeapMove
  BY <1>1, <1>2, CalmMove DEF Building, vars
<1>4. ReapOK'
  <2>1. \A d \in Ctx : d = c
    BY OneObjs
  <2>2. scan[c] \in Nat /\ scan[c] < Size[MAX_ORDER] /\ Size[MAX_ORDER] \in Nat
    BY <1>1, RootBlock DEF ReapOK, Frames
  <2>3. scan' \in [Ctx -> Nat] /\ scan'[c] = scan[c] + 1 /\ adv' \in [Ctx -> Orders]
    BY <1>1, <2>2 DEF ReapOK
  <2>4. scan'[c] <= Size[MAX_ORDER]
    BY <2>2, <2>3
  <2>5. ASSUME NEW i \in Frames, i < scan'[c] PROVE ~ IsUser(i)
    <3>1. i < scan[c] \/ i = scan[c]
      BY <2>2, <2>3, <2>5, RootBlock DEF Frames
    <3> QED
      BY <1>1, <3>1 DEF ReapOK, Reaping
  <2>6. \A i \in Frames : i < scan'[c] => ~ IsUser(i)'
    BY <1>2, <2>5 DEF IsUser
  <2>7. pc'[c] = "r_scan"
    BY <1>1, <1>2
  <2> QED
    BY <2>1, <2>3, <2>4, <2>6, <2>7 DEF ReapOK, Reaping
<1>5. Spared
  BY <1>2, KeptIsSpared
<1> QED
  BY <1>1, <1>2, <1>3, <1>4, <1>5, ReapMove DEF Reaping

(* An entry with FRAME_ALLOC is that of a block that a caller owns: no     *)
(* other context is about to free one.                                     *)
LEMMA ReapSeesLive ==
    ASSUME MInv, NEW c \in Ctx, pc[c] \in Reaping, NEW i \in Frames, frames[i].alloc
    PROVE  <<i, frames[i].order>> \in live /\ frames[i].order \in Orders
<1> USE DEF MInv
<1>1. \A d \in Ctx : d = c
  BY OneObjs
<1>2. Freeing = {}
  BY <1>1 DEF Freeing, Reaping
<1>3. <<i, frames[i].order>> \in Owned
  BY DEF IInv, FlagsExact
<1>4. frames[i].order \in Orders
  BY DEF IInv, VarsOK, Entries
<1> QED
  BY <1>2, <1>3, <1>4 DEF Owned

(* The scan takes a block of a user.                                       *)
LEMMA ReapTakeInv ==
    ASSUME MInv, NEW c \in Ctx, ReapTake(c), UNCHANGED slabvars
    PROVE  MInv' /\ Spared
<1> USE DEF MInv
<1>1. PICK i \in Frames, o \in Orders :
          /\ i = scan[c] /\ o = frames[i].order /\ frames[i].alloc /\ frames[i].user
          /\ <<i, o>> \in live
  <2>1. pc[c] \in Reaping /\ scan[c] \in Frames /\ frames[scan[c]].alloc /\ frames[scan[c]].user
    BY DEF ReapTake, IsUser, Reaping
  <2> QED
    BY <2>1, ReapSeesLive
<1> DEFINE h == <<i, o>>
<1>2. /\ pc[c] = "r_scan" /\ pc' = [pc EXCEPT ![c] = "r_merge"] /\ pc'[c] = "r_merge"
      /\ live' = live \ {h}
      /\ frames' = [frames EXCEPT ![i] = Entry(o, FALSE, FALSE)]
      /\ blk' = [blk EXCEPT ![c] = i] /\ ord' = [ord EXCEPT ![c] = o]
      /\ adv' = [adv EXCEPT ![c] = o] /\ scan' = scan
      /\ free_area' = free_area /\ memlock' = memlock /\ req' = req /\ usr' = usr
      /\ UNCHANGED <<hdr, link, slabs, objs>> /\ sub' = sub /\ loc' = loc
  BY <1>1 DEF ReapTake, slabvars, IInv, VarsOK
<1>3. \A d \in Ctx : d = c
  BY OneObjs
<1>4. /\ frames'[i] = Entry(o, FALSE, FALSE)
      /\ \A f \in Frames : f # i => frames'[f] = frames[f]
      /\ blk'[c] = i /\ ord'[c] = o /\ adv'[c] = o
  BY <1>2 DEF IInv, VarsOK, ReapOK
<1>5. FreeAreaOK' /\ FreeBlocks' = FreeBlocks
  BY <1>2 DEF IInv, FreeAreaOK, FreeBlocks
<1>6. Holding = {} /\ Holding' = {c} /\ Hand(c)' = h
  BY <1>2, <1>3, <1>4 DEF Holding, Hand, Merging
<1>7. Pieces' = Pieces
  BY <1>1, <1>2, <1>5, <1>6 DEF Pieces
<1>8. Tiling(Pieces)'
  BY <1>7 DEF IInv
<1>9. Apart'
  BY <1>1, <1>2, <1>5, <1>6 DEF IInv, Apart
<1>10. Freeing = {} /\ Freeing' = {} /\ Owned = live /\ Owned' = live \ {h}
  <2>1. Freeing = {} /\ Freeing' = {}
    BY <1>2, <1>3 DEF Freeing
  <2> QED
    BY <1>2, <2>1 DEF Owned
<1>11. ASSUME NEW b \in FreeBlocks \union live, b # h
       PROVE  b[1] \in Frames /\ frames'[b[1]] = frames[b[1]]
  <2>1. b \in Pieces /\ h \in Pieces /\ b[1] \in Frames
    BY <1>1, Starts, InHeap DEF IInv
  <2>2. h[1] = i
    OBVIOUS
  <2>3. b[1] # i
    BY <1>11, <2>1, <2>2, Starts DEF IInv
  <2> QED
    BY <1>4, <2>1, <2>3
<1>12. h \notin FreeBlocks
  BY <1>1 DEF IInv, Apart
<1> HIDE DEF h
<1>13. FlagsExact'
  <2>1. \A b \in FreeBlocks' : frames'[b[1]].order = b[2] /\ ~ frames'[b[1]].alloc
    BY <1>5, <1>11, <1>12 DEF IInv, FlagsExact
  <2>2. \A b \in Owned' : frames'[b[1]].order = b[2] /\ frames'[b[1]].alloc
    BY <1>10, <1>11 DEF IInv, FlagsExact
  <2>3. ASSUME NEW f \in Frames, frames'[f].alloc PROVE <<f, frames'[f].order>> \in Owned'
    <3>1. f # i
      BY <1>4, <2>3 DEF Entry
    <3>2. <<f, frames[f].order>> \in live
      BY <1>4, <1>10, <2>3, <3>1 DEF IInv, FlagsExact
    <3>3. <<f, frames[f].order>> # h
      BY <3>1 DEF h
    <3> QED
      BY <1>4, <1>10, <3>1, <3>2, <3>3
  <2> QED
    BY <2>1, <2>2, <2>3 DEF FlagsExact
<1>14. VarsOK'
  BY <1>2 DEF IInv, VarsOK, Labels, Entry, Entries
<1>15. Exclusive'
  BY <1>2, <1>3 DEF IInv, Exclusive, Locked, Merging
<1>16. MergeOK'
  BY <1>3, <1>4 DEF MergeOK, Entry
<1>17. IInv'
  BY <1>5, <1>8, <1>9, <1>13, <1>14, <1>15, <1>16 DEF IInv
<1>18. EntriesKept
  BY <1>10, <1>11 DEF EntriesKept
<1>19. ASSUME NEW b \in live, ~ frames[b[1]].user PROVE b \in live'
  <2>1. b # h
    BY <1>1, <1>19 DEF h
  <2> QED
    BY <1>2, <2>1
<1>20. ASSUME NEW p \in SlabPages PROVE <<p, 0>> \in live'
  <2>1. <<p, 0>> \in live
    BY PagesLive
  <2>2. ~ frames[p].user
    BY OnLists DEF SlabInv, PagesOK
  <2>3. <<p, 0>>[1] = p
    OBVIOUS
  <2> QED
    BY <1>19, <2>1, <2>2, <2>3
<1>21. HeapMove
  <2>1. HeapStep
    BY <1>2, <1>18, <1>20, PagesLive DEF HeapStep
  <2>2. Building' = Building
    BY <1>2 DEF Building
  <2> QED
    BY <1>2, <1>3, <1>5, <2>1, <2>2 DEF HeapMove
<1>22. ReapOK'
  <2>1. scan' \in [Ctx -> Nat] /\ adv' \in [Ctx -> Orders] /\ scan'[c] = i
    BY <1>1, <1>2 DEF ReapOK
  <2>2. i <= Size[MAX_ORDER] /\ \A f \in Frames : f < i => ~ IsUser(f)
    BY <1>1, <1>2 DEF ReapOK, Reaping
  <2>3. \A f \in Frames : f < i => ~ IsUser(f)'
    BY <1>4, <2>2 DEF IsUser, Entry
  <2>4. i \in Nat /\ Size[o] \in Nat
    BY SizeFacts, RootBlock DEF Frames
  <2>5. i <= i /\ i + Size[o] <= i + Size[o]
    BY <2>4
  <2> QED
    BY <1>2, <1>3, <1>4, <2>1, <2>2, <2>3, <2>5 DEF ReapOK, Reaping
<1>23. Spared
  BY <1>18, <1>19, KeptIsSpared
<1> QED
  BY <1>2, <1>17, <1>21, <1>22, <1>23, ReapMove DEF Reaping

(* The block grows by joining, and the one it was stays inside it.         *)
LEMMA ReapMergeInv ==
    ASSUME MInv, NEW c \in Ctx, ReapMerge(c), UNCHANGED slabvars
    PROVE  MInv' /\ Spared
<1> USE DEF MInv
<1>1. /\ pc[c] = "r_merge" /\ Join(c) /\ UNCHANGED <<memlock, pc, req, usr, live>>
      /\ pc' = pc /\ live' = live /\ scan' = scan /\ adv' = adv /\ sub' = sub /\ loc' = loc
  BY DEF ReapMerge, slabvars
<1>2. IInv' /\ EntriesKept
  BY <1>1, JoinInv DEF StepOK, Merging
<1>3. HeapMove
  BY <1>1, JoinMove DEF Merging
<1>4. PICK i, o, x : /\ i = blk[c] /\ o = ord[c] /\ x = Lower(i, Buddy(i, o))
  OBVIOUS
<1>5. /\ o < MAX_ORDER /\ frames' = [frames EXCEPT ![x] = Entry(o + 1, FALSE, FALSE)]
      /\ blk' = [blk EXCEPT ![c] = x] /\ ord' = [ord EXCEPT ![c] = o + 1]
  BY <1>1, <1>4 DEF Join, Mergeable
<1>6. blk'[c] = x /\ ord'[c] = o + 1
  BY <1>5 DEF IInv, VarsOK
<1>7. <<i, o>> \in Blocks
  <2>1. c \in Holding /\ Hand(c) = <<i, o>>
    BY <1>1, <1>4 DEF Holding, Hand, Merging
  <2> QED
    BY <2>1, Starts DEF IInv
<1>8. /\ i \in Nat /\ o \in Orders /\ Size[o] \in Nat /\ Size[o] > 0
      /\ Size[o + 1] = 2 * Size[o]
  BY <1>5, <1>7, InHeap, SizeFacts
<1>9. x \in Frames /\ x \in Nat /\ x <= i /\ i + Size[o] <= x + Size[o + 1]
  <2>1. PICK p \in Frames :
            /\ <<p, o + 1>> \in Blocks
            /\ \/ i = p /\ Buddy(i, o) = p + Size[o]
               \/ i = p + Size[o] /\ Buddy(i, o) = p
    BY <1>5, <1>7, Parent
  <2>2. p \in Nat
    BY <2>1, InHeap
  <2>3. x = p
    BY <1>4, <1>8, <2>1, <2>2 DEF Lower
  <2> QED
    BY <1>8, <2>1, <2>2, <2>3
<1>10. ASSUME NEW f \in Frames, ~ IsUser(f) PROVE ~ IsUser(f)'
  <2>1. frames'[f] = frames[f] \/ frames'[f] = Entry(o + 1, FALSE, FALSE)
    BY <1>5, <1>9 DEF IInv, VarsOK
  <2> QED
    BY <1>10, <2>1 DEF IsUser, Entry
<1>11. ReapOK'
  <2>1. /\ scan[c] \in Nat /\ adv[c] \in Orders /\ scan[c] <= Size[MAX_ORDER]
        /\ \A f \in Frames : f < scan[c] => ~ IsUser(f)
        /\ i <= scan[c] /\ scan[c] + Size[adv[c]] <= i + Size[o]
    BY <1>1, <1>4 DEF ReapOK, Reaping
  <2>2. Size[adv[c]] \in Nat /\ Size[o + 1] \in Nat
    BY <1>8, <2>1, SizeFacts
  <2>3. x <= scan[c] /\ scan[c] + Size[adv[c]] <= x + Size[o + 1]
    BY <1>8, <1>9, <2>1, <2>2
  <2>4. \A f \in Frames : f < scan[c] => ~ IsUser(f)'
    BY <1>10, <2>1
  <2>5. scan' \in [Ctx -> Nat] /\ adv' \in [Ctx -> Orders] /\ \A d \in Ctx : d = c
    BY <1>1, OneObjs DEF ReapOK
  <2> QED
    BY <1>1, <1>6, <2>1, <2>3, <2>4, <2>5 DEF ReapOK, Reaping
<1>12. Spared
  BY <1>1, <1>2, KeptIsSpared
<1> QED
  BY <1>1, <1>2, <1>3, <1>11, <1>12, ReapMove DEF Reaping

(* It goes on its list, and the scan goes on behind the block it took:     *)
(* between, no block begins but that one.                                  *)
LEMMA ReleasedInv ==
    ASSUME MInv, NEW c \in Ctx, Released(c)
    PROVE  MInv' /\ Spared
<1> USE DEF MInv
<1>1. PICK i \in Frames, o \in Orders, a \in Orders, s \in Nat :
          i = blk[c] /\ o = ord[c] /\ a = adv[c] /\ s = scan[c]
  BY DEF IInv, VarsOK, ReapOK
<1>2. /\ pc[c] = "r_merge" /\ PutBack(c)
      /\ pc' = [pc EXCEPT ![c] = "r_scan"] /\ pc'[c] = "r_scan"
      /\ scan' = [scan EXCEPT ![c] = s + Size[a]]
      /\ UNCHANGED <<frames, memlock, req, usr, blk, ord, live, adv>>
      /\ hdr' = Overwritten(hdr, i) /\ UNCHANGED <<link, slabs, sub, loc, objs>>
      /\ free_area' = [free_area EXCEPT ![o] = list_add(@, i)]
  BY <1>1 DEF Released, ReapPut, NextScan, IInv, VarsOK, PutBack
<1>3. VarsOK'
  BY <1>2 DEF IInv, VarsOK, Labels
<1>4. \A d \in Ctx : d = c
  BY OneObjs
<1>5. Exclusive'
  BY <1>2, <1>4 DEF IInv, Exclusive, Locked, Merging
<1>6. IInv' /\ EntriesKept
  <2>1. pc[c] \in Merging /\ UNCHANGED <<frames, live>>
    BY <1>2 DEF Merging
  <2>2. \A d \in Ctx : d # c => blk'[d] = blk[d] /\ ord'[d] = ord[d]
    BY <1>2
  <2> QED
    BY <1>2, <1>3, <1>5, <2>1, <2>2, PutBackInv DEF StepOK
<1>7. HeapMove
  <2>1. UNCHANGED <<link, slabs, objs, sub, loc, live>>
    BY <1>2
  <2> QED
    BY <1>2, <1>6, <2>1, PutMove
<1>8. /\ s <= Size[MAX_ORDER] /\ i <= s /\ s + Size[a] <= i + Size[o]
      /\ \A f \in Frames : f < s => ~ IsUser(f)
  BY <1>1, <1>2 DEF ReapOK, Reaping
<1>9. /\ c \in Holding /\ Hand(c) = <<i, o>> /\ <<i, o>> \in Pieces /\ <<i, o>> \in Blocks
      /\ <<i, o>> \notin live
  <2>1. c \in Holding /\ Hand(c) = <<i, o>>
    BY <1>1, <1>2 DEF Holding, Hand, Merging
  <2> QED
    BY <2>1, Starts DEF IInv, Apart
<1>10. /\ i \in Nat /\ Size[o] \in Nat /\ Size[a] \in Nat /\ Size[MAX_ORDER] \in Nat
       /\ i + Size[o] <= Size[MAX_ORDER] /\ s + Size[a] \in Nat
  BY <1>9, InHeap, SizeFacts, RootBlock
<1>11. s + Size[a] <= Size[MAX_ORDER]
  BY <1>8, <1>10
<1>12. ASSUME NEW f \in Frames, f < s + Size[a], IsUser(f) PROVE FALSE
  <2>1. f \in Nat
    BY RootBlock DEF Frames
  <2>2. ~ (f < s)
    BY <1>8, <1>12
  <2>3. i <= f /\ f < i + Size[o]
    BY <1>8, <1>10, <1>12, <2>1, <2>2
  <2>4. PICK r \in Orders : r = frames[f].order /\ <<f, r>> \in live
    BY <1>2, <1>12, ReapSeesLive DEF IsUser, Reaping
  <2>5. <<f, r>> \in Pieces /\ <<f, r>> # <<i, o>>
    BY <1>9, <2>4, Starts DEF IInv
  <2>6. Disjoint(<<f, r>>, <<i, o>>)
    BY <1>9, <2>5 DEF IInv, Tiling
  <2>7. f + Size[r] <= i \/ i + Size[o] <= f
    BY <2>6 DEF Disjoint
  <2>8. Size[r] \in Nat /\ Size[r] > 0
    BY SizeFacts
  <2> QED
    BY <1>10, <2>1, <2>3, <2>7, <2>8
<1>13. ReapOK'
  <2>1. /\ scan' \in [Ctx -> Nat] /\ adv' \in [Ctx -> Orders] /\ scan'[c] = s + Size[a]
    BY <1>2, <1>10 DEF ReapOK
  <2>2. \A f \in Frames : f < s + Size[a] => ~ IsUser(f)'
    BY <1>2, <1>12 DEF IsUser
  <2> QED
    BY <1>2, <1>4, <1>11, <2>1, <2>2 DEF ReapOK, Reaping
<1>14. Spared
  BY <1>2, <1>6, KeptIsSpared
<1> QED
  BY <1>2, <1>6, <1>7, <1>13, <1>14, ReapMove DEF Reaping

(* The end of the scan.                                                    *)
LEMMA ReapDoneInv ==
    ASSUME MInv, NEW c \in Ctx, ReapDone(c), UNCHANGED slabvars
    PROVE  MInv' /\ Spared
<1> USE DEF MInv
<1>1. /\ pc[c] = "r_scan" /\ Return(c) /\ UNCHANGED <<frames, free_area, live>>
      /\ scan' = [scan EXCEPT ![c] = 0] /\ adv' = [adv EXCEPT ![c] = 0]
      /\ UNCHANGED <<hdr, link, slabs, objs>> /\ sub' = sub /\ loc' = loc
  BY DEF ReapDone, slabvars
<1>2. pc' = [pc EXCEPT ![c] = "idle"] /\ pc'[c] = "idle" /\ memlock' = 0
  BY <1>1 DEF Return, IInv, VarsOK
<1>3. c \notin Holding /\ c \notin Holding' /\ \A d \in Ctx : d = c
  BY <1>1, <1>2, OneObjs DEF Holding, Merging
<1>4. VarsOK'
  BY <1>1, ReturnVars DEF VarsOK, IInv
<1>5. Exclusive'
  BY <1>2, <1>3 DEF Exclusive, Locked, Merging
<1>6. IInv' /\ EntriesKept
  BY <1>1, <1>2, <1>3, <1>4, <1>5, WalkInv DEF Labels
<1>7. HeapMove
  BY <1>1, <1>2, <1>6, CalmMove DEF Building
<1>8. ReapOK'
  <2>1. 0 \in Orders
    BY SizeFacts DEF Orders
  <2>2. scan' \in [Ctx -> Nat] /\ adv' \in [Ctx -> Orders] /\ scan'[c] = 0
    BY <1>1, <2>1 DEF ReapOK
  <2> QED
    BY <1>2, <1>3, <2>2 DEF ReapOK, Reaping
<1>9. Spared
  BY <1>1, <1>6, KeptIsSpared
<1> QED
  BY <1>1, <1>6, <1>7, <1>8, <1>9, ReapMove DEF Reaping

-----------------------------------------------------------------------------
(* The theorems.                                                           *)

(* The heap begins with no slabs and no scan.                              *)
LEMMA MemoryInitInv == MemoryInit => MInv
<1> SUFFICES ASSUME MemoryInit PROVE MInv
  OBVIOUS
<1> USE DEF MemoryInit, SlabInit, ReapInit
<1>1. IInv
  BY InitInv
<1>2. NoHeader \in Headers /\ NoLinks \in LinkTables /\ NoLocals \in Locals
  BY RootBlock DEF NoHeader, Headers, NoLinks, LinkTables, NoLocals, Locals
<1>3. SlabTypes
  BY <1>2 DEF SlabTypes
<1>4. \A k \in Caches : slabs[k] = <<>>
  OBVIOUS
<1>5. Ran(<<>>) = {} /\ NoDup(<<>>)
  BY DEF Ran, NoDup
<1>6. ListsOK /\ PagesOK
  BY <1>4, <1>5 DEF ListsOK, PagesOK
<1>7. ObjsOK
  BY DEF ObjsOK, AllObjs
<1>8. SubOK
  BY DEF SubOK
<1>9. MagicOK
  <2>1. \A f \in Frames : ~ hdr[f].magic
    BY DEF NoHeader
  <2>2. \A b \in FreeBlocks : b[1] \in Frames
    BY DEF FreeBlocks
  <2>3. live = {} /\ \A c \in Ctx : pc[c] = "idle"
    BY DEF Init
  <2> QED
    BY <2>1, <2>2, <2>3 DEF MagicOK
<1>10. ReapOK
  <2>1. 0 \in Orders
    BY SizeFacts DEF Orders
  <2>2. \A c \in Ctx : pc[c] = "idle"
    BY DEF Init
  <2> QED
    BY <2>1, <2>2 DEF ReapOK, Reaping
<1> QED
  BY <1>1, <1>3, <1>6, <1>7, <1>8, <1>9, <1>10 DEF MInv, SlabInv

(* Every step keeps the invariant, and the scan spares the kernel's blocks.*)
LEMMA MemoryNextInv ==
    MInv /\ [MemoryNext]_memvars =>
       /\ MInv'
       /\ UNCHANGED vars \/ \A c \in Ctx : pc[c] \in Reaping => Spared
<1> SUFFICES ASSUME MInv, [MemoryNext]_memvars
             PROVE  /\ MInv'
                    /\ UNCHANGED vars \/ \A c \in Ctx : pc[c] \in Reaping => Spared
  OBVIOUS
<1>1. CASE SlabNext /\ UNCHANGED <<scan, adv>>
  BY <1>1, SlabNextInv
<1>2. ASSUME NEW c \in Ctx, munmap_all_user(c)
      PROVE  MInv' /\ (pc[c] \in Reaping => Spared)
  <2>1. CASE Ready(c) /\ ReapCall(c) /\ UNCHANGED slabvars
    BY <2>1, ReapCallInv
  <2>2. CASE /\ ReapLock(c) \/ ReapSkip(c) \/ ReapTake(c) \/ ReapMerge(c) \/ ReapDone(c)
             /\ UNCHANGED slabvars
    BY <2>2, ReapLockInv, ReapSkipInv, ReapTakeInv, ReapMergeInv, ReapDoneInv
  <2>3. CASE Released(c)
    BY <2>3, ReleasedInv
  <2> QED
    BY <1>2, <2>1, <2>2, <2>3 DEF munmap_all_user
<1>3. ASSUME NEW c \in Ctx, NEW o \in Orders, mmap_user(c, o)
      PROVE  MInv' /\ pc[c] \notin Reaping
  <2>1. BlockAlloc(c, o, TRUE) /\ UNCHANGED <<scan, adv>>
    BY <1>3 DEF mmap_user
  <2>2. SlabInv' /\ IInv' /\ NoReap(c)
    BY <2>1, BlockAllocInv
  <2> QED
    BY <2>1, <2>2, NoReapKeeps DEF MInv, NoReap
<1>4. CASE \E c \in Ctx : munmap_all_user(c) \/ \E o \in Orders : mmap_user(c, o)
  <2>1. PICK c \in Ctx : munmap_all_user(c) \/ \E o \in Orders : mmap_user(c, o)
    BY <1>4
  <2>2. MInv' /\ (pc[c] \in Reaping => Spared)
    BY <1>2, <1>3, <2>1
  <2>3. \A d \in Ctx : d = c
    BY OneObjs
  <2> QED
    BY <2>2, <2>3
<1>5. CASE UNCHANGED memvars
  <2>1. /\ UNCHANGED vars /\ UNCHANGED <<vars, scan, adv>>
        /\ UNCHANGED <<hdr, link, slabs, objs, sub, loc>>
    BY <1>5 DEF memvars, slabvars
  <2>2. /\ IInv' /\ EntriesKept /\ FreeBlocks' = FreeBlocks
        /\ frames' = frames /\ live' = live /\ pc' = pc /\ blk' = blk
        /\ req' = req /\ usr' = usr
    BY <2>1, QuietKeeps
  <2>3. ReapOK'
    BY <2>1, QuietReap
  <2>4. SlabPages' = SlabPages /\ Building' = Building /\ AllObjs' = AllObjs
    BY <2>1 DEF SlabPages, Building, AllObjs
  <2>5. SlabTypes' /\ ListsOK' /\ ObjsOK' /\ MagicOK'
    BY <2>1, <2>2, <2>4 DEF MInv, SlabInv, SlabTypes, ListsOK, ObjsOK, MagicOK
  <2>6. PagesOK'
    BY <2>1, <2>2, <2>4 DEF MInv, SlabInv, PagesOK, Used
  <2>7. SubOK'
    BY <2>1, <2>2, <2>4 DEF MInv, SlabInv, SubOK, Taking, Paging, Making
  <2> QED
    BY <2>1, <2>2, <2>3, <2>5, <2>6, <2>7 DEF MInv, SlabInv
<1> QED
  BY <1>1, <1>4, <1>5 DEF MemoryNext

(* The invariant holds in every state of the allocator with its slabs and  *)
(* with munmap_all_user.                                                   *)
THEOREM MemoryInvariant == MemorySpec => []MInv
BY MemoryInitInv, MemoryNextInv, PTL DEF MemorySpec

(* kmalloc and kfree share the objects of a slab out exactly: in_use, the  *)
(* free list and the callers agree, for every page and every cache.        *)
THEOREM SlabsAreExact == MemorySpec => []SlabExact
<1>1. MInv => SlabExact
  <2> SUFFICES ASSUME MInv, NEW k \in Caches, NEW j \in DOMAIN slabs[k]
               PROVE  LET p == slabs[k][j]
                          used == {n \in Slots : <<p, n>> \in AllObjs}
                          chain == Chain(p)
                          met == {n \in DOMAIN chain : chain[n] # NULL}
                      IN  /\ hdr[p].cache = k
                          /\ hdr[p].in_use = Cardinality(used)
                          /\ used # {}
                          /\ {chain[n] : n \in met} = (1 .. Per(k)) \ used
                          /\ Cardinality(met) = Per(k) - hdr[p].in_use
    BY DEF SlabExact
  <2>1. PICK p \in Frames : p = slabs[k][j] /\ p \in Ran(slabs[k])
    BY DEF MInv, SlabInv, SlabTypes, Ran
  <2>2. SlabOK(k, hdr[p], link[p], Used(p))
    BY <2>1 DEF MInv, SlabInv, PagesOK
  <2>3. LET met == {n \in DOMAIN Chain(p) : Chain(p)[n] # NULL}
        IN  /\ {Chain(p)[n] : n \in met} = (1 .. Per(k)) \ Used(p)
            /\ Cardinality(met) = Per(k) - hdr[p].in_use
    BY <2>2, ChainExact
  <2>4. hdr[p].cache = k /\ hdr[p].in_use = Cardinality(Used(p)) /\ Used(p) # {}
    BY <2>2 DEF SlabOK
  <2> QED
    BY <2>1, <2>3, <2>4 DEF Used
<1> QED
  BY <1>1, MemoryInvariant, PTL

(* An object that a caller holds is in a page that the slab layer has from *)
(* the buddy allocator and that is on one list, once.                      *)
THEOREM ObjectsAreBacked == MemorySpec => []ObjectsBacked
<1>1. MInv => ObjectsBacked
  <2> SUFFICES ASSUME MInv PROVE ObjectsBacked
    OBVIOUS
  <2> USE DEF MInv, SlabInv
  <2>1. \A p \in SlabPages : <<p, 0>> \in live
    BY PagesLive
  <2>2. ASSUME NEW k \in Caches, NEW m \in Caches, NEW i \in DOMAIN slabs[k],
               NEW j \in DOMAIN slabs[m], slabs[k][i] = slabs[m][j]
        PROVE  k = m /\ i = j
    <3>1. slabs[k][i] \in Ran(slabs[k]) /\ slabs[k][i] \in Ran(slabs[m])
      BY <2>2 DEF Ran
    <3>2. k = m
      BY <3>1 DEF ListsOK
    <3> QED
      BY <2>2, <3>2 DEF ListsOK, NoDup
  <2> QED
    BY <2>1, <2>2 DEF ObjectsBacked, ObjsOK
<1> QED
  BY <1>1, MemoryInvariant, PTL

(* kfree takes the right path: every slab has the magic number and no      *)
(* other block that a caller owns begins with one.                         *)
THEOREM MagicIsExact == MemorySpec => []MagicExact
<1>1. MInv => MagicExact
  BY PagesLive DEF MInv, SlabInv, MagicOK, MagicExact
<1> QED
  BY <1>1, MemoryInvariant, PTL

(* The heap stays tiled when munmap_all_user is among the operations.      *)
THEOREM HeapStaysTiled == MemorySpec => []ReapTiled
<1>1. MInv => ReapTiled
  BY InvNoOverlap DEF MInv, IInv, Tiling, ReapTiled, NoLeak
<1> QED
  BY <1>1, MemoryInvariant, PTL

(* munmap_all_user leaves no block of a user behind its scan, and the scan *)
(* does not leave the heap.                                                *)
THEOREM ReapIsComplete == MemorySpec => []ReapComplete
<1>1. MInv => ReapComplete
  BY DEF MInv, ReapOK, Reaping, ReapComplete
<1> QED
  BY <1>1, MemoryInvariant, PTL

(* munmap_all_user takes no block of the kernel, and touches no entry of   *)
(* one.                                                                    *)
THEOREM KernelIsSpared == MemorySpec => ReapSparesKernel
<1> DEFINE A == \A c \in Ctx : pc[c] \in {"r_scan", "r_merge"} =>
                   \A b \in live : ~ frames[b[1]].user =>
                      b \in live' /\ frames'[b[1]] = frames[b[1]]
<1>1. MInv /\ [MemoryNext]_memvars => [A]_rvars
  <2> SUFFICES ASSUME MInv, [MemoryNext]_memvars PROVE A
    OBVIOUS
  <2>1. UNCHANGED vars \/ \A c \in Ctx : pc[c] \in Reaping => Spared
    BY MemoryNextInv
  <2>2. CASE UNCHANGED vars
    BY <2>2 DEF vars
  <2>3. CASE \A c \in Ctx : pc[c] \in Reaping => Spared
    BY <2>3 DEF Reaping, Spared
  <2> QED
    BY <2>1, <2>2, <2>3
<1> QED
  BY <1>1, MemoryInvariant, PTL DEF MemorySpec, ReapSparesKernel

=============================================================================
