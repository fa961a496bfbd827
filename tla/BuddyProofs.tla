---------------------------- MODULE BuddyProofs ----------------------------
(***************************************************************************)
(* The buddy allocator is correct for every heap size, every number of     *)
(* contexts and every interleaving of their steps.  The argument: free     *)
(* blocks, owned blocks and the blocks in the hands of calls under way     *)
(* tile the heap (Tiling), and an entry of frames[] that buddy_free looks  *)
(* at is always the entry of the block it is the start of (FlagsExact,     *)
(* BuddyIsStart), so the loop joins a block only with a free buddy.        *)
(***************************************************************************)
EXTENDS Buddy, TLAPS, WellFoundedInduction

(* What the proofs use of 1UL << o: it doubles from one order to the next, *)
(* and the size of a larger order is a multiple of a smaller one.          *)
LEMMA SizeFacts ==
    /\ MAX_ORDER \in Nat
    /\ \A o \in Orders : Size[o] \in Nat /\ Size[o] > 0
    /\ \A o \in Orders : o < MAX_ORDER => (o + 1) \in Orders /\ Size[o + 1] = 2 * Size[o]
    /\ \A o \in Orders : o > 0 => (o - 1) \in Orders /\ Size[o] = 2 * Size[o - 1]
    /\ \A o, p \in Orders : o <= p => \E k \in Nat : k > 0 /\ Size[p] = k * Size[o]
    /\ Size[0] = 1
<1>1. MAX_ORDER \in Nat
  BY OrderAssumption
<1>2. \A o \in Orders : Size[o] \in Nat /\ Size[o] > 0
  BY SizeAssumption
<1>3. \A o \in Orders : o < MAX_ORDER => (o + 1) \in Orders /\ Size[o + 1] = 2 * Size[o]
  BY <1>1, SizeAssumption DEF Orders
<1>4. \A o \in Orders : o > 0 => (o - 1) \in Orders /\ Size[o] = 2 * Size[o - 1]
  <2>1. SUFFICES ASSUME NEW o \in Orders, o > 0
                 PROVE  (o - 1) \in Orders /\ Size[o] = 2 * Size[o - 1]
    OBVIOUS
  <2>2. (o - 1) \in 0 .. (MAX_ORDER - 1) /\ (o - 1) + 1 = o
    BY <1>1, <2>1 DEF Orders
  <2>3. Size[(o - 1) + 1] = 2 * Size[o - 1]
    BY <2>2, SizeAssumption
  <2> QED
    BY <1>1, <2>2, <2>3 DEF Orders
<1>5. \A o, p \in Orders : o <= p => \E k \in Nat : k > 0 /\ Size[p] = k * Size[o]
  <2>1. SUFFICES ASSUME NEW o \in Orders, NEW p \in Orders, o <= p
                 PROVE  \E k \in Nat : k > 0 /\ Size[p] = k * Size[o]
    OBVIOUS
  <2>2. PICK k \in 1 .. Size[MAX_ORDER] : Size[p] = k * Size[o]
    BY <2>1, SizeAssumption
  <2>3. MAX_ORDER \in Orders /\ Size[MAX_ORDER] \in Nat
    BY <1>1, <1>2 DEF Orders
  <2> QED
    BY <2>2, <2>3
<1> QED
  BY <1>1, <1>2, <1>3, <1>4, <1>5, SizeAssumption

(* The arithmetic of aligned blocks: multiples of a size keep their        *)
(* distance.                                                               *)
LEMMA MulMono ==
    ASSUME NEW m \in Int, NEW n \in Int, m <= n, NEW s \in Nat
    PROVE  m * s <= n * s
<1>1. (n - m) * s >= 0
  OBVIOUS
<1>2. n * s = m * s + (n - m) * s
  OBVIOUS
<1> QED
  BY <1>1, <1>2

(* Two blocks are disjoint, or the smaller lies inside the larger.         *)
LEMMA Nesting ==
    ASSUME NEW a \in Blocks, NEW b \in Blocks, a[2] <= b[2], ~ Disjoint(a, b)
    PROVE  b[1] <= a[1] /\ a[1] + Size[a[2]] <= b[1] + Size[b[2]]
<1> DEFINE s == Size[a[2]]
           S == Size[b[2]]
<1>1. a[1] \in Frames /\ b[1] \in Frames /\ a[2] \in Orders /\ b[2] \in Orders
  BY DEF Blocks
<1>2. s \in Nat /\ s > 0 /\ S \in Nat
  BY <1>1, SizeFacts
<1>3. PICK x \in Nat : a[1] = x * s
  BY SizeFacts DEF Blocks, Aligned, Frames, Orders
<1>4. PICK y \in Nat : b[1] = y * S
  BY SizeFacts DEF Blocks, Aligned, Frames, Orders
<1>5. PICK k \in Nat : S = k * s
  BY <1>1, SizeFacts
<1> DEFINE z == y * k
<1>6. z \in Nat /\ b[1] = z * s
  BY <1>2, <1>4, <1>5
<1>7. b[1] + S = (z + k) * s /\ a[1] + s = (x + 1) * s
  BY <1>2, <1>3, <1>5, <1>6
<1>8. ~ (x + 1 <= z)
  BY <1>2, <1>6, <1>7, MulMono DEF Disjoint
<1>9. ~ (z + k <= x)
  BY <1>2, <1>3, <1>6, <1>7, MulMono DEF Disjoint
<1> QED
  BY <1>2, <1>3, <1>6, <1>7, <1>8, <1>9, MulMono

(* The block memory_init puts on the list of MAX_ORDER is the whole heap.  *)
LEMMA RootBlock ==
    /\ <<0, MAX_ORDER>> \in Blocks
    /\ Size[MAX_ORDER] \in Nat
    /\ Size[MAX_ORDER] > 0
    /\ 0 \in Frames
<1>1. MAX_ORDER \in Orders /\ Size[MAX_ORDER] \in Nat /\ Size[MAX_ORDER] > 0
  BY SizeFacts DEF Orders
<1>2. 0 \in Frames
  BY <1>1 DEF Frames
<1>3. Aligned(0, MAX_ORDER)
  BY <1>1, <1>2 DEF Aligned
<1> QED
  BY <1>1, <1>2, <1>3 DEF Blocks

(* A block ends inside the heap.                                           *)
LEMMA InHeap ==
    ASSUME NEW b \in Blocks
    PROVE  /\ b[1] \in Nat /\ b[1] \in Frames /\ b[2] \in Orders /\ b[2] \in Nat
           /\ b = <<b[1], b[2]>>
           /\ Size[b[2]] \in Nat /\ Size[b[2]] > 0
           /\ b[1] + Size[b[2]] <= Size[MAX_ORDER]
<1> DEFINE r == <<0, MAX_ORDER>>
<1>1. /\ b[1] \in Nat /\ b[1] \in Frames /\ b[2] \in Orders /\ b[2] \in Nat
      /\ b = <<b[1], b[2]>> /\ b[1] < Size[MAX_ORDER] /\ b[2] <= MAX_ORDER
  BY RootBlock, SizeFacts DEF Blocks, Frames, Orders
<1>2. Size[b[2]] \in Nat /\ Size[b[2]] > 0
  BY <1>1, SizeFacts
<1>3. r \in Blocks /\ r[1] = 0 /\ r[2] = MAX_ORDER
  BY RootBlock
<1>4. ~ Disjoint(b, r)
  BY <1>1, <1>2, <1>3, RootBlock DEF Disjoint
<1>5. b[1] + Size[b[2]] <= r[1] + Size[r[2]]
  BY <1>1, <1>3, <1>4, Nesting
<1> QED
  BY <1>1, <1>2, <1>3, <1>5, RootBlock

(* A frame aligned to an order starts a block of that order.               *)
LEMMA AlignedIsBlock ==
    ASSUME NEW i \in Frames, NEW o \in Orders, NEW q \in Nat, i = q * Size[o]
    PROVE  <<i, o>> \in Blocks /\ Aligned(i, o)
<1>1. Size[o] \in Nat /\ Size[o] > 0
  BY SizeFacts
<1>2. q <= i
  <2>1. q * 1 <= q * Size[o]
    BY <1>1
  <2> QED
    BY <2>1
<1>3. q \in Frames
  BY <1>2, RootBlock DEF Frames
<1> QED
  BY <1>3 DEF Blocks, Aligned

(* Halving a block: the buddy of the lower half is the upper half.         *)
LEMMA Halves ==
    ASSUME NEW i, NEW o, <<i, o + 1>> \in Blocks, o \in Orders, o + 1 \in Orders
    PROVE  /\ Size[o + 1] = 2 * Size[o]
           /\ <<i, o>> \in Blocks
           /\ <<i + Size[o], o>> \in Blocks
           /\ Buddy(i, o) = i + Size[o]
           /\ Buddy(i + Size[o], o) = i
<1> DEFINE s == Size[o]
<1>1. s \in Nat /\ s > 0 /\ Size[o + 1] = 2 * s /\ o < MAX_ORDER
  BY SizeFacts DEF Orders
<1>2. /\ i \in Nat /\ i \in Frames /\ i + 2 * s <= Size[MAX_ORDER]
      /\ Aligned(i, o + 1)
  BY <1>1, InHeap DEF Blocks
<1>3. PICK q \in Nat : i = q * (2 * s)
  BY <1>1, <1>2, RootBlock DEF Aligned, Frames
<1>4. i = (2 * q) * s /\ i + s = (2 * q + 1) * s
  BY <1>1, <1>3
<1>5. i + s \in Frames
  BY <1>1, <1>2, RootBlock DEF Frames
<1>6. <<i, o>> \in Blocks /\ <<i + s, o>> \in Blocks
  <2>1. 2 * q \in Nat /\ 2 * q + 1 \in Nat
    BY <1>3
  <2>2. <<i, o>> \in Blocks
    BY <1>2, <1>4, <2>1, AlignedIsBlock
  <2>3. <<i + s, o>> \in Blocks
    BY <1>4, <1>5, <2>1, AlignedIsBlock
  <2> QED
    BY <2>2, <2>3
<1>7. ~ Aligned(i + s, o + 1)
  <2>1. SUFFICES ASSUME Aligned(i + s, o + 1) PROVE FALSE
    OBVIOUS
  <2>2. PICK r \in Nat : i + s = r * (2 * s)
    BY <1>1, <2>1, RootBlock DEF Aligned, Frames
  <2>3. (2 * q + 1) * s = (2 * r) * s
    BY <1>1, <1>4, <2>2
  <2>4. 2 * q + 1 = 2 * r
    <3>1. CASE 2 * q + 1 < 2 * r
      <4>1. (2 * q + 2) * s <= (2 * r) * s
        BY <1>1, <3>1, MulMono
      <4>2. (2 * q + 2) * s = (2 * q + 1) * s + s
        BY <1>1
      <4> QED
        BY <1>1, <2>3, <4>1, <4>2
    <3>2. CASE 2 * r < 2 * q + 1
      <4>1. (2 * r + 1) * s <= (2 * q + 1) * s
        BY <1>1, <3>2, MulMono
      <4>2. (2 * r + 1) * s = (2 * r) * s + s
        BY <1>1
      <4> QED
        BY <1>1, <2>3, <4>1, <4>2
    <3> QED
      BY <3>1, <3>2
  <2> QED
    BY <2>4
<1>8. Buddy(i, o) = i + s /\ Buddy(i + s, o) = (i + s) - s
  BY <1>2, <1>7 DEF Buddy
<1> QED
  BY <1>1, <1>2, <1>6, <1>8

(* A block below the largest order is a half of the block above it.        *)
LEMMA Parent ==
    ASSUME NEW i, NEW o, <<i, o>> \in Blocks, o < MAX_ORDER
    PROVE  \E p \in Frames :
              /\ <<p, o + 1>> \in Blocks
              /\ \/ i = p /\ Buddy(i, o) = p + Size[o]
                 \/ i = p + Size[o] /\ Buddy(i, o) = p
<1> DEFINE s == Size[o]
<1>1. /\ o \in Orders /\ o + 1 \in Orders /\ s \in Nat /\ s > 0 /\ Size[o + 1] = 2 * s
      /\ i \in Nat /\ i \in Frames /\ i + s <= Size[MAX_ORDER]
  BY InHeap, SizeFacts
<1>2. PICK x \in Nat : i = x * s
  BY RootBlock DEF Blocks, Aligned, Frames
<1>3. PICK q \in Nat : x = 2 * q \/ x = 2 * q + 1
  <2>1. x \div 2 \in Nat /\ (x = 2 * (x \div 2) \/ x = 2 * (x \div 2) + 1)
    BY x \in Nat
  <2> QED
    BY <2>1
<1>4. CASE x = 2 * q
  <2>1. i = q * Size[o + 1]
    BY <1>1, <1>2, <1>4
  <2>2. <<i, o + 1>> \in Blocks
    BY <1>1, <2>1, AlignedIsBlock
  <2> QED
    BY <1>1, <2>2, Halves
<1>5. CASE x = 2 * q + 1
  <2> DEFINE p == q * Size[o + 1]
  <2>1. p \in Nat /\ i = p + s
    BY <1>1, <1>2, <1>5
  <2>2. p \in Frames
    BY <1>1, <2>1, RootBlock DEF Frames
  <2>3. <<p, o + 1>> \in Blocks
    BY <1>1, <2>2, AlignedIsBlock
  <2>4. Buddy(p + s, o) = p
    BY <1>1, <2>3, Halves
  <2> QED
    BY <2>1, <2>2, <2>3, <2>4
<1> QED
  BY <1>3, <1>4, <1>5

(* The index xor is its own inverse.                                       *)
LEMMA BuddyOfBuddy ==
    ASSUME NEW i, NEW o, <<i, o>> \in Blocks, o < MAX_ORDER
    PROVE  /\ <<Buddy(i, o), o>> \in Blocks
           /\ Buddy(Buddy(i, o), o) = i
           /\ Buddy(i, o) # i
<1>1. o \in Orders /\ o + 1 \in Orders /\ i \in Nat /\ Size[o] \in Nat /\ Size[o] > 0
  BY InHeap, SizeFacts
<1>2. PICK p \in Frames :
          /\ <<p, o + 1>> \in Blocks
          /\ \/ i = p /\ Buddy(i, o) = p + Size[o]
             \/ i = p + Size[o] /\ Buddy(i, o) = p
  BY Parent
<1>3. p \in Nat
  BY <1>2, InHeap
<1> QED
  BY <1>1, <1>2, <1>3, Halves

-----------------------------------------------------------------------------
(* Sets of blocks that cut the heap into pieces.                           *)

Tiling(A) ==
    /\ A \subseteq Blocks
    /\ \A a, b \in A : a # b => Disjoint(a, b)
    /\ \A f \in Frames : \E b \in A : f \in Span(b)

(* Halving one of the blocks leaves a tiling.                              *)
LEMMA SplitTiling ==
    ASSUME NEW A, Tiling(A), NEW i, NEW o, <<i, o + 1>> \in A,
           o \in Orders, o + 1 \in Orders
    PROVE  Tiling((A \ {<<i, o + 1>>}) \union {<<i, o>>, <<i + Size[o], o>>})
<1> DEFINE P == <<i, o + 1>>
           L == <<i, o>>
           U == <<i + Size[o], o>>
           B == (A \ {P}) \union {L, U}
<1>1. P \in Blocks /\ Size[o + 1] = 2 * Size[o] /\ L \in Blocks /\ U \in Blocks
  BY Halves DEF Tiling
<1>2. i \in Nat /\ Size[o] \in Nat /\ Size[o] > 0 /\ o \in Nat
  BY <1>1, InHeap
<1>3. B \subseteq Blocks
  BY <1>1 DEF Tiling
<1>4. ASSUME NEW a \in A, a # P
      PROVE  /\ Disjoint(a, L) /\ Disjoint(L, a)
             /\ Disjoint(a, U) /\ Disjoint(U, a)
  <2>1. Disjoint(a, P)
    BY <1>4 DEF Tiling
  <2>2. a[1] \in Nat /\ Size[a[2]] \in Nat
    BY InHeap DEF Tiling
  <2> QED
    BY <1>1, <1>2, <2>1, <2>2 DEF Disjoint
<1>5. Disjoint(L, U) /\ Disjoint(U, L)
  BY <1>2 DEF Disjoint
<1>6. \A a, b \in B : a # b => Disjoint(a, b)
  BY <1>4, <1>5 DEF Tiling
<1>7. ASSUME NEW f \in Frames PROVE \E b \in B : f \in Span(b)
  <2>1. PICK b \in A : f \in Span(b)
    BY DEF Tiling
  <2>2. CASE b = P
    <3>1. f \in i .. (i + 2 * Size[o] - 1)
      BY <1>1, <2>1, <2>2 DEF Span
    <3>2. f \in Span(L) \/ f \in Span(U)
      BY <1>2, <3>1 DEF Span
    <3> QED
      BY <3>2
  <2>3. CASE b # P
    BY <2>1, <2>3
  <2> QED
    BY <2>2, <2>3
<1> QED
  BY <1>3, <1>6, <1>7 DEF Tiling

(* Joining two halves leaves a tiling.                                     *)
LEMMA MergeTiling ==
    ASSUME NEW A, Tiling(A), NEW p, NEW o, <<p, o + 1>> \in Blocks,
           o \in Orders, o + 1 \in Orders,
           <<p, o>> \in A, <<p + Size[o], o>> \in A
    PROVE  Tiling((A \ {<<p, o>>, <<p + Size[o], o>>}) \union {<<p, o + 1>>})
<1> DEFINE P == <<p, o + 1>>
           L == <<p, o>>
           U == <<p + Size[o], o>>
           B == (A \ {L, U}) \union {P}
<1>1. Size[o + 1] = 2 * Size[o]
  BY Halves
<1>2. p \in Nat /\ Size[o] \in Nat /\ Size[o] > 0
  BY InHeap DEF Tiling
<1>3. B \subseteq Blocks
  BY DEF Tiling
<1>4. ASSUME NEW a \in A, a # L, a # U
      PROVE  Disjoint(a, P) /\ Disjoint(P, a)
  <2>1. Disjoint(a, L) /\ Disjoint(a, U)
    BY <1>4 DEF Tiling
  <2>2. a[1] \in Nat /\ Size[a[2]] \in Nat /\ Size[a[2]] > 0
    BY InHeap DEF Tiling
  <2> QED
    BY <1>1, <1>2, <2>1, <2>2 DEF Disjoint
<1>5. \A a, b \in B : a # b => Disjoint(a, b)
  BY <1>4 DEF Tiling
<1>6. ASSUME NEW f \in Frames PROVE \E b \in B : f \in Span(b)
  <2>1. PICK b \in A : f \in Span(b)
    BY DEF Tiling
  <2>2. CASE b \in {L, U}
    <3>1. f \in p .. (p + Size[o] - 1) \/ f \in (p + Size[o]) .. (p + Size[o] + Size[o] - 1)
      BY <2>1, <2>2 DEF Span
    <3>2. f \in Span(P)
      BY <1>1, <1>2, <3>1 DEF Span
    <3> QED
      BY <3>2
  <2>3. CASE b \notin {L, U}
    BY <2>1, <2>3
  <2> QED
    BY <2>2, <2>3
<1> QED
  BY <1>3, <1>5, <1>6 DEF Tiling

(* The buddy of a block of a tiling is the start of a block that is no     *)
(* larger: whatever frames[] still says of the insides of blocks, the      *)
(* entry buddy_free looks at belongs to a block.                           *)
LEMMA BuddyIsStart ==
    ASSUME NEW A, Tiling(A), NEW i, NEW o, <<i, o>> \in A, o < MAX_ORDER
    PROVE  \E p \in Orders : p <= o /\ <<Buddy(i, o), p>> \in A
<1> DEFINE j == Buddy(i, o)
           s == Size[o]
<1>1. <<i, o>> \in Blocks
  BY DEF Tiling
<1>2. /\ o \in Orders /\ o + 1 \in Orders /\ o \in Nat /\ i \in Nat
      /\ s \in Nat /\ s > 0 /\ Size[o + 1] = 2 * s
  BY <1>1, InHeap, SizeFacts
<1>3. PICK p \in Frames :
              /\ <<p, o + 1>> \in Blocks
              /\ \/ i = p /\ j = p + s
                 \/ i = p + s /\ j = p
  BY <1>1, Parent
<1>4. p \in Nat /\ <<j, o>> \in Blocks /\ j \in Nat /\ j \in Frames
  BY <1>2, <1>3, Halves, InHeap
<1>5. PICK b \in A : j \in Span(b)
  BY <1>4 DEF Tiling
<1>6. /\ b \in Blocks /\ b[1] \in Nat /\ Size[b[2]] \in Nat /\ b[2] \in Nat
      /\ b = <<b[1], b[2]>> /\ b[2] \in Orders
      /\ b[1] <= j /\ j < b[1] + Size[b[2]]
  BY <1>4, <1>5, InHeap DEF Tiling, Span
<1>7. CASE b[2] <= o
  <2>1. ~ Disjoint(b, <<j, o>>)
    BY <1>2, <1>4, <1>6 DEF Disjoint
  <2>2. j <= b[1]
    BY <1>4, <1>6, <1>7, <2>1, Nesting
  <2> QED
    BY <1>4, <1>6, <1>7, <2>2
<1>8. CASE o + 1 <= b[2]
  <2>1. ~ Disjoint(<<p, o + 1>>, b)
    BY <1>2, <1>3, <1>4, <1>6 DEF Disjoint
  <2>2. b[1] <= p /\ p + 2 * s <= b[1] + Size[b[2]]
    <3>1. <<p, o + 1>>[2] <= b[2]
      BY <1>8
    <3> QED
      BY <1>2, <1>3, <1>6, <2>1, <3>1, Nesting
  <2>3. ~ Disjoint(b, <<i, o>>)
    BY <1>2, <1>3, <1>4, <1>6, <2>2 DEF Disjoint
  <2>4. b # <<i, o>>
    BY <1>2, <1>8
  <2> QED
    BY <2>3, <2>4 DEF Tiling
<1>9. b[2] <= o \/ o + 1 <= b[2]
  BY <1>2, <1>6
<1> QED
  BY <1>7, <1>8, <1>9

-----------------------------------------------------------------------------
(* The free lists.                                                         *)

Ran(s) == {s[k] : k \in DOMAIN s}
NoDup(s) == \A k, m \in DOMAIN s : s[k] = s[m] => k = m

(* list_add adds its block and keeps the list free of repetitions.         *)
LEMMA ListAdd ==
    ASSUME NEW S, NEW s \in Seq(S), NEW i \in S
    PROVE  /\ list_add(s, i) \in Seq(S)
           /\ Ran(list_add(s, i)) = Ran(s) \union {i}
           /\ NoDup(s) /\ i \notin Ran(s) => NoDup(list_add(s, i))
<1> DEFINE t == list_add(s, i)
<1>1. /\ t \in Seq(S) /\ Len(t) = Len(s) + 1 /\ t[1] = i
      /\ \A k \in 2 .. Len(t) : t[k] = s[k - 1]
  BY DEF list_add
<1>2. DOMAIN s = 1 .. Len(s) /\ DOMAIN t = 1 .. (Len(s) + 1) /\ Len(s) \in Nat
  BY <1>1
<1>3. \A k \in DOMAIN s : t[k + 1] = s[k] /\ k + 1 \in DOMAIN t
  BY <1>1, <1>2
<1>4. \A k \in DOMAIN t : k # 1 => t[k] = s[k - 1] /\ k - 1 \in DOMAIN s
  BY <1>1, <1>2
<1>5. Ran(t) = Ran(s) \union {i}
  BY <1>1, <1>2, <1>3, <1>4 DEF Ran
<1>6. NoDup(s) /\ i \notin Ran(s) => NoDup(t)
  BY <1>1, <1>2, <1>4 DEF NoDup, Ran
<1> QED
  BY <1>1, <1>5, <1>6

(* buddy_alloc takes the head of a list: the rest has every other block.   *)
LEMMA ListPop ==
    ASSUME NEW S, NEW s \in Seq(S), s # <<>>, NoDup(s)
    PROVE  /\ Head(s) \in Ran(s) /\ Head(s) \in S
           /\ Tail(s) \in Seq(S)
           /\ Ran(Tail(s)) = Ran(s) \ {Head(s)}
           /\ NoDup(Tail(s))
<1> DEFINE t == Tail(s)
<1>1. /\ t \in Seq(S) /\ Len(t) = Len(s) - 1 /\ Len(s) \in Nat /\ Len(s) > 0
      /\ Head(s) = s[1] /\ s[1] \in S
      /\ \A k \in 1 .. Len(t) : t[k] = s[k + 1]
  OBVIOUS
<1>2. DOMAIN s = 1 .. Len(s) /\ DOMAIN t = 1 .. (Len(s) - 1)
  BY <1>1
<1>3. \A k \in DOMAIN t : t[k] = s[k + 1] /\ k + 1 \in DOMAIN s /\ k + 1 # 1
  BY <1>1, <1>2
<1>4. \A k \in DOMAIN s : k # 1 => s[k] = t[k - 1] /\ k - 1 \in DOMAIN t
  BY <1>1, <1>2
<1>5. 1 \in DOMAIN s
  BY <1>1, <1>2
<1> HIDE DEF t
<1>6. Ran(t) = Ran(s) \ {s[1]}
  <2>1. ASSUME NEW x \in Ran(t) PROVE x \in Ran(s) \ {s[1]}
    BY <1>3, <1>5 DEF Ran, NoDup
  <2>2. ASSUME NEW x \in Ran(s), x # s[1] PROVE x \in Ran(t)
    BY <1>4, <2>2 DEF Ran
  <2> QED
    BY <2>1, <2>2
<1>7. NoDup(t)
  BY <1>1, <1>2, <1>3 DEF NoDup
<1> QED
  BY <1>1, <1>5, <1>6, <1>7 DEF Ran, t

(* list_remove takes out exactly the block it is given.                    *)
LEMMA ListRemove ==
    ASSUME NEW S, NEW s \in Seq(S), NEW i \in Ran(s), NoDup(s)
    PROVE  /\ list_remove(s, i) \in Seq(S)
           /\ Ran(list_remove(s, i)) = Ran(s) \ {i}
           /\ NoDup(list_remove(s, i))
<1>1. \E k \in DOMAIN s : s[k] = i
  BY DEF Ran
<1> DEFINE m == CHOOSE k \in DOMAIN s : s[k] = i
           t == Unlink(s, m)
<1>2. m \in DOMAIN s /\ s[m] = i
  BY <1>1
<1>3. list_remove(s, i) = t
  BY <1>1 DEF list_remove
<1> HIDE DEF m
<1>4. DOMAIN s = 1 .. Len(s) /\ Len(s) \in Nat /\ m \in 1 .. Len(s)
  BY <1>2
<1>5. DOMAIN t = 1 .. (Len(s) - 1)
  BY DEF Unlink
<1>6. \A k \in DOMAIN t :
         /\ k < m => t[k] = s[k] /\ k \in DOMAIN s /\ k # m
         /\ ~ (k < m) => t[k] = s[k + 1] /\ k + 1 \in DOMAIN s /\ k + 1 # m
  BY <1>4, <1>5 DEF Unlink
<1>7. \A k \in DOMAIN s :
         /\ k < m => s[k] = t[k] /\ k \in DOMAIN t
         /\ k > m => s[k] = t[k - 1] /\ k - 1 \in DOMAIN t
  BY <1>4, <1>5 DEF Unlink
<1>8. t \in Seq(S)
  <2>1. \A k \in 1 .. (Len(s) - 1) : t[k] \in S
    BY <1>4, <1>5, <1>6
  <2>2. Len(s) - 1 \in Nat /\ t = [k \in 1 .. (Len(s) - 1) |-> t[k]]
    BY <1>4 DEF Unlink
  <2> QED
    BY <2>1, <2>2
<1>9. Ran(t) = Ran(s) \ {i}
  <2>1. ASSUME NEW x \in Ran(t) PROVE x \in Ran(s) \ {i}
    BY <1>2, <1>4, <1>5, <1>6 DEF Ran, NoDup
  <2>2. ASSUME NEW x \in Ran(s), x # i PROVE x \in Ran(t)
    <3>1. PICK k \in DOMAIN s : x = s[k]
      BY DEF Ran
    <3>2. k < m \/ k > m
      BY <1>2, <1>4, <2>2, <3>1
    <3> QED
      BY <1>7, <3>1, <3>2 DEF Ran
  <2> QED
    BY <2>1, <2>2
<1>10. NoDup(t)
  <2>1. SUFFICES ASSUME NEW k \in DOMAIN t, NEW n \in DOMAIN t, t[k] = t[n]
                 PROVE  k = n
    BY DEF NoDup
  <2> QED
    BY <1>4, <1>5, <1>6, <2>1 DEF NoDup
<1> QED
  BY <1>3, <1>8, <1>9, <1>10

-----------------------------------------------------------------------------
(* What list operations do to the set of free blocks.                      *)

FreeAreaOK ==
    /\ free_area \in [Orders -> Seq(Frames)]
    /\ \A o \in Orders : NoDup(free_area[o])

(* The free blocks, list by list.                                          *)
LEMMA FreeBlocksRan ==
    ASSUME NEW b \in Frames \X Orders
    PROVE  b \in FreeBlocks <=> b[1] \in Ran(free_area[b[2]])
BY DEF FreeBlocks, Ran

(* What list_add on one of the lists does to the free blocks.              *)
LEMMA FreeAdd ==
    ASSUME FreeAreaOK, NEW i \in Frames, NEW o \in Orders, <<i, o>> \notin FreeBlocks,
           free_area' = [free_area EXCEPT ![o] = list_add(@, i)]
    PROVE  FreeAreaOK' /\ FreeBlocks' = FreeBlocks \union {<<i, o>>}
<1>1. free_area[o] \in Seq(Frames) /\ NoDup(free_area[o])
  BY DEF FreeAreaOK
<1>2. i \notin Ran(free_area[o])
  BY DEF FreeBlocks, Ran
<1>3. /\ free_area'[o] \in Seq(Frames) /\ NoDup(free_area'[o])
      /\ Ran(free_area'[o]) = Ran(free_area[o]) \union {i}
  BY <1>1, <1>2, ListAdd DEF FreeAreaOK
<1>4. \A p \in Orders : p # o => free_area'[p] = free_area[p]
  BY DEF FreeAreaOK
<1>5. FreeAreaOK'
  BY <1>3, <1>4 DEF FreeAreaOK
<1>6. ASSUME NEW b \in Frames \X Orders
      PROVE  b \in FreeBlocks' <=> b \in FreeBlocks \/ b = <<i, o>>
  <2>1. b \in FreeBlocks' <=> b[1] \in Ran(free_area'[b[2]])
    BY DEF FreeBlocks, Ran
  <2>2. b \in FreeBlocks <=> b[1] \in Ran(free_area[b[2]])
    BY FreeBlocksRan
  <2> QED
    BY <1>3, <1>4, <2>1, <2>2
<1>7. FreeBlocks' \subseteq Frames \X Orders /\ FreeBlocks \subseteq Frames \X Orders
  BY DEF FreeBlocks
<1> QED
  BY <1>5, <1>6, <1>7

(* What taking a block from one of the lists does to the free blocks.      *)
LEMMA FreeRemove ==
    ASSUME FreeAreaOK, NEW i \in Frames, NEW o \in Orders, NEW t,
           free_area' = [free_area EXCEPT ![o] = t],
           t \in Seq(Frames), NoDup(t), Ran(t) = Ran(free_area[o]) \ {i}
    PROVE  FreeAreaOK' /\ FreeBlocks' = FreeBlocks \ {<<i, o>>}
<1>1. free_area'[o] = t /\ \A p \in Orders : p # o => free_area'[p] = free_area[p]
  BY DEF FreeAreaOK
<1>2. FreeAreaOK'
  BY <1>1 DEF FreeAreaOK
<1>3. ASSUME NEW b \in Frames \X Orders
      PROVE  b \in FreeBlocks' <=> b \in FreeBlocks /\ b # <<i, o>>
  <2>1. b \in FreeBlocks' <=> b[1] \in Ran(free_area'[b[2]])
    BY DEF FreeBlocks, Ran
  <2>2. b \in FreeBlocks <=> b[1] \in Ran(free_area[b[2]])
    BY FreeBlocksRan
  <2> QED
    BY <1>1, <2>1, <2>2
<1>4. FreeBlocks' \subseteq Frames \X Orders /\ FreeBlocks \subseteq Frames \X Orders
  BY DEF FreeBlocks
<1> QED
  BY <1>2, <1>3, <1>4

-----------------------------------------------------------------------------
(* The inductive invariant.                                                *)

VarsOK ==
    /\ frames \in [Frames -> Entries]
    /\ memlock \in {0, 1}
    /\ pc \in [Ctx -> Labels]
    /\ req \in [Ctx -> Orders]
    /\ usr \in [Ctx -> BOOLEAN]
    /\ blk \in [Ctx -> Frames]
    /\ ord \in [Ctx -> Orders]
    /\ \A c \in Ctx : pc[c] = "a_split" => req[c] <= ord[c]

(* The lists, the callers and the contexts have different blocks.          *)
Apart ==
    /\ FreeBlocks \cap live = {}
    /\ \A c \in Holding : Hand(c) \notin FreeBlocks /\ Hand(c) \notin live
    /\ \A c, d \in Holding : c # d => Hand(c) # Hand(d)

(* A block being merged already has the entry of a free block.             *)
MergeOK ==
    \A c \in Ctx : pc[c] \in Merging =>
       frames[blk[c]].order = ord[c] /\ ~ frames[blk[c]].alloc

IInv ==
    /\ VarsOK
    /\ Exclusive
    /\ FreeAreaOK
    /\ Tiling(Pieces)
    /\ Apart
    /\ FlagsExact
    /\ MergeOK

(* What every step does beyond keeping IInv: the entry of a block that     *)
(* stays owned is not touched, at most one block changes owner, and a block*)
(* is put on a list only if its buddy is on none.                          *)
EntriesKept == \A b \in Owned : b \in Owned' => frames'[b[1]] = frames[b[1]]

OwnedStep ==
    \/ Owned' = Owned
    \/ \E b \in Blocks : Heap!Alloc(b) \/ Heap!Free(b)

NewFreeOK ==
    \A b \in FreeBlocks' : b \notin FreeBlocks /\ b[2] < MAX_ORDER =>
       <<Buddy(b[1], b[2]), b[2]>> \notin FreeBlocks'

StepOK == EntriesKept /\ OwnedStep /\ NewFreeOK

(* Different pieces start at different frames.                             *)
LEMMA Starts ==
    ASSUME Tiling(Pieces)
    PROVE  /\ Pieces \subseteq Blocks
           /\ \A a, b \in Pieces : a[1] = b[1] => a = b
           /\ FreeBlocks \subseteq Pieces /\ live \subseteq Pieces
           /\ \A c \in Holding : Hand(c) \in Pieces
           /\ Owned \subseteq Pieces
<1>1. Pieces \subseteq Blocks
  BY DEF Tiling
<1>2. ASSUME NEW a \in Pieces, NEW b \in Pieces, a[1] = b[1] PROVE a = b
  <2>1. /\ a[1] \in Nat /\ Size[a[2]] \in Nat /\ Size[a[2]] > 0
        /\ Size[b[2]] \in Nat /\ Size[b[2]] > 0
    BY <1>1, InHeap
  <2>2. ~ Disjoint(a, b)
    BY <1>2, <2>1 DEF Disjoint
  <2> QED
    BY <2>2 DEF Tiling
<1>3. Owned \subseteq Pieces
  BY DEF Owned, Freeing, Pieces, Holding
<1> QED
  BY <1>1, <1>2, <1>3 DEF Pieces

USE DEF Merging

(* What a return leaves: no lock, no locals, no block in hand.             *)
LEMMA ReturnVars ==
    ASSUME VarsOK, NEW c \in Ctx, Return(c), frames' \in [Frames -> Entries]
    PROVE  VarsOK'
<1>1. 0 \in Orders /\ 0 \in Frames
  BY RootBlock, SizeFacts DEF Orders
<1>2. req' \in [Ctx -> Orders] /\ ord' \in [Ctx -> Orders] /\ blk' \in [Ctx -> Frames]
  BY <1>1 DEF VarsOK, Return
<1>3. pc' \in [Ctx -> Labels] /\ memlock' \in {0, 1}
  BY DEF VarsOK, Return, Labels
<1>4. usr' \in [Ctx -> BOOLEAN]
  BY DEF VarsOK, Return
<1>5. \A d \in Ctx : pc'[d] = "a_split" => req'[d] <= ord'[d]
  BY DEF VarsOK, Return
<1> QED
  BY <1>2, <1>3, <1>4, <1>5 DEF VarsOK

(* A call of buddy_alloc keeps the invariant.                              *)
LEMMA AllocCallInv ==
    ASSUME IInv, NEW c \in Ctx, NEW o \in Orders, NEW u \in BOOLEAN, AllocCall(c, o, u)
    PROVE  IInv' /\ StepOK
<1> USE DEF IInv
<1>1. VarsOK'
  BY DEF AllocCall, VarsOK, Labels
<1>2. Exclusive'
  BY DEF AllocCall, Exclusive, VarsOK, Locked
<1>3. FreeAreaOK' /\ FreeBlocks' = FreeBlocks
  BY DEF AllocCall, FreeAreaOK, FreeBlocks
<1>4. Holding' = Holding /\ \A d \in Ctx : Hand(d)' = Hand(d)
  BY DEF AllocCall, Holding, Hand, VarsOK
<1>5. Pieces' = Pieces /\ live' = live
  BY <1>3, <1>4 DEF AllocCall, Pieces, Holding
<1>6. Apart'
  BY <1>3, <1>4, <1>5 DEF Apart, Holding
<1>7. Owned' = Owned /\ frames' = frames
  BY DEF AllocCall, Owned, Freeing, Hand, VarsOK
<1>8. FlagsExact'
  BY <1>3, <1>7 DEF FlagsExact
<1>9. Tiling(Pieces)'
  BY <1>5
<1>99. MergeOK'
  BY DEF AllocCall, MergeOK, VarsOK
<1>100. StepOK
  BY <1>3, <1>7 DEF StepOK, EntriesKept, OwnedStep, NewFreeOK
<1> QED
  BY <1>1, <1>2, <1>3, <1>6, <1>8, <1>9, <1>99, <1>100 DEF StepOK

(* mem_lock in buddy_alloc keeps it.                                       *)
LEMMA AllocLockInv ==
    ASSUME IInv, NEW c \in Ctx, AllocLock(c)
    PROVE  IInv' /\ StepOK
<1> USE DEF IInv
<1>1. VarsOK'
  BY DEF AllocLock, VarsOK, Labels
<1>2. Exclusive'
  BY DEF AllocLock, Exclusive, VarsOK, Locked
<1>3. FreeAreaOK' /\ FreeBlocks' = FreeBlocks
  BY DEF AllocLock, FreeAreaOK, FreeBlocks
<1>4. Holding' = Holding /\ \A d \in Ctx : Hand(d)' = Hand(d)
  BY DEF AllocLock, Holding, Hand, VarsOK
<1>5. Pieces' = Pieces /\ live' = live
  BY <1>3, <1>4 DEF AllocLock, Pieces, Holding
<1>6. Apart'
  BY <1>3, <1>4, <1>5 DEF Apart, Holding
<1>7. Owned' = Owned /\ frames' = frames
  BY DEF AllocLock, Owned, Freeing, Hand, VarsOK
<1>8. FlagsExact'
  BY <1>3, <1>7 DEF FlagsExact
<1>9. Tiling(Pieces)'
  BY <1>5
<1>99. MergeOK'
  BY DEF AllocLock, MergeOK, VarsOK
<1>100. StepOK
  BY <1>3, <1>7 DEF StepOK, EntriesKept, OwnedStep, NewFreeOK
<1> QED
  BY <1>1, <1>2, <1>3, <1>6, <1>8, <1>9, <1>99, <1>100 DEF StepOK

(* Taking the first block that fits keeps it: the block moves from its     *)
(* list to the hands of the context.                                       *)
LEMMA AllocFindInv ==
    ASSUME IInv, NEW c \in Ctx, AllocFind(c)
    PROVE  IInv' /\ StepOK
<1> USE DEF IInv
<1>0. PICK found \in Orders :
          /\ FirstFit(req[c], found)
          /\ blk' = [blk EXCEPT ![c] = Head(free_area[found])]
          /\ ord' = [ord EXCEPT ![c] = found]
          /\ free_area' = [free_area EXCEPT ![found] = Tail(@)]
  BY DEF AllocFind
<1>1. /\ free_area[found] # <<>> /\ req[c] <= found
      /\ blk' = [blk EXCEPT ![c] = Head(free_area[found])]
      /\ ord' = [ord EXCEPT ![c] = found]
      /\ free_area' = [free_area EXCEPT ![found] = Tail(@)]
  BY <1>0, SizeFacts DEF FirstFit, VarsOK, Orders
<1> DEFINE h == <<Head(free_area[found]), found>>
           s == free_area[found]
<1>2. /\ Head(s) \in Frames /\ Head(s) \in Ran(s)
      /\ Tail(s) \in Seq(Frames) /\ NoDup(Tail(s)) /\ Ran(Tail(s)) = Ran(s) \ {Head(s)}
  BY <1>1, ListPop DEF FreeAreaOK
<1>3. FreeAreaOK' /\ FreeBlocks' = FreeBlocks \ {h}
  BY <1>1, <1>2, FreeRemove
<1>4. h \in FreeBlocks
  BY <1>2, FreeBlocksRan
<1>5. c \notin Holding /\ Holding' = Holding \union {c}
  BY DEF AllocFind, Holding, VarsOK
<1>6. Hand(c)' = h /\ \A d \in Ctx : d # c => Hand(d)' = Hand(d)
  BY <1>1 DEF Hand, VarsOK
<1>7. live' = live /\ frames' = frames
  BY DEF AllocFind
<1>8. Pieces' = Pieces
  BY <1>3, <1>4, <1>5, <1>6, <1>7 DEF Pieces, Holding
<1>9. Apart'
  BY <1>3, <1>4, <1>5, <1>6, <1>7 DEF Apart, Holding
<1>10. Owned' = Owned
  BY <1>6, <1>7 DEF Owned, Freeing, AllocFind, VarsOK
<1>11. FlagsExact'
  BY <1>3, <1>7, <1>10 DEF FlagsExact
<1>12. VarsOK'
  BY <1>1, <1>2 DEF AllocFind, VarsOK, Labels
<1>13. Exclusive'
  BY DEF AllocFind, Exclusive, VarsOK, Locked
<1>14. Tiling(Pieces)'
  BY <1>8
<1>99. MergeOK'
  BY <1>1, <1>7 DEF AllocFind, MergeOK, VarsOK, Exclusive, Locked
<1>100. StepOK
  BY <1>3, <1>7, <1>10 DEF StepOK, EntriesKept, OwnedStep, NewFreeOK
<1> QED
  BY <1>3, <1>9, <1>11, <1>12, <1>13, <1>14, <1>99, <1>100 DEF StepOK

(* Returning NULL keeps it.                                                *)
LEMMA AllocNullInv ==
    ASSUME IInv, NEW c \in Ctx, AllocNull(c)
    PROVE  IInv' /\ StepOK
<1> USE DEF IInv
<1>1. VarsOK'
  BY ReturnVars DEF AllocNull, VarsOK
<1>2. Exclusive'
  BY DEF AllocNull, Return, Exclusive, VarsOK, Locked
<1>3. FreeAreaOK' /\ FreeBlocks' = FreeBlocks
  BY DEF AllocNull, FreeAreaOK, FreeBlocks
<1>4. Holding' = Holding /\ \A d \in Holding : Hand(d)' = Hand(d)
  BY DEF AllocNull, Return, Holding, Hand, VarsOK
<1>5. Pieces' = Pieces /\ live' = live
  BY <1>3, <1>4 DEF AllocNull, Pieces
<1>6. Apart'
  BY <1>3, <1>4, <1>5 DEF Apart
<1>7. Owned' = Owned /\ frames' = frames
  BY DEF AllocNull, Return, Owned, Freeing, Hand, VarsOK
<1>8. FlagsExact'
  BY <1>3, <1>7 DEF FlagsExact
<1>9. Tiling(Pieces)'
  BY <1>5
<1>99. MergeOK'
  BY DEF AllocNull, Return, MergeOK, VarsOK, Exclusive, Locked
<1>100. StepOK
  BY <1>3, <1>7 DEF StepOK, EntriesKept, OwnedStep, NewFreeOK
<1> QED
  BY <1>1, <1>2, <1>3, <1>6, <1>8, <1>9, <1>99, <1>100 DEF StepOK

(* Halving the block keeps it: the upper half goes on its list with an     *)
(* entry that says so, and its own buddy is not free.                      *)
LEMMA AllocSplitInv ==
    ASSUME IInv, NEW c \in Ctx, AllocSplit(c)
    PROVE  IInv' /\ StepOK
<1> USE DEF IInv
<1> DEFINE o == ord[c] - 1
           i == blk[c]
           j == Buddy(i, o)
           L == <<i, o>>
           U == <<j, o>>
<1>1. /\ c \in Holding /\ Hand(c) = <<i, ord[c]>>
      /\ ord[c] \in Orders /\ req[c] \in Orders /\ ord[c] > req[c] /\ i \in Frames
  BY DEF AllocSplit, Holding, Hand, VarsOK
<1>2. /\ o \in Orders /\ o + 1 \in Orders /\ o + 1 = ord[c] /\ req[c] <= o
      /\ ord[c] # o
  BY <1>1, SizeFacts DEF Orders
<1>3. <<i, o + 1>> \in Pieces /\ <<i, o + 1>> \in Blocks
  BY <1>1, <1>2, Starts
<1>4. j = i + Size[o] /\ L \in Blocks /\ U \in Blocks
  BY <1>2, <1>3, Halves
<1>5. /\ i \in Nat /\ Size[o] \in Nat /\ Size[o] > 0 /\ j \in Frames
      /\ Size[o + 1] = 2 * Size[o]
  BY <1>2, <1>3, <1>4, Halves, InHeap
<1>6. ASSUME NEW b \in Pieces PROVE b[1] # j /\ b # L /\ b # U
  <2>1. CASE b = <<i, o + 1>>
    BY <1>2, <1>4, <1>5, <2>1
  <2>2. CASE b # <<i, o + 1>>
    <3>1. Disjoint(b, <<i, o + 1>>)
      BY <1>3, <2>2 DEF Tiling
    <3>2. b[1] \in Nat /\ Size[b[2]] \in Nat /\ Size[b[2]] > 0
      BY InHeap DEF Tiling
    <3>3. b[1] # j /\ b[1] # i
      BY <1>4, <1>5, <3>1, <3>2 DEF Disjoint
    <3> QED
      BY <3>3
  <2> QED
    BY <2>1, <2>2
<1>7. /\ frames' = [frames EXCEPT ![j] = Entry(o, FALSE, FALSE)]
      /\ free_area' = [free_area EXCEPT ![o] = list_add(@, j)]
      /\ ord' = [ord EXCEPT ![c] = o]
      /\ live' = live /\ blk' = blk /\ pc' = pc /\ memlock' = memlock /\ req' = req /\ usr' = usr
  BY DEF AllocSplit
<1>8. FreeAreaOK' /\ FreeBlocks' = FreeBlocks \union {U}
  <2>1. U \notin FreeBlocks
    BY <1>6, Starts
  <2> QED
    BY <1>2, <1>5, <1>7, <2>1, FreeAdd
<1>9. /\ Holding' = Holding /\ Hand(c)' = L
      /\ \A d \in Ctx : d # c => Hand(d)' = Hand(d)
  BY <1>1, <1>7 DEF Holding, Hand, VarsOK
<1> HIDE DEF i, o, j
<1>10. Pieces' = (Pieces \ {<<i, o + 1>>}) \union {L, U}
  <2>1. <<i, o + 1>> = Hand(c)
    BY <1>1, <1>2
  <2>2. <<i, o + 1>> \notin FreeBlocks /\ <<i, o + 1>> \notin live
    BY <1>1, <2>1 DEF Apart
  <2>3. \A d \in Holding : d # c => Hand(d) # <<i, o + 1>>
    BY <1>1, <2>1 DEF Apart
  <2> QED
    BY <1>1, <1>7, <1>8, <1>9, <2>1, <2>2, <2>3 DEF Pieces, Holding
<1>11. Tiling(Pieces)'
  <2>1. Tiling(Pieces')
    BY <1>2, <1>3, <1>4, <1>10, SplitTiling
  <2> QED
    BY <2>1
<1>12. Apart'
  <2>1. L # U
    BY <1>4, <1>5
  <2>2. ASSUME NEW d \in Holding, d # c
        PROVE  Hand(d)' # L /\ Hand(d)' # U /\ Hand(d)' \notin FreeBlocks /\ Hand(d)' \notin live
    BY <1>6, <1>9, <2>2, Starts DEF Apart, Holding
  <2>3. U \notin live /\ L \notin live /\ L \notin FreeBlocks
    BY <1>6, Starts
  <2>4. \A d, e \in Holding : d # c /\ e # c /\ d # e => Hand(d)' # Hand(e)'
    BY <1>9 DEF Apart, Holding
  <2> QED
    BY <1>7, <1>8, <1>9, <2>1, <2>2, <2>3, <2>4 DEF Apart
<1>13. Owned' = Owned /\ Owned \subseteq Pieces /\ FreeBlocks \subseteq Pieces
  BY <1>7, <1>9, Starts DEF Owned, Freeing, AllocSplit
<1>14. /\ frames'[j] = Entry(o, FALSE, FALSE)
       /\ \A f \in Frames : f # j => frames'[f] = frames[f]
  BY <1>5, <1>7 DEF VarsOK
<1>15. FlagsExact'
  <2>1. \A b \in FreeBlocks' : frames'[b[1]].order = b[2] /\ ~ frames'[b[1]].alloc
    BY <1>6, <1>8, <1>13, <1>14 DEF FlagsExact, Entry, FreeBlocks
  <2>2. \A b \in Owned' : frames'[b[1]].order = b[2] /\ frames'[b[1]].alloc
    BY <1>6, <1>13, <1>14, Starts, InHeap DEF FlagsExact
  <2>3. \A f \in Frames : frames'[f].alloc => <<f, frames'[f].order>> \in Owned'
    BY <1>13, <1>14 DEF FlagsExact, Entry
  <2> QED
    BY <2>1, <2>2, <2>3 DEF FlagsExact
<1>16. VarsOK'
  BY <1>2, <1>5, <1>7 DEF VarsOK, Entry, Entries
<1>17. Exclusive'
  BY <1>7 DEF Exclusive
<1>99. MergeOK'
  BY <1>7 DEF AllocSplit, MergeOK, Exclusive, Locked
<1>100. EntriesKept /\ OwnedStep
  BY <1>6, <1>13, <1>14, Starts, InHeap DEF EntriesKept, OwnedStep
<1>101. NewFreeOK
  <2>1. Buddy(j, o) = i
    BY <1>2, <1>3, <1>4, Halves
  <2>2. L \notin FreeBlocks'
    BY <1>4, <1>5, <1>6, <1>8, Starts
  <2> QED
    BY <1>8, <2>1, <2>2 DEF NewFreeOK
<1> QED
  BY <1>8, <1>11, <1>12, <1>15, <1>16, <1>17, <1>99, <1>100, <1>101 DEF StepOK

(* Handing the block out keeps it.                                         *)
LEMMA AllocDoneInv ==
    ASSUME IInv, NEW c \in Ctx, AllocDone(c)
    PROVE  IInv' /\ StepOK
<1> USE DEF IInv
<1> DEFINE h == <<blk[c], req[c]>>
<1>1. /\ c \in Holding /\ Hand(c) = h /\ pc[c] = "a_split"
      /\ blk[c] \in Frames /\ req[c] \in Orders /\ usr[c] \in BOOLEAN
  BY DEF AllocDone, Holding, Hand, VarsOK
<1>2. /\ Return(c) /\ free_area' = free_area /\ live' = live \union {h}
      /\ frames' = [frames EXCEPT ![blk[c]] = Entry(req[c], TRUE, usr[c])]
  BY DEF AllocDone
<1>3. FreeAreaOK' /\ FreeBlocks' = FreeBlocks
  BY <1>2 DEF FreeAreaOK, FreeBlocks
<1>4. Holding' = Holding \ {c} /\ \A d \in Ctx : d # c => Hand(d)' = Hand(d)
  BY <1>2 DEF Return, Holding, Hand, VarsOK
<1>5. Pieces' = Pieces
  BY <1>1, <1>2, <1>3, <1>4 DEF Pieces, Holding
<1>6. Tiling(Pieces)'
  BY <1>5
<1>7. Apart'
  BY <1>1, <1>2, <1>3, <1>4 DEF Apart, Holding
<1>8. Freeing' = Freeing
  BY <1>1, <1>2, <1>4 DEF Freeing, Return, VarsOK
<1>9. Owned' = Owned \union {h} /\ Owned \subseteq Pieces /\ FreeBlocks \subseteq Pieces
  BY <1>2, <1>8, Starts DEF Owned
<1>10. h \in Pieces /\ h \notin FreeBlocks /\ h \notin Owned
  BY <1>1, Starts DEF Apart, Owned, Freeing, Holding
<1>11. /\ frames'[blk[c]] = Entry(req[c], TRUE, usr[c])
       /\ \A f \in Frames : f # blk[c] => frames'[f] = frames[f]
  BY <1>1, <1>2 DEF VarsOK
<1>12. FlagsExact'
  <2>1. ASSUME NEW b \in FreeBlocks PROVE frames'[b[1]].order = b[2] /\ ~ frames'[b[1]].alloc
    <3>1. b[1] # blk[c] /\ b[1] \in Frames
      BY <1>9, <1>10, Starts, InHeap
    <3> QED
      BY <1>11, <3>1 DEF FlagsExact
  <2>2. ASSUME NEW b \in Owned' PROVE frames'[b[1]].order = b[2] /\ frames'[b[1]].alloc
    <3>1. CASE b = h
      BY <1>11, <3>1 DEF Entry
    <3>2. CASE b # h
      <4>1. b \in Owned /\ b[1] # blk[c] /\ b[1] \in Frames
        BY <1>9, <1>10, <3>2, Starts, InHeap
      <4> QED
        BY <1>11, <4>1 DEF FlagsExact
    <3> QED
      BY <3>1, <3>2
  <2>3. ASSUME NEW f \in Frames, frames'[f].alloc PROVE <<f, frames'[f].order>> \in Owned'
    <3>1. CASE f = blk[c]
      BY <1>9, <1>11, <3>1 DEF Entry
    <3>2. CASE f # blk[c]
      BY <1>9, <1>11, <2>3, <3>2 DEF FlagsExact
    <3> QED
      BY <3>1, <3>2
  <2> QED
    BY <1>3, <2>1, <2>2, <2>3 DEF FlagsExact
<1>13. frames' \in [Frames -> Entries]
  BY <1>1, <1>2 DEF VarsOK, Entry, Entries
<1>14. VarsOK'
  BY <1>2, <1>13, ReturnVars
<1>15. Exclusive'
  BY <1>1, <1>2 DEF Return, Exclusive, VarsOK, Locked
<1>99. MergeOK'
  BY <1>1, <1>2 DEF Return, MergeOK, VarsOK, Exclusive, Locked
<1>100. EntriesKept
  <2>1. \A b \in Owned : b[1] # blk[c] /\ b[1] \in Frames
    BY <1>9, <1>10, Starts, InHeap
  <2> QED
    BY <1>11, <2>1 DEF EntriesKept
<1>101. OwnedStep
  <2>1. h \in Blocks /\ \A a \in Owned : Disjoint(a, h)
    BY <1>9, <1>10 DEF Tiling
  <2> QED
    BY <1>9, <2>1 DEF OwnedStep, Heap!Alloc
<1>102. NewFreeOK
  BY <1>3 DEF NewFreeOK
<1> QED
  BY <1>3, <1>6, <1>7, <1>12, <1>14, <1>15, <1>99, <1>100, <1>101, <1>102 DEF StepOK

(* What kfree and munmap_user do before the lock keeps it: the entry they  *)
(* read is that of an owned block.                                         *)
LEMMA FreeCallInv ==
    ASSUME IInv, NEW c \in Ctx, NEW i \in Frames, FreeCall(c, i)
    PROVE  IInv' /\ StepOK
<1> USE DEF IInv
<1> DEFINE h == <<i, frames[i].order>>
<1>1. /\ pc[c] = "idle" /\ frames[i].alloc /\ frames[i].order \in Orders
      /\ \A d \in Ctx : pc[d] = "f_lock" => blk[d] # i
      /\ live' = live \ {h} /\ frames' = frames /\ free_area' = free_area
      /\ blk' = [blk EXCEPT ![c] = i] /\ ord' = [ord EXCEPT ![c] = frames[i].order]
      /\ pc' = [pc EXCEPT ![c] = "f_lock"]
      /\ memlock' = memlock /\ req' = req /\ usr' = usr
  BY DEF FreeCall, VarsOK, Entries
<1>2. h \in Owned /\ h \in live
  BY <1>1 DEF FlagsExact, Owned, Freeing, Hand
<1>3. FreeAreaOK' /\ FreeBlocks' = FreeBlocks
  BY <1>1 DEF FreeAreaOK, FreeBlocks
<1>4. /\ c \notin Holding /\ Holding' = Holding \union {c} /\ Hand(c)' = h
      /\ \A d \in Ctx : d # c => Hand(d)' = Hand(d)
  BY <1>1 DEF Holding, Hand, VarsOK
<1>5. Pieces' = Pieces
  BY <1>1, <1>2, <1>3, <1>4 DEF Pieces, Holding
<1>6. Tiling(Pieces)'
  BY <1>5
<1>7. Apart'
  BY <1>1, <1>2, <1>3, <1>4 DEF Apart, Holding
<1>8. Freeing' = Freeing \union {h}
  BY <1>1, <1>4 DEF Freeing, VarsOK
<1>9. Owned' = Owned
  BY <1>1, <1>2, <1>8 DEF Owned
<1>10. FlagsExact'
  BY <1>1, <1>3, <1>9 DEF FlagsExact
<1>11. VarsOK'
  BY <1>1 DEF VarsOK, Labels
<1>12. Exclusive'
  BY <1>1 DEF Exclusive, VarsOK, Locked
<1>99. MergeOK'
  BY <1>1 DEF MergeOK, VarsOK
<1>100. StepOK
  BY <1>1, <1>3, <1>9 DEF StepOK, EntriesKept, OwnedStep, NewFreeOK
<1> QED
  BY <1>3, <1>6, <1>7, <1>10, <1>11, <1>12, <1>99, <1>100 DEF StepOK

(* Clearing the flags under the lock keeps it: the entry still is the one  *)
(* that was read.                                                          *)
LEMMA FreeLockInv ==
    ASSUME IInv, NEW c \in Ctx, FreeLock(c)
    PROVE  IInv' /\ StepOK
<1> USE DEF IInv
<1> DEFINE h == <<blk[c], ord[c]>>
<1>1. /\ c \in Holding /\ Hand(c) = h /\ pc[c] = "f_lock" /\ memlock = 0
      /\ blk[c] \in Frames /\ ord[c] \in Orders
      /\ frames' = [frames EXCEPT ![blk[c]] = Entry(ord[c], FALSE, FALSE)]
      /\ pc' = [pc EXCEPT ![c] = "f_merge"] /\ memlock' = 1
      /\ blk' = blk /\ ord' = ord /\ live' = live /\ free_area' = free_area
      /\ req' = req /\ usr' = usr
  BY DEF FreeLock, Holding, Hand, VarsOK
<1>2. FreeAreaOK' /\ FreeBlocks' = FreeBlocks
  BY <1>1 DEF FreeAreaOK, FreeBlocks
<1>3. Holding' = Holding /\ \A d \in Ctx : Hand(d)' = Hand(d)
  BY <1>1 DEF Holding, Hand, VarsOK
<1>4. Pieces' = Pieces
  BY <1>1, <1>2, <1>3 DEF Pieces, Holding
<1>5. Tiling(Pieces)'
  BY <1>4
<1>6. Apart'
  BY <1>1, <1>2, <1>3 DEF Apart, Holding
<1>7. Freeing' = Freeing \ {h} /\ h \in Freeing /\ h \notin live /\ h \notin FreeBlocks
  BY <1>1, <1>3 DEF Freeing, VarsOK, Apart, Holding
<1>8. Owned' = Owned \ {h} /\ h \in Pieces /\ Owned \subseteq Pieces /\ FreeBlocks \subseteq Pieces
  BY <1>1, <1>7, Starts DEF Owned
<1>9. /\ frames'[blk[c]] = Entry(ord[c], FALSE, FALSE)
      /\ \A f \in Frames : f # blk[c] => frames'[f] = frames[f]
  BY <1>1 DEF VarsOK
<1>10. ASSUME NEW b \in Pieces, b # h PROVE frames'[b[1]] = frames[b[1]] /\ b[1] \in Frames
  BY <1>8, <1>9, <1>10, Starts, InHeap
<1>11. FlagsExact'
  <2>1. \A b \in FreeBlocks' : frames'[b[1]].order = b[2] /\ ~ frames'[b[1]].alloc
    BY <1>2, <1>7, <1>8, <1>10 DEF FlagsExact
  <2>2. \A b \in Owned' : frames'[b[1]].order = b[2] /\ frames'[b[1]].alloc
    BY <1>8, <1>10 DEF FlagsExact
  <2>3. ASSUME NEW f \in Frames, frames'[f].alloc PROVE <<f, frames'[f].order>> \in Owned'
    <3>1. f # blk[c]
      BY <1>9, <2>3 DEF Entry
    <3> QED
      BY <1>8, <1>9, <2>3, <3>1 DEF FlagsExact
  <2> QED
    BY <2>1, <2>2, <2>3 DEF FlagsExact
<1>12. VarsOK'
  BY <1>1 DEF VarsOK, Labels, Entry, Entries
<1>13. Exclusive'
  BY <1>1 DEF Exclusive, VarsOK, Locked
<1>99. MergeOK'
  BY <1>1, <1>9 DEF MergeOK, VarsOK, Exclusive, Locked, Entry
<1>100. EntriesKept
  BY <1>8, <1>10 DEF EntriesKept
<1>101. OwnedStep
  <2>1. h \in Blocks /\ h \in Owned
    BY <1>7, <1>8, Starts DEF Owned
  <2> QED
    BY <1>8, <2>1 DEF OwnedStep, Heap!Free
<1>102. NewFreeOK
  BY <1>2 DEF NewFreeOK
<1> QED
  BY <1>2, <1>5, <1>6, <1>11, <1>12, <1>13, <1>99, <1>100, <1>101, <1>102 DEF StepOK

(* The test of the merging loop, read off frames[], is right: the buddy it *)
(* accepts is a free block on the list of that order.                      *)
LEMMA MergeableIsFree ==
    ASSUME IInv, NEW c \in Ctx, pc[c] \in Merging, Mergeable(blk[c], ord[c])
    PROVE  <<Buddy(blk[c], ord[c]), ord[c]>> \in FreeBlocks
<1> USE DEF IInv
<1> DEFINE i == blk[c]
           o == ord[c]
           j == Buddy(i, o)
<1>1. /\ c \in Holding /\ Hand(c) = <<i, o>> /\ o < MAX_ORDER
      /\ frames[j].order = o /\ ~ frames[j].alloc
  BY DEF Holding, Hand, Mergeable
<1>2. <<i, o>> \in Pieces /\ <<i, o>> \in Blocks
  BY <1>1, Starts
<1>3. PICK p \in Orders : p <= o /\ <<j, p>> \in Pieces
  BY <1>1, <1>2, BuddyIsStart
<1>4. i # j
  <2>1. Size[o] \in Nat /\ Size[o] > 0 /\ i \in Nat
    BY <1>2, InHeap
  <2> QED
    BY <2>1 DEF Buddy
<1> DEFINE b == <<j, p>>
<1>5. CASE b \in FreeBlocks
  BY <1>1, <1>5 DEF FlagsExact
<1>6. CASE b \in live
  BY <1>1, <1>6 DEF FlagsExact, Owned
<1>7. CASE \E d \in Holding : b = Hand(d)
  <2>1. PICK d \in Holding : b = Hand(d)
    BY <1>7
  <2>2. d # c
    BY <1>1, <1>4, <2>1
  <2>3. pc[d] = "f_lock"
    BY <2>2 DEF Holding, Exclusive, Locked
  <2>4. b \in Owned
    BY <2>1, <2>3 DEF Owned, Freeing, Holding
  <2> QED
    BY <1>1, <2>4 DEF FlagsExact
<1> QED
  BY <1>3, <1>5, <1>6, <1>7 DEF Pieces

(* Joining the block with its buddy keeps it.                              *)
LEMMA JoinInv ==
    ASSUME IInv, NEW c \in Ctx, pc[c] \in Merging, Join(c),
           UNCHANGED <<memlock, pc, req, usr, live>>
    PROVE  IInv' /\ StepOK
<1> USE DEF IInv
<1> DEFINE i == blk[c]
           o == ord[c]
           j == Buddy(i, o)
           x == Lower(i, j)
           P == <<x, o + 1>>
<1>1. /\ c \in Holding /\ Hand(c) = <<i, o>>
      /\ Mergeable(i, o) /\ o < MAX_ORDER /\ i \in Frames /\ o \in Orders
  BY DEF Join, Holding, Hand, VarsOK, Mergeable
<1>2. /\ free_area' = [free_area EXCEPT ![o] = list_remove(@, j)]
      /\ frames' = [frames EXCEPT ![x] = Entry(o + 1, FALSE, FALSE)]
      /\ blk' = [blk EXCEPT ![c] = x] /\ ord' = [ord EXCEPT ![c] = o + 1]
      /\ memlock' = memlock /\ pc' = pc /\ req' = req /\ usr' = usr /\ live' = live
  BY DEF Join
<1>3. <<j, o>> \in FreeBlocks
  BY <1>1, MergeableIsFree
<1>4. /\ <<i, o>> \in Pieces /\ <<i, o>> \in Blocks
      /\ <<j, o>> \in Pieces /\ <<j, o>> \in Blocks
  BY <1>1, <1>3, Starts
<1>5. /\ o + 1 \in Orders /\ o \in Nat /\ Size[o] \in Nat /\ Size[o] > 0
      /\ i \in Nat /\ j \in Frames
  BY <1>1, <1>4, InHeap, SizeFacts
<1>6. PICK p \in Frames :
          /\ <<p, o + 1>> \in Blocks
          /\ \/ i = p /\ j = p + Size[o]
             \/ i = p + Size[o] /\ j = p
  BY <1>1, <1>4, Parent
<1>7. p \in Nat
  BY <1>6, InHeap
<1>8. x = p /\ {<<i, o>>, <<j, o>>} = {<<p, o>>, <<p + Size[o], o>>}
  BY <1>5, <1>6, <1>7 DEF Lower
<1>9. FreeAreaOK' /\ FreeBlocks' = FreeBlocks \ {<<j, o>>}
  <2>1. j \in Ran(free_area[o])
    BY <1>1, <1>3, <1>5, FreeBlocksRan
  <2> DEFINE t == list_remove(free_area[o], j)
  <2>2. t \in Seq(Frames) /\ NoDup(t) /\ Ran(t) = Ran(free_area[o]) \ {j}
    BY <1>1, <2>1, ListRemove DEF FreeAreaOK
  <2>3. free_area' = [free_area EXCEPT ![o] = t]
    BY <1>2
  <2> QED
    BY <1>1, <1>5, <2>2, <2>3, FreeRemove
<1>10. /\ Holding' = Holding /\ Hand(c)' = P
       /\ \A d \in Ctx : d # c => Hand(d)' = Hand(d)
  BY <1>1, <1>2 DEF Holding, Hand, VarsOK
<1> HIDE DEF i, o, j, x
<1>11. Pieces' = (Pieces \ {<<i, o>>, <<j, o>>}) \union {P}
  <2>1. <<i, o>> \notin FreeBlocks /\ <<i, o>> \notin live /\ <<j, o>> \notin live
    BY <1>1, <1>3 DEF Apart
  <2>2. \A d \in Holding : d # c => Hand(d) # <<i, o>> /\ Hand(d) # <<j, o>>
    BY <1>1, <1>3 DEF Apart
  <2> QED
    BY <1>1, <1>2, <1>3, <1>9, <1>10, <2>1, <2>2 DEF Pieces, Holding
<1>12. Tiling(Pieces)'
  <2>1. <<p, o>> \in Pieces /\ <<p + Size[o], o>> \in Pieces
    BY <1>4, <1>8
  <2>2. Tiling(Pieces')
    BY <1>1, <1>5, <1>6, <1>8, <1>11, <2>1, MergeTiling
  <2> QED
    BY <2>2
<1>13. P \notin Pieces
  <2>1. ~ Disjoint(P, <<p, o>>) /\ P # <<p, o>>
    <3>1. Size[o + 1] \in Nat /\ Size[o + 1] > 0
      BY <1>5, SizeFacts
    <3> QED
      BY <1>5, <1>7, <1>8, <3>1 DEF Disjoint
  <2>2. <<p, o>> \in Pieces
    BY <1>4, <1>8
  <2> QED
    BY <2>1, <2>2 DEF Tiling
<1>14. Apart'
  <2>1. P \notin FreeBlocks /\ P \notin live /\ \A d \in Holding : Hand(d) # P
    BY <1>13, Starts
  <2> QED
    BY <1>2, <1>9, <1>10, <2>1 DEF Apart, Holding
<1>15. Owned' = Owned /\ Owned \subseteq Pieces /\ FreeBlocks \subseteq Pieces
  BY <1>1, <1>2, <1>10, Starts DEF Owned, Freeing
<1>16. <<i, o>> \notin FreeBlocks /\ <<i, o>> \notin Owned /\ <<j, o>> \notin Owned
  BY <1>1, <1>3 DEF Apart, Owned, Freeing, Holding
<1>17. /\ frames'[x] = Entry(o + 1, FALSE, FALSE)
       /\ \A f \in Frames : f # x => frames'[f] = frames[f]
  BY <1>2, <1>8 DEF VarsOK
<1>18. ASSUME NEW b \in Pieces, b # <<i, o>>, b # <<j, o>>
       PROVE  frames'[b[1]] = frames[b[1]] /\ b[1] \in Frames
  <2>1. b[1] # i /\ b[1] # j /\ b[1] \in Frames
    BY <1>4, <1>18, Starts, InHeap
  <2>2. x = i \/ x = j
    BY DEF x, Lower
  <2> QED
    BY <1>17, <2>1, <2>2
<1>19. FlagsExact'
  <2>1. \A b \in FreeBlocks' : frames'[b[1]].order = b[2] /\ ~ frames'[b[1]].alloc
    BY <1>9, <1>15, <1>16, <1>18 DEF FlagsExact
  <2>2. \A b \in Owned' : frames'[b[1]].order = b[2] /\ frames'[b[1]].alloc
    BY <1>15, <1>16, <1>18 DEF FlagsExact
  <2>3. \A f \in Frames : frames'[f].alloc => <<f, frames'[f].order>> \in Owned'
    BY <1>15, <1>17 DEF FlagsExact, Entry
  <2> QED
    BY <2>1, <2>2, <2>3 DEF FlagsExact
<1>20. VarsOK'
  <2>1. x \in Frames
    BY <1>8
  <2> QED
    BY <1>1, <1>2, <1>5, <2>1 DEF VarsOK, Entry, Entries
<1>21. Exclusive'
  BY <1>2 DEF Exclusive
<1>22. MergeOK'
  <2>1. blk'[c] = x /\ ord'[c] = o + 1
    BY <1>2 DEF VarsOK
  <2> QED
    BY <1>1, <1>2, <1>17, <2>1 DEF MergeOK, Exclusive, Locked, Entry
<1>100. EntriesKept /\ OwnedStep
  BY <1>15, <1>16, <1>18 DEF EntriesKept, OwnedStep
<1>101. NewFreeOK
  BY <1>9 DEF NewFreeOK
<1> QED
  BY <1>9, <1>12, <1>14, <1>19, <1>20, <1>21, <1>22, <1>100, <1>101 DEF StepOK

(* So does one turn of the loop of buddy_free.                            *)
LEMMA FreeMergeInv ==
    ASSUME IInv, NEW c \in Ctx, FreeMerge(c)
    PROVE  IInv' /\ StepOK
BY JoinInv DEF FreeMerge, Merging

(* Putting the block on its list keeps it: the loop has just found that    *)
(* its buddy is not free.                                                  *)
LEMMA PutBackInv ==
    ASSUME IInv, NEW c \in Ctx, pc[c] \in Merging, PutBack(c), UNCHANGED <<frames, live>>,
           NEW l \in {"idle", "r_scan"}, pc' = [pc EXCEPT ![c] = l],
           \A d \in Ctx : d # c => blk'[d] = blk[d] /\ ord'[d] = ord[d],
           VarsOK', Exclusive'
    PROVE  IInv' /\ StepOK
<1> USE DEF IInv
<1> DEFINE h == <<blk[c], ord[c]>>
<1>1. /\ c \in Holding /\ Hand(c) = h /\ l \notin Merging
      /\ blk[c] \in Frames /\ ord[c] \in Orders
      /\ frames' = frames /\ live' = live
      /\ free_area' = [free_area EXCEPT ![ord[c]] = list_add(@, blk[c])]
  BY DEF PutBack, Holding, Hand, VarsOK
<1>2. h \notin FreeBlocks /\ h \notin live
  BY <1>1 DEF Apart
<1>3. FreeAreaOK' /\ FreeBlocks' = FreeBlocks \union {h}
  BY <1>1, <1>2, FreeAdd
<1>4. Holding' = Holding \ {c} /\ \A d \in Ctx : d # c => Hand(d)' = Hand(d)
  BY <1>1 DEF Holding, Hand, VarsOK
<1>5. Pieces' = Pieces
  BY <1>1, <1>3, <1>4 DEF Pieces, Holding
<1>6. Tiling(Pieces)'
  BY <1>5
<1>7. Apart'
  BY <1>1, <1>2, <1>3, <1>4 DEF Apart, Holding
<1>8. Owned' = Owned
  BY <1>1, <1>4 DEF Owned, Freeing, VarsOK
<1>9. FlagsExact'
  BY <1>1, <1>3, <1>8 DEF FlagsExact, MergeOK
<1>12. MergeOK'
  BY <1>1 DEF MergeOK, VarsOK, Exclusive, Locked
<1>100. EntriesKept /\ OwnedStep
  BY <1>1, <1>8 DEF EntriesKept, OwnedStep
<1>101. NewFreeOK
  <2>1. SUFFICES ASSUME ord[c] < MAX_ORDER,
                        <<Buddy(blk[c], ord[c]), ord[c]>> \in FreeBlocks'
                 PROVE  FALSE
    BY <1>3 DEF NewFreeOK
  <2>2. Buddy(blk[c], ord[c]) # blk[c]
    BY <1>1, <2>1, BuddyOfBuddy, Starts
  <2>3. <<Buddy(blk[c], ord[c]), ord[c]>> \in FreeBlocks
    BY <1>3, <2>1, <2>2
  <2>4. Mergeable(blk[c], ord[c])
    BY <2>1, <2>3 DEF Mergeable, FlagsExact
  <2> QED
    BY <2>4 DEF PutBack
<1> QED
  BY <1>3, <1>6, <1>7, <1>9, <1>12, <1>100, <1>101 DEF StepOK

(* So does the end of buddy_free.                                          *)
LEMMA FreeDoneInv ==
    ASSUME IInv, NEW c \in Ctx, FreeDone(c)
    PROVE  IInv' /\ StepOK
<1>1. /\ pc[c] \in Merging /\ PutBack(c) /\ UNCHANGED <<frames, live>> /\ Return(c)
  BY DEF FreeDone
<1>2. VarsOK'
  BY <1>1, ReturnVars DEF VarsOK, IInv
<1>3. Exclusive'
  BY <1>1 DEF Return, Exclusive, VarsOK, Locked, IInv
<1>4. \A d \in Ctx : d # c => blk'[d] = blk[d] /\ ord'[d] = ord[d]
  BY <1>1 DEF Return, VarsOK, IInv
<1> QED
  BY <1>1, <1>2, <1>3, <1>4, PutBackInv DEF Return

-----------------------------------------------------------------------------
(* The theorems.                                                           *)

(* memory_init establishes the invariant.                                  *)
LEMMA InitInv == Init => IInv
<1> SUFFICES ASSUME Init PROVE IInv
  OBVIOUS
<1>1. MAX_ORDER \in Orders /\ 0 \in Orders /\ 0 \in Frames
  BY RootBlock, SizeFacts DEF Orders
<1>2. VarsOK
  BY <1>1 DEF Init, VarsOK, Entry, Entries, Labels
<1>3. Exclusive
  BY DEF Init, Exclusive, Locked
<1>4. FreeAreaOK
  BY <1>1 DEF Init, FreeAreaOK, NoDup
<1>5. FreeBlocks = {<<0, MAX_ORDER>>}
  BY <1>1 DEF Init, FreeBlocks
<1>6. Holding = {} /\ live = {} /\ Owned = {}
  BY DEF Init, Holding, Owned, Freeing
<1>7. Pieces = {<<0, MAX_ORDER>>}
  BY <1>5, <1>6 DEF Pieces
<1>8. Tiling(Pieces)
  BY <1>7, RootBlock DEF Tiling, Span, Frames
<1>9. Apart
  BY <1>6 DEF Apart
<1>10. FlagsExact
  BY <1>1, <1>5, <1>6 DEF FlagsExact, Init, Entry
<1>11. MergeOK
  BY DEF Init, MergeOK
<1> QED
  BY <1>2, <1>3, <1>4, <1>8, <1>9, <1>10, <1>11 DEF IInv

(* Every step keeps the invariant and is a step of the abstract heap or    *)
(* leaves the owned blocks and their entries alone.                        *)
LEMMA NextInv == IInv /\ [Next]_vars => IInv' /\ StepOK
<1> SUFFICES ASSUME IInv, [Next]_vars PROVE IInv' /\ StepOK
  OBVIOUS
<1>1. CASE Next
  <2>1. PICK c \in Ctx : Call(c) \/ Inside(c)
    BY <1>1 DEF Next
  <2>2. CASE Call(c)
    BY <2>2, AllocCallInv, FreeCallInv DEF Call
  <2>3. CASE Inside(c)
    BY <2>3, AllocLockInv, AllocFindInv, AllocNullInv, AllocSplitInv, AllocDoneInv,
       FreeLockInv, FreeMergeInv, FreeDoneInv DEF Inside
  <2> QED
    BY <2>1, <2>2, <2>3
<1>2. CASE UNCHANGED vars
  <2>1. IInv'
    BY <1>2 DEF vars, IInv, VarsOK, Exclusive, FreeAreaOK, Tiling, Pieces, FreeBlocks, Holding,
       Hand, Apart, FlagsExact, Owned, Freeing, MergeOK
  <2>2. frames' = frames /\ Owned' = Owned /\ FreeBlocks' = FreeBlocks
    BY <1>2 DEF vars, Owned, Freeing, Hand, FreeBlocks
  <2> QED
    BY <2>1, <2>2 DEF StepOK, EntriesKept, OwnedStep, NewFreeOK
<1> QED
  BY <1>1, <1>2

(* The invariant holds in every state.                                     *)
LEMMA Inductive == Spec => []IInv
BY InitInv, NextInv, PTL DEF Spec

(* It implies the types,                                                   *)
LEMMA InvTypeOK == IInv => TypeOK
<1> SUFFICES ASSUME IInv PROVE TypeOK
  OBVIOUS
<1>1. Pieces \subseteq Blocks /\ live \subseteq Blocks
  BY Starts DEF IInv
<1> QED
  BY <1>1 DEF IInv, TypeOK, VarsOK, FreeAreaOK

(* and that blocks do not overlap.                                         *)
LEMMA InvNoOverlap == IInv => NoOverlap
BY DEF IInv, NoOverlap, Tiling, FreeAreaOK, NoDup, Apart

(* The variables keep their types and every block of the allocator keeps   *)
(* its alignment, whatever the contexts do.                                *)
THEOREM TypeCorrect == Spec => []TypeOK
BY Inductive, InvTypeOK, PTL

(* One context at a time is under memlock.                                 *)
THEOREM MutualExclusion == Spec => []Exclusive
BY Inductive, PTL DEF IInv

(* buddy_alloc never hands out memory that somebody has, and the links of  *)
(* the free lists are never written into a caller's block.                 *)
THEOREM Safety == Spec => []NoOverlap
BY Inductive, InvNoOverlap, PTL

(* No sequence of splits and merges loses a frame.                         *)
THEOREM Complete == Spec => []NoLeak
<1>1. IInv => NoLeak
  BY DEF IInv, Tiling, NoLeak
<1> QED
  BY <1>1, Inductive, PTL

(* FRAME_ALLOC is set exactly at the starts of owned blocks.               *)
THEOREM FlagsCorrect == Spec => []FlagsExact
BY Inductive, PTL DEF IInv

(* Free buddies are always joined.                                         *)
THEOREM AlwaysCoalesced == Spec => []Coalesced
<1>1. Init => Coalesced
  <2> SUFFICES ASSUME Init PROVE Coalesced
    OBVIOUS
  <2>1. \A b \in FreeBlocks : b[2] = MAX_ORDER
    BY DEF Init, FreeBlocks
  <2> QED
    BY <2>1, SizeFacts DEF Coalesced
<1>2. IInv /\ IInv' /\ StepOK /\ Coalesced => Coalesced'
  <2> SUFFICES ASSUME IInv, IInv', NewFreeOK, Coalesced,
                      NEW b \in FreeBlocks', b[2] < MAX_ORDER,
                      <<Buddy(b[1], b[2]), b[2]>> \in FreeBlocks'
               PROVE  FALSE
    BY DEF Coalesced, StepOK
  <2> DEFINE t == <<Buddy(b[1], b[2]), b[2]>>
  <2>1. b \in FreeBlocks /\ t \notin FreeBlocks
    BY DEF NewFreeOK, Coalesced
  <2>2. b \in Blocks /\ b = <<b[1], b[2]>>
    BY <2>1, Starts, InHeap DEF IInv
  <2>3. Buddy(t[1], t[2]) = b[1]
    BY <2>2, BuddyOfBuddy
  <2> QED
    BY <2>1, <2>2, <2>3 DEF NewFreeOK
<1> QED
  BY <1>1, <1>2, InitInv, NextInv, PTL DEF Spec

(* Among the orders of some blocks there is a least one.                   *)
LEMMA LeastOrder ==
    ASSUME NEW T, T \subseteq Nat, T # {}
    PROVE  \E m \in T : \A n \in T : m <= n
<1>1. PICK m \in T : \A n \in T : ~ (<<n, m>> \in OpToRel(<, Nat))
  BY NatLessThanWellFounded, WFMin
<1>2. ASSUME NEW n \in T PROVE m <= n
  <2>1. n \in Nat /\ m \in Nat /\ ~ (<<n, m>> \in {ss \in Nat \X Nat : ss[1] < ss[2]})
    BY <1>1 DEF OpToRel
  <2> QED
    BY <2>1
<1> QED
  BY <1>2

(* The heart of the matter: if an aligned run of frames has no owned frame *)
(* and nobody is in the middle of a split or a merge, then a free block at *)
(* least as large as the run covers it.  Otherwise take the smallest free  *)
(* block in the run: its buddy is in the run too, and starts a free block  *)
(* that is no larger, hence as large, and the two would have been joined.  *)
LEMMA FreeRunIsCovered ==
    ASSUME IInv, Coalesced, Pieces = FreeBlocks \union Owned,
           NEW b \in Blocks, \A a \in Owned : Disjoint(a, b)
    PROVE  \E x \in FreeBlocks : b[2] <= x[2]
<1> SUFFICES ASSUME \A x \in FreeBlocks : ~ (b[2] <= x[2])
             PROVE  FALSE
  OBVIOUS
<1> DEFINE Near == {x \in FreeBlocks : ~ Disjoint(x, b)}
           T == {x[2] : x \in Near}
<1>0. /\ Tiling(Pieces) /\ FreeBlocks \subseteq Blocks
      /\ b[1] \in Nat /\ b[1] \in Frames /\ b[2] \in Nat /\ Size[b[2]] \in Nat /\ Size[b[2]] > 0
  BY Starts, InHeap DEF IInv
<1>1. ASSUME NEW x \in Pieces, ~ Disjoint(x, b) PROVE x \in Near
  BY <1>1
<1>2. PICK y \in Pieces : b[1] \in Span(y)
  BY <1>0 DEF Tiling
<1>3. ~ Disjoint(y, b)
  <2>1. y[1] \in Nat /\ Size[y[2]] \in Nat
    BY <1>0, InHeap DEF Tiling
  <2> QED
    BY <1>0, <1>2, <2>1 DEF Disjoint, Span
<1>4. T # {} /\ T \subseteq Nat
  BY <1>0, <1>1, <1>3, InHeap
<1>5. PICK m \in T : \A n \in T : m <= n
  BY <1>4, LeastOrder
<1>6. PICK x \in Near : x[2] = m
  BY <1>5
<1>7. /\ x \in Blocks /\ x = <<x[1], m>> /\ x[1] \in Nat /\ m \in Nat /\ m \in Orders
      /\ Size[m] \in Nat /\ Size[m] > 0
  BY <1>0, <1>6, InHeap
<1>8. m < b[2] /\ m < MAX_ORDER /\ m + 1 \in Orders /\ Size[m + 1] = 2 * Size[m]
  <2>1. m < b[2] /\ b[2] <= MAX_ORDER
    BY <1>0, <1>6, <1>7, InHeap, SizeFacts DEF Orders
  <2> QED
    BY <2>1, <1>0, <1>7, SizeFacts
<1> DEFINE j == Buddy(x[1], m)
<1>9. PICK p \in Frames :
              /\ <<p, m + 1>> \in Blocks
              /\ \/ x[1] = p /\ j = p + Size[m]
                 \/ x[1] = p + Size[m] /\ j = p
  BY <1>7, <1>8, Parent
<1>10. p \in Nat
  BY <1>9, InHeap
<1>11. b[1] <= p /\ p + Size[m + 1] <= b[1] + Size[b[2]]
  <2> DEFINE P == <<p, m + 1>>
  <2>1. P[1] = p /\ P[2] = m + 1 /\ P \in Blocks /\ P[2] <= b[2]
    BY <1>0, <1>7, <1>8, <1>9
  <2>2. ~ Disjoint(x, b)
    BY <1>6
  <2>3. ~ Disjoint(P, b)
    BY <1>0, <1>6, <1>7, <1>8, <1>9, <1>10, <2>1, <2>2 DEF Disjoint
  <2> QED
    BY <2>1, <2>3, Nesting
<1>12. PICK q \in Orders : q <= m /\ <<j, q>> \in Pieces
  <2>1. <<x[1], m>> \in Pieces
    BY <1>6, <1>7 DEF Pieces
  <2> QED
    BY <1>0, <1>8, <2>1, BuddyIsStart
<1>13. <<j, q>> \in Near
  <2> DEFINE t == <<j, q>>
  <2>1. t[1] = j /\ t[2] = q /\ j \in Nat /\ Size[q] \in Nat /\ Size[q] > 0
    BY <1>0, <1>12, InHeap DEF Tiling
  <2>2. ~ Disjoint(t, b)
    BY <1>0, <1>7, <1>8, <1>9, <1>10, <1>11, <2>1 DEF Disjoint
  <2> QED
    BY <1>1, <1>12, <2>2
<1>14. q = m
  <2>1. q \in T
    BY <1>13
  <2> QED
    BY <1>4, <1>5, <1>7, <1>12, <2>1
<1> QED
  BY <1>6, <1>7, <1>8, <1>13, <1>14 DEF Coalesced

(* buddy_alloc returns NULL only if no aligned run of the requested size   *)
(* is without an owned frame: merging is complete, so fragmentation never  *)
(* costs more than the blocks that are really in use.                      *)
THEOREM NullIsHonest == Spec => NoFalseOOM
<1> DEFINE Honest == \A c \in Ctx : pc[c] = "a_find" /\ pc'[c] = "idle" =>
          \A b \in Blocks : b[2] = req[c] => \E a \in Owned : ~ Disjoint(a, b)
<1>1. ASSUME IInv, Coalesced, [Next]_vars, NEW c \in Ctx, pc[c] = "a_find", pc'[c] = "idle"
      PROVE  \A b \in Blocks : b[2] = req[c] => \E a \in Owned : ~ Disjoint(a, b)
  <2>1. AllocNull(c)
    <3>1. pc \in [Ctx -> Labels]
      BY <1>1 DEF IInv, VarsOK
    <3>2. PICK d \in Ctx : Call(d) \/ Inside(d)
      BY <1>1 DEF Next, vars
    <3>3. d = c
      BY <1>1, <3>1, <3>2 DEF Call, Inside, AllocCall, AllocLock, AllocFind, AllocNull, 
         AllocSplit, AllocDone, FreeCall, FreeLock, FreeMerge, FreeDone, Return, Labels
    <3> QED
      BY <1>1, <3>1, <3>2, <3>3 DEF Call, Inside, AllocCall, AllocLock, AllocFind,
         AllocSplit, AllocDone, FreeCall, FreeLock, FreeMerge, FreeDone, Return, Labels
  <2>2. Pieces = FreeBlocks \union Owned
    <3>1. \A d \in Ctx : pc[d] \notin {"a_split"} \union Merging
      BY <1>1 DEF IInv, Exclusive, Locked
    <3> QED
      BY <3>1 DEF Pieces, Owned, Freeing, Holding
  <2>3. \A x \in FreeBlocks : ~ (req[c] <= x[2])
    <3>1. \A x \in FreeBlocks : x[2] \in Orders /\ free_area[x[2]] # <<>>
      BY DEF FreeBlocks
    <3>2. req[c] \in Nat /\ \A o \in Orders : req[c] <= o => free_area[o] = <<>>
      BY <1>1, <2>1, SizeFacts DEF AllocNull, IInv, VarsOK, Orders
    <3> QED
      BY <3>1, <3>2
  <2> QED
    BY <1>1, <2>2, <2>3, FreeRunIsCovered
<1>2. IInv /\ Coalesced /\ [Next]_vars => [Honest]_vars
  BY <1>1
<1>3. Spec => [](IInv /\ Coalesced)
  BY Inductive, AlwaysCoalesced, PTL
<1> QED
  BY <1>2, <1>3, PTL DEF Spec, NoFalseOOM

(* No step touches the entry of a block that stays owned, so what kfree    *)
(* and munmap_user read outside the lock still holds inside it.            *)
THEOREM EntriesStable == Spec => OwnedStable
<1>1. IInv /\ [Next]_vars => [\A b \in Owned : b \in Owned' => frames'[b[1]] = frames[b[1]]]_vars
  BY NextInv DEF StepOK, EntriesKept
<1> QED
  BY <1>1, Inductive, PTL DEF Spec, OwnedStable

(* The allocator implements the abstract heap.                             *)
THEOREM Implements == Spec => RefinesHeap
<1>1. Init => Heap!Init
  BY DEF Init, Heap!Init, Owned, Freeing
<1>2. IInv /\ [Next]_vars => [Heap!Next]_Owned
  BY NextInv DEF StepOK, OwnedStep, Heap!Next
<1> QED
  BY <1>1, <1>2, Inductive, PTL DEF Spec, RefinesHeap, Heap!Spec

=============================================================================
