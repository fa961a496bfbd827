---------------------------- MODULE Fat32Proofs ----------------------------
(***************************************************************************)
(* The shape of the disk for every number of clusters, every size of a     *)
(* sector and every set of names: no cluster has two owners, no reference  *)
(* is left to a free cluster, the directories form a tree, files are as    *)
(* long as their entries say, and a write changes one file only, which     *)
(* then reads back as what was written.                                    *)
(***************************************************************************)
EXTENDS Fat32, FiniteSetTheorems, WellFoundedInduction, TLAPS

-----------------------------------------------------------------------------
(* Numbers                                                                 *)

LEMMA Disk ==
    /\ Last \in Nat /\ Last >= 2 /\ SlotCount \in Nat /\ SlotCount > 2
    /\ Clusters = 2..Last /\ Root = 2 /\ Root \in Clusters /\ EOC = Last + 1
    /\ EOC \notin Clusters /\ 0 \notin Clusters /\ EOC # 0
    /\ \A c \in Clusters : c \in Nat
    /\ 0 \in SlotIx /\ 1 \in SlotIx /\ \A i \in SlotIx : i \in Nat
BY DiskAssumption DEF Clusters, Root, EOC, SlotIx

LEMMA LeastNat ==
    ASSUME NEW T, T \subseteq Nat, T # {}
    PROVE  \E m \in T : \A n \in T : m <= n
<1>1. PICK m \in T : \A n \in T : ~ (<<n, m>> \in OpToRel(<, Nat))
  BY NatLessThanWellFounded, WFMin
<1>2. ASSUME NEW n \in T PROVE m <= n
  <2>1. n \in Nat /\ m \in Nat /\ ~ (<<n, m>> \in {ss \in Nat \X Nat : ss[1] < ss[2]})
    BY <1>1 DEF OpToRel
  <2> QED
    BY <2>1
<1> QED
  BY <1>2

-----------------------------------------------------------------------------
(* The loop over a chain                                                   *)

(* g is the sequence of the numbers that a loop from c visits in the FAT F. *)
Visits(F, c, g, n) ==
    g = [k \in 0..n |-> IF k = 0 THEN c
                        ELSE IF g[k - 1] \in Clusters THEN F[g[k - 1]] ELSE g[k - 1]]

LEMMA VisitsExist ==
    ASSUME NEW F, NEW c
    PROVE  \A n \in Nat : \E g : Visits(F, c, g, n)
<1> DEFINE Bad == {n \in Nat : ~ \E g : Visits(F, c, g, n)}
<1> SUFFICES ASSUME Bad # {} PROVE FALSE
  OBVIOUS
<1>1. PICK m \in Bad : \A y \in Bad : m <= y
  BY LeastNat
<1>2. m # 0
  <2>1. Visits(F, c, [k \in 0..0 |-> c], 0)
    BY DEF Visits
  <2> QED
    BY <2>1
<1>3. PICK g : Visits(F, c, g, m - 1)
  BY <1>1, <1>2
<1> DEFINE h == [k \in 0..m |-> IF k < m THEN g[k]
                                ELSE IF g[m - 1] \in Clusters THEN F[g[m - 1]] ELSE g[m - 1]]
<1>4. Visits(F, c, h, m)
  <2>1. \A k \in 0..m - 1 : g[k] = IF k = 0 THEN c
                                   ELSE IF g[k - 1] \in Clusters THEN F[g[k - 1]] ELSE g[k - 1]
    BY <1>3 DEF Visits
  <2> QED
    BY <2>1, <1>2 DEF Visits
<1> QED
  BY <1>1, <1>4

LEMMA WalkVisits ==
    ASSUME NEW c
    PROVE  /\ Visits(fat, c, Walk(c), Last - 2)
           /\ Visits(fat', c, Walk(c)', Last - 2)
<1>1. \E g : Visits(fat, c, g, Last - 2)
  BY VisitsExist, Disk
<1>2. \E g : Visits(fat', c, g, Last - 2)
  BY VisitsExist, Disk
<1>3. Visits(fat, c, Walk(c), Last - 2)
  BY <1>1 DEF Walk, Visits
<1>4. Visits(fat', c, Walk(c)', Last - 2)
  BY <1>2 DEF Walk, Visits
<1> QED
  BY <1>3, <1>4

LEMMA VisitsStep ==
    ASSUME NEW F, NEW c, NEW g, NEW n \in Nat, Visits(F, c, g, n)
    PROVE  /\ g[0] = c
           /\ \A k \in 0..n : k # 0 =>
                /\ k - 1 \in 0..n
                /\ g[k] = IF g[k - 1] \in Clusters THEN F[g[k - 1]] ELSE g[k - 1]
           /\ g = [k \in 0..n |-> g[k]]
<1>1. \A k \in 0..n : g[k] = IF k = 0 THEN c
                             ELSE IF g[k - 1] \in Clusters THEN F[g[k - 1]] ELSE g[k - 1]
  BY DEF Visits
<1>2. g = [k \in 0..n |-> g[k]]
  BY DEF Visits
<1>3. g[0] = c
  BY <1>1
<1>4. ASSUME NEW k \in 0..n, k # 0
      PROVE  /\ k - 1 \in 0..n
             /\ g[k] = IF g[k - 1] \in Clusters THEN F[g[k - 1]] ELSE g[k - 1]
  BY <1>1, <1>4
<1> QED
  BY <1>2, <1>3, <1>4

(* A chain depends only on the entries of its own clusters.                *)
LEMMA VisitsSame ==
    ASSUME NEW F, NEW F1, NEW c, NEW g, NEW g1, NEW n \in Nat,
           Visits(F, c, g, n), Visits(F1, c, g1, n),
           \A k \in 0..n : g[k] \in Clusters => F1[g[k]] = F[g[k]]
    PROVE  g1 = g
<1> DEFINE Bad == {k \in 0..n : g1[k] # g[k]}
<1>1. ASSUME Bad # {} PROVE FALSE
  <2>0. Bad \subseteq Nat
    OBVIOUS
  <2>1. PICK m \in Bad : \A y \in Bad : m <= y
    BY <1>1, <2>0, LeastNat
  <2>2. m # 0
    BY <2>1, VisitsStep
  <2>3. m - 1 \in 0..n /\ g1[m - 1] = g[m - 1]
    BY <2>1, <2>2
  <2> QED
    BY <2>1, <2>2, <2>3, VisitsStep
<1>2. g = [k \in 0..n |-> g[k]] /\ g1 = [k \in 0..n |-> g1[k]]
  BY VisitsStep
<1>3. \A k \in 0..n : g1[k] = g[k]
  BY <1>1
<1> QED
  BY <1>2, <1>3

(* The clusters of a chain.                                                *)
Members(g) == {x \in Clusters : \E k \in 0..(Last - 2) : g[k] = x}
Chain(d) == Members(Walk(d))

LEMMA MembersFacts ==
    ASSUME NEW F, NEW c, NEW g, Visits(F, c, g, Last - 2)
    PROVE  /\ c \in Clusters => c \in Members(g)
           /\ \A x \in Members(g) : x # c => \E y \in Members(g) : F[y] = x
           /\ c \in Clusters /\ F[c] = EOC => Members(g) = {c}
<1>0. Last - 2 \in Nat
  BY Disk
<1>1. c \in Clusters => c \in Members(g)
  BY <1>0, VisitsStep DEF Members
<1>2. ASSUME NEW x \in Members(g), x # c PROVE \E y \in Members(g) : F[y] = x
  <2>1. PICK k \in 0..(Last - 2) : g[k] = x
    BY DEF Members
  <2> DEFINE Hit == {j \in 0..(Last - 2) : g[j] = x}
  <2>2. PICK m \in Hit : \A j \in Hit : m <= j
    <3>1. Hit \subseteq Nat /\ Hit # {}
      BY <2>1, <1>0
    <3> QED
      BY <3>1, LeastNat
  <2>3. m # 0
    BY <2>2, <1>0, <1>2, VisitsStep
  <2>4. m - 1 \in 0..(Last - 2) /\ g[m] = IF g[m - 1] \in Clusters THEN F[g[m - 1]] ELSE g[m - 1]
    BY <2>2, <2>3, <1>0, VisitsStep
  <2>5. g[m - 1] # x
    BY <2>2, <2>4
  <2>6. g[m - 1] \in Clusters /\ F[g[m - 1]] = x
    BY <2>2, <2>4, <2>5
  <2> QED
    BY <2>4, <2>6 DEF Members
<1>3. ASSUME c \in Clusters, F[c] = EOC PROVE Members(g) = {c}
  <2> DEFINE Bad == {k \in 0..(Last - 2) : k # 0 /\ g[k] # EOC}
  <2>1. ASSUME Bad # {} PROVE FALSE
    <3>1. PICK m \in Bad : \A y \in Bad : m <= y
      <4>1. Bad \subseteq Nat
        BY <1>0
      <4> QED
        BY <4>1, <2>1, LeastNat
    <3>2. m - 1 \in 0..(Last - 2) /\ g[m] = IF g[m - 1] \in Clusters THEN F[g[m - 1]] ELSE g[m - 1]
      BY <3>1, <1>0, VisitsStep
    <3>3. m - 1 = 0 \/ g[m - 1] = EOC
      BY <3>1, <3>2
    <3>4. g[0] = c
      BY <1>0, VisitsStep
    <3> QED
      BY <3>1, <3>2, <3>3, <3>4, <1>3, Disk
  <2>2. \A k \in 0..(Last - 2) : k = 0 \/ g[k] = EOC
    BY <2>1
  <2>3. g[0] = c
    BY <1>0, VisitsStep
  <2>4. \A x \in Members(g) : x = c
    BY <2>2, <2>3, Disk DEF Members
  <2> QED
    BY <1>1, <1>3, <2>4
<1> QED
  BY <1>1, <1>2, <1>3

-----------------------------------------------------------------------------
(* The first slot of a search                                              *)

Hits(w, P) == {h \in (0..(Last - 2)) \X SlotIx : <<w[h[1]], h[2]>> \in P}
Before(x, y) == x[1] < y[1] \/ (x[1] = y[1] /\ x[2] <= y[2])

IsFirst(w, P, p) == \E h \in Hits(w, P) : /\ p = <<w[h[1]], h[2]>>
                                          /\ \A y \in Hits(w, P) : Before(h, y)

(* p is what a search along the walk w for a slot in P returns.            *)
Found(w, P, p) == IF Hits(w, P) = {} THEN p = NoSlot ELSE IsFirst(w, P, p)

LEMMA LeastHit ==
    ASSUME NEW w, NEW P, Hits(w, P) # {}
    PROVE  \E h \in Hits(w, P) : \A y \in Hits(w, P) : Before(h, y)
<1>0. Last - 2 \in Nat /\ \A i \in SlotIx : i \in Nat
  BY Disk
<1> DEFINE Rows == {k \in 0..(Last - 2) : \E i \in SlotIx : <<k, i>> \in Hits(w, P)}
<1>1. \A h \in Hits(w, P) : h = <<h[1], h[2]>> /\ h[1] \in 0..(Last - 2) /\ h[2] \in SlotIx
  BY DEF Hits
<1>2. PICK k \in Rows : \A j \in Rows : k <= j
  <2>1. Rows \subseteq Nat /\ Rows # {}
    BY <1>0, <1>1
  <2> QED
    BY <2>1, LeastNat
<1> DEFINE Cols == {i \in SlotIx : <<k, i>> \in Hits(w, P)}
<1>3. PICK i \in Cols : \A j \in Cols : i <= j
  <2>1. Cols \subseteq Nat /\ Cols # {}
    BY <1>0, <1>2
  <2> QED
    BY <2>1, LeastNat
<1>4. ASSUME NEW y \in Hits(w, P) PROVE Before(<<k, i>>, y)
  <2>1. y = <<y[1], y[2]>> /\ y[1] \in Rows /\ y[2] \in SlotIx
    BY <1>1
  <2>2. k <= y[1]
    BY <1>2, <2>1
  <2>3. y[1] = k => y[2] \in Cols
    BY <2>1
  <2>4. y[1] = k => i <= y[2]
    BY <1>3, <2>3
  <2>5. y[1] \in Nat /\ k \in Nat
    BY <1>0, <2>1
  <2> QED
    BY <2>2, <2>4, <2>5 DEF Before
<1> QED
  BY <1>3, <1>4

LEMMA FoundUnique ==
    ASSUME NEW w, NEW P, NEW p, NEW r, Found(w, P, p), Found(w, P, r)
    PROVE  p = r
<1>1. CASE Hits(w, P) = {}
  BY <1>1 DEF Found
<1>2. CASE Hits(w, P) # {}
  <2>1. PICK h \in Hits(w, P) : p = <<w[h[1]], h[2]>> /\ \A y \in Hits(w, P) : Before(h, y)
    BY <1>2 DEF Found, IsFirst
  <2>2. PICK j \in Hits(w, P) : r = <<w[j[1]], j[2]>> /\ \A y \in Hits(w, P) : Before(j, y)
    BY <1>2 DEF Found, IsFirst
  <2>3. /\ h[1] \in Nat /\ h[2] \in Nat /\ j[1] \in Nat /\ j[2] \in Nat
    BY Disk DEF Hits
  <2>4. Before(h, j) /\ Before(j, h)
    BY <2>1, <2>2
  <2>5. h[1] = j[1] /\ h[2] = j[2]
    BY <2>3, <2>4 DEF Before
  <2> QED
    BY <2>1, <2>2, <2>5
<1> QED
  BY <1>1, <1>2

LEMMA FoundExists ==
    ASSUME NEW w, NEW P
    PROVE  \E p : Found(w, P, p)
<1>1. CASE Hits(w, P) = {}
  BY <1>1 DEF Found
<1>2. CASE Hits(w, P) # {}
  BY <1>2, LeastHit DEF Found, IsFirst
<1> QED
  BY <1>1, <1>2

LEMMA SearchFound ==
    ASSUME NEW d, NEW P
    PROVE  Found(Walk(d), P, Search(d, P))
<1> PICK w : w = Walk(d)
  OBVIOUS
<1> DEFINE best == CHOOSE x \in Hits(w, P) : \A y \in Hits(w, P) : Before(x, y)
<1>1. Search(d, P) = IF Hits(w, P) = {} THEN NoSlot ELSE <<w[best[1]], best[2]>>
  BY DEF Search, Hits, Before
<1>2. CASE Hits(w, P) = {}
  BY <1>1, <1>2 DEF Found
<1>3. CASE Hits(w, P) # {}
  <2>1. best \in Hits(w, P) /\ \A y \in Hits(w, P) : Before(best, y)
    BY <1>3, LeastHit
  <2> HIDE DEF best
  <2> QED
    BY <1>1, <1>3, <2>1 DEF Found, IsFirst
<1> QED
  BY <1>2, <1>3

OnWalk(w, s) == \E k \in 0..(Last - 2) : w[k] = s

(* What is found lies in P, on the walk; and nothing is missed.            *)
LEMMA FoundIn ==
    ASSUME NEW w, NEW P, P \subseteq Slots, NEW p, Found(w, P, p)
    PROVE  /\ p = NoSlot \/ (p \in P /\ OnWalk(w, p[1]))
           /\ p = NoSlot => Hits(w, P) = {}
           /\ NoSlot \notin Slots
<1>1. NoSlot \notin Slots
  BY Disk DEF NoSlot, Slots
<1>2. CASE Hits(w, P) = {}
  BY <1>1, <1>2 DEF Found
<1>3. CASE Hits(w, P) # {}
  <2>1. PICK h \in Hits(w, P) : p = <<w[h[1]], h[2]>>
    BY <1>3 DEF Found, IsFirst
  <2>2. p \in P /\ h[1] \in 0..(Last - 2) /\ p[1] = w[h[1]]
    BY <2>1 DEF Hits
  <2> QED
    BY <1>1, <1>3, <2>2 DEF OnWalk
<1> QED
  BY <1>1, <1>2, <1>3

(* ... along every walk from d, that is along the one that there is.       *)
FirstIn(F, d, P, p) == \A g : Visits(F, d, g, Last - 2) => Found(g, P, p)

(* A narrower search finds the same slot, if it is still one of those      *)
(* searched for.                                                           *)
LEMMA FoundNarrow ==
    ASSUME NEW w, NEW P, NEW Q, Q \subseteq P, P \subseteq Slots, NEW p,
           Found(w, P, p), p \in Q
    PROVE  Found(w, Q, p)
<1>0. p # NoSlot
  BY FoundIn
<1>1. Hits(w, P) # {}
  BY <1>0 DEF Found
<1>2. PICK h \in Hits(w, P) : p = <<w[h[1]], h[2]>> /\ \A y \in Hits(w, P) : Before(h, y)
  BY <1>1 DEF Found, IsFirst
<1>3. h \in Hits(w, Q) /\ Hits(w, Q) \subseteq Hits(w, P)
  BY <1>2 DEF Hits
<1> QED
  BY <1>2, <1>3 DEF Found, IsFirst

(* A search depends only on the slots of the clusters on its walk.         *)
LEMMA FoundSame ==
    ASSUME NEW w, NEW P, NEW Q,
           \A k \in 0..(Last - 2) : \A i \in SlotIx : <<w[k], i>> \in P <=> <<w[k], i>> \in Q
    PROVE  Hits(w, P) = Hits(w, Q) /\ \A p : Found(w, P, p) <=> Found(w, Q, p)
<1>1. Hits(w, P) = Hits(w, Q)
  BY DEF Hits
<1> QED
  BY <1>1 DEF Found, IsFirst

-----------------------------------------------------------------------------
(* The shape of the disk.  F stands for the FAT and D for the directory    *)
(* sectors; X is the set of the sectors that belong to directories and R   *)
(* those of the root directory.                                            *)

AllNames == Names \cup Dots \cup {Unused, Deleted}
EntrySet == [name : AllNames, dir : BOOLEAN, clus : Nat, size : Nat]
JobSet   == [name : AllNames, buf : Seq(Byte), first : Nat, cur : Nat, new : Nat,
             off : Int, slot : Nat \X Nat]

Rec(D, p) == D[p[1]][p[2]]
LiveIn(D) == {p \in Slots : Rec(D, p).name \in Names}
NamedIn(D, ns) == {p \in Slots : Rec(D, p).name \in ns}

(* The first cluster of the directory that sector s belongs to.            *)
Home(R, s) == IF s \in R THEN Root ELSE s

(* Slot p belongs to directory d.                                          *)
InDir(X, R, d, p) == p \in Slots /\ p[1] \in X /\ Home(R, p[1]) = d

Typed(F, D) ==
    /\ F \in [Clusters -> Clusters \cup {0, EOC}]
    /\ D \in [Clusters -> [SlotIx -> EntrySet]]

(* Directories other than the root have one sector, and no chain of a file *)
(* leads into a directory.                                                 *)
Areas(F, X, R) ==
    /\ R \subseteq X /\ X \subseteq Clusters /\ Root \in R
    /\ \A g : Visits(F, Root, g, Last - 2) => Members(g) = R
    /\ \A c \in R : F[c] \in R \cup {EOC}
    /\ \A c \in X : c \notin R => F[c] = EOC
    /\ \A c \in Clusters : c \notin X => F[c] \notin X

(* "." and ".." are where fat32_mkdir writes them, entries are in the      *)
(* sectors of directories, and files and directories differ in their names *)
Layout(D, X, R) ==
    /\ \A p \in LiveIn(D) : p[1] \in X /\ (Rec(D, p).dir <=> Rec(D, p).name \in DirNames)
    /\ \A c \in X : c \notin R =>
         /\ D[c][0].name = "." /\ D[c][0].dir /\ D[c][0].clus = c
         /\ D[c][1].name = ".." /\ D[c][1].dir
         /\ \A i \in SlotIx : i # 0 /\ i # 1 => D[c][i].name \notin Dots
    /\ \A c \in R : \A i \in SlotIx : D[c][i].name \notin Dots

Single(F, D) ==
    /\ \A x, y \in Clusters : F[x] \in Clusters /\ F[x] = F[y] => x = y
    /\ \A p, r \in LiveIn(D) : Rec(D, p).clus \in Clusters /\ Rec(D, p).clus = Rec(D, r).clus
                                  => p = r
    /\ \A x \in Clusters, p \in LiveIn(D) : F[x] \in Clusters => F[x] # Rec(D, p).clus
    /\ \A x \in Clusters : F[x] # Root
    /\ \A p \in LiveIn(D) : Rec(D, p).clus # Root

(* What entries lead to; the entry at o, of a directory that is being made *)
(* or removed, is excepted.                                                *)
Kinds(D, X, R, o) ==
    /\ \A p \in LiveIn(D) : ~ Rec(D, p).dir =>
         Rec(D, p).clus = 0 \/ (Rec(D, p).clus \in Clusters /\ Rec(D, p).clus \notin X)
    /\ \A p \in LiveIn(D) : Rec(D, p).dir /\ p # o =>
         /\ Rec(D, p).clus \in X /\ Rec(D, p).clus \notin R
         /\ D[Rec(D, p).clus][1].clus = Home(R, p[1])

(* No reference to a free cluster, except to m and from the entry at z.    *)
Alive(F, D, m, z) ==
    /\ \A x \in Clusters : F[x] \in Clusters /\ F[x] # m => F[F[x]] # 0
    /\ \A p \in LiveIn(D) : Rec(D, p).clus \in Clusters /\ p # z => F[Rec(D, p).clus] # 0

(* Behind an unused slot there are only unused slots.                      *)
NoGap(D, g) ==
    \A h, j \in (0..(Last - 2)) \X SlotIx :
      g[h[1]] \in Clusters /\ g[j[1]] \in Clusters /\ Before(h, j)
        /\ D[g[h[1]]][h[2]].name = Unused => D[g[j[1]]][j[2]].name = Unused

Tidy(F, D, X, R) ==
    \A d \in X : (d \in R => d = Root) =>
      \A g : Visits(F, d, g, Last - 2) => NoGap(D, g)

(* find_entry finds the entry at p in directory d.                         *)
Leads(F, D, R, d, p) ==
    /\ p \in LiveIn(D) /\ Home(R, p[1]) = d
    /\ FirstIn(F, d, NamedIn(D, {Rec(D, p).name, Unused}), p)

(* q[1], ..., q[n] are the directories from the root to the current one.   *)
Path(F, D, X, R, q, n) ==
    /\ n \in Nat /\ n # 0 /\ q \in [Nat -> Clusters] /\ q[1] = Root
    /\ \A i \in 1..n : q[i] \in X /\ (q[i] \in R => q[i] = Root)
    /\ \A i, j \in 1..n : q[i] = q[j] => i = j
    /\ \A i \in 1..n : i # n =>
         \E p : Leads(F, D, R, q[i], p) /\ Rec(D, p).dir /\ Rec(D, p).clus = q[i + 1]

(* The sectors of a directory are those that a loop over its chain visits. *)
LEMMA SectorsOf ==
    ASSUME NEW F, NEW X, NEW R, Areas(F, X, R), NEW d \in X, d \in R => d = Root,
           NEW g, Visits(F, d, g, Last - 2)
    PROVE  /\ \A k \in 0..(Last - 2) : g[k] \in Clusters => g[k] \in X /\ Home(R, g[k]) = d
           /\ \A s \in X : Home(R, s) = d => \E k \in 0..(Last - 2) : g[k] = s
<1>1. CASE d = Root
  <2>1. Members(g) = R
    BY <1>1 DEF Areas
  <2>2. \A k \in 0..(Last - 2) : g[k] \in Clusters => g[k] \in R
    BY <2>1 DEF Members
  <2>3. \A s \in R : \E k \in 0..(Last - 2) : g[k] = s
    BY <2>1 DEF Members
  <2> QED
    BY <1>1, <2>2, <2>3 DEF Areas, Home
<1>2. CASE d # Root
  <2>1. d \in Clusters /\ F[d] = EOC /\ d \notin R
    BY <1>2 DEF Areas
  <2>2. Members(g) = {d}
    BY <2>1, MembersFacts
  <2>3. \A k \in 0..(Last - 2) : g[k] \in Clusters => g[k] = d
    BY <2>2 DEF Members
  <2>4. \E k \in 0..(Last - 2) : g[k] = d
    BY <2>2 DEF Members
  <2> QED
    BY <1>2, <2>1, <2>3, <2>4 DEF Areas, Home
<1> QED
  BY <1>1, <1>2

(* The loop visits a cluster of the root directory once.                   *)
LEMMA RootInjective ==
    ASSUME NEW F, NEW D, Typed(F, D), Single(F, D), NEW g, Visits(F, Root, g, Last - 2)
    PROVE  \A j, k \in 0..(Last - 2) : g[j] \in Clusters /\ g[j] = g[k] => j = k
<1>0. Last - 2 \in Nat
  BY Disk
<1> DEFINE Bad == {j \in 0..(Last - 2) : \E k \in 0..(Last - 2) : j < k /\ g[j] \in Clusters /\ g[j] = g[k]}
<1>1. ASSUME Bad # {} PROVE FALSE
  <2>1. PICK m \in Bad : \A y \in Bad : m <= y
    <3>1. Bad \subseteq Nat
      BY <1>0
    <3> QED
      BY <3>1, <1>1, LeastNat
  <2>2. PICK k \in 0..(Last - 2) : m < k /\ g[m] \in Clusters /\ g[m] = g[k]
    BY <2>1
  <2>3. m \in Nat /\ k \in Nat /\ k # 0 /\ k - 1 \in 0..(Last - 2)
    BY <1>0, <2>1, <2>2
  <2>4. g[k] = IF g[k - 1] \in Clusters THEN F[g[k - 1]] ELSE g[k - 1]
    BY <1>0, <2>3, <2>2, VisitsStep
  <2>5. g[k - 1] \in Clusters /\ F[g[k - 1]] = g[k]
    BY <2>4, <2>2
  <2>6. m # 0
    <3>1. ASSUME m = 0 PROVE FALSE
      <4>1. g[0] = Root
        BY <1>0, VisitsStep
      <4> QED
        BY <4>1, <3>1, <2>2, <2>5 DEF Single
    <3> QED
      BY <3>1
  <2>7. m - 1 \in 0..(Last - 2) /\ g[m] = IF g[m - 1] \in Clusters THEN F[g[m - 1]] ELSE g[m - 1]
    BY <1>0, <2>1, <2>6, VisitsStep
  <2>8. g[m - 1] \in Clusters /\ F[g[m - 1]] = g[m]
    BY <2>7, <2>2
  <2>9. g[m - 1] = g[k - 1]
    BY <2>5, <2>8, <2>2 DEF Single
  <2>10. m - 1 < k - 1
    BY <2>2, <2>3
  <2>11. m - 1 \in Bad
    BY <2>7, <2>8, <2>9, <2>10, <2>3
  <2> QED
    BY <2>1, <2>3, <2>11
<1>2. ASSUME NEW j \in 0..(Last - 2), NEW k \in 0..(Last - 2), g[j] \in Clusters, g[j] = g[k], j # k PROVE FALSE
  <2>1. j < k \/ k < j
    BY <1>0, <1>2
  <2> QED
    BY <2>1, <1>1, <1>2
<1> QED
  BY <1>2

(* ... and that of any other directory once as well.                       *)
LEMMA WalkInjective ==
    ASSUME NEW F, NEW D, Typed(F, D), Single(F, D), NEW X, NEW R, Areas(F, X, R),
           NEW d \in X, d \in R => d = Root, NEW g, Visits(F, d, g, Last - 2)
    PROVE  \A j, k \in 0..(Last - 2) : g[j] \in Clusters /\ g[j] = g[k] => j = k
<1>1. CASE d = Root
  BY <1>1, RootInjective
<1>2. CASE d # Root
  <2>0. Last - 2 \in Nat
    BY Disk
  <2>1. d \in Clusters /\ F[d] = EOC
    BY <1>2 DEF Areas
  <2>2. \A k \in 0..(Last - 2) : g[k] \in Clusters => g[k] = d
    <3>1. Members(g) = {d}
      BY <2>1, MembersFacts
    <3> QED
      BY <3>1 DEF Members
  <2>3. ASSUME NEW k \in 0..(Last - 2), k # 0, g[k] \in Clusters PROVE FALSE
    <3>1. k - 1 \in 0..(Last - 2) /\ g[k] = IF g[k - 1] \in Clusters THEN F[g[k - 1]] ELSE g[k - 1]
      BY <2>0, <2>3, VisitsStep
    <3>2. g[k - 1] = d
      BY <2>2, <2>3, <3>1
    <3> QED
      BY <3>1, <3>2, <2>1, <2>3, Disk
  <2> QED
    BY <2>3
<1> QED
  BY <1>1, <1>2

LEMMA NameFacts ==
    /\ Unused \notin Names /\ Deleted \notin Names /\ "." \notin Names /\ ".." \notin Names
    /\ Unused # Deleted /\ Unused \notin Dots /\ Deleted \notin Dots
    /\ "." \in Dots /\ ".." \in Dots /\ "." # ".."
    /\ \A d \in Dots : d = "." \/ d = ".."
    /\ FileNames \subseteq Names /\ DirNames \subseteq Names
    /\ FileNames \cap DirNames = {}
    /\ \A d \in Dots : d \notin Names
BY NameAssumption DEF Names, Dots, Unused, Deleted

(* A change outside a directory leaves the loop over it what it was.       *)
LEMMA WalkKept ==
    ASSUME NEW F, NEW X, NEW R, Areas(F, X, R), NEW d \in X, d \in R => d = Root,
           NEW F1, \A s \in X : Home(R, s) = d => F1[s] = F[s],
           NEW g, Visits(F1, d, g, Last - 2)
    PROVE  Visits(F, d, g, Last - 2)
<1>0. Last - 2 \in Nat
  BY Disk
<1>1. PICK h : Visits(F, d, h, Last - 2)
  BY <1>0, VisitsExist
<1>2. \A k \in 0..(Last - 2) : h[k] \in Clusters => F1[h[k]] = F[h[k]]
  BY <1>1, SectorsOf
<1>3. g = h
  BY <1>0, <1>1, <1>2, VisitsSame
<1> QED
  BY <1>1, <1>3

(* The directories above the current one are not written.                  *)
Untouched(F, D, X, R, q, n, F1, D1, X1) ==
    \A i \in 1..n : /\ q[i] \in X1
                    /\ i # n => \A s \in X : Home(R, s) = q[i] =>
                                   F1[s] = F[s] /\ \A j \in SlotIx : D1[s][j] = D[s][j]

LEMMA PathKept ==
    ASSUME NEW F, NEW D, NEW X, NEW R, NEW q, NEW n, Areas(F, X, R), Path(F, D, X, R, q, n),
           NEW F1, NEW D1, NEW X1, Untouched(F, D, X, R, q, n, F1, D1, X1)
    PROVE  Path(F1, D1, X1, R, q, n)
<1>0. \A i \in 1..n : /\ q[i] \in X1
                      /\ i # n => \A s \in X : Home(R, s) = q[i] =>
                                    F1[s] = F[s] /\ \A j \in SlotIx : D1[s][j] = D[s][j]
  BY DEF Untouched
<1>1. ASSUME NEW i \in 1..n, i # n
      PROVE  \E p : Leads(F1, D1, R, q[i], p) /\ Rec(D1, p).dir /\ Rec(D1, p).clus = q[i + 1]
  <2>0. q[i] \in X /\ (q[i] \in R => q[i] = Root)
    BY DEF Path
  <2>1. PICK p : Leads(F, D, R, q[i], p) /\ Rec(D, p).dir /\ Rec(D, p).clus = q[i + 1]
    BY <1>1 DEF Path
  <2>2. p \in Slots /\ p[1] \in Clusters /\ p[2] \in SlotIx /\ Home(R, p[1]) = q[i]
    BY <2>1 DEF Leads, LiveIn, Slots
  <2>3. p[1] \in X
    BY <2>0, <2>2 DEF Home, Areas
  <2>4. Rec(D1, p) = Rec(D, p)
    BY <2>2, <2>3, <1>1, <1>0 DEF Rec
  <2>5. ASSUME NEW g, Visits(F1, q[i], g, Last - 2)
        PROVE  Found(g, NamedIn(D1, {Rec(D1, p).name, Unused}), p)
    <3>1. Visits(F, q[i], g, Last - 2)
      BY <1>0, <1>1, <2>0, <2>5, WalkKept
    <3>2. Found(g, NamedIn(D, {Rec(D, p).name, Unused}), p)
      BY <2>1, <3>1 DEF Leads, FirstIn
    <3> PICK P : P = NamedIn(D, {Rec(D, p).name, Unused})
      OBVIOUS
    <3> PICK Q : Q = NamedIn(D1, {Rec(D1, p).name, Unused})
      OBVIOUS
    <3>3. ASSUME NEW k \in 0..(Last - 2), NEW j \in SlotIx
          PROVE  <<g[k], j>> \in P <=> <<g[k], j>> \in Q
      <4>1. CASE g[k] \in Clusters
        <5>1. g[k] \in X /\ Home(R, g[k]) = q[i]
          BY <2>0, <3>1, <4>1, SectorsOf
        <5>2. D1[g[k]][j] = D[g[k]][j]
          BY <5>1, <1>0, <1>1
        <5> QED
          BY <4>1, <5>2, <2>4 DEF NamedIn, Rec
      <4>2. CASE g[k] \notin Clusters
        BY <4>2 DEF NamedIn, Slots
      <4> QED
        BY <4>1, <4>2
    <3> QED
      BY <3>2, <3>3, FoundSame
  <2>6. p \in LiveIn(D1)
    BY <2>1, <2>4 DEF Leads, LiveIn
  <2>7. Leads(F1, D1, R, q[i], p)
    BY <2>2, <2>5, <2>6 DEF Leads, FirstIn
  <2> QED
    BY <2>1, <2>4, <2>7
<1> QED
  BY <1>0, <1>1 DEF Path

-----------------------------------------------------------------------------
(* Writing one slot of the current directory                               *)

Written(D, D1, v, en) ==
    /\ \A c \in Clusters : \A i \in SlotIx : D1[c][i] = IF c = v[1] /\ i = v[2] THEN en ELSE D[c][i]
    /\ \A p \in Slots : Rec(D1, p) = IF p = v THEN en ELSE Rec(D, p)
    /\ v[1] \in Clusters /\ v[2] \in SlotIx /\ v = <<v[1], v[2]>>

LEMMA SlotWritten ==
    ASSUME NEW D, D \in [Clusters -> [SlotIx -> EntrySet]], NEW v \in Slots, NEW en \in EntrySet,
           NEW D1, D1 = [D EXCEPT ![v[1]][v[2]] = en]
    PROVE  /\ D1 \in [Clusters -> [SlotIx -> EntrySet]]
           /\ Written(D, D1, v, en)
<1>1. v[1] \in Clusters /\ v[2] \in SlotIx /\ v = <<v[1], v[2]>>
  BY DEF Slots
<1>2. D[v[1]] \in [SlotIx -> EntrySet]
  BY <1>1
<1>3. [D[v[1]] EXCEPT ![v[2]] = en] \in [SlotIx -> EntrySet]
  BY <1>1, <1>2
<1>4. D1 = [D EXCEPT ![v[1]] = [D[v[1]] EXCEPT ![v[2]] = en]]
  BY <1>1
<1>5. D1 \in [Clusters -> [SlotIx -> EntrySet]]
  BY <1>1, <1>3, <1>4
<1>6. ASSUME NEW c \in Clusters, NEW i \in SlotIx
      PROVE  D1[c][i] = IF c = v[1] /\ i = v[2] THEN en ELSE D[c][i]
  BY <1>1, <1>2, <1>4
<1>7. ASSUME NEW p \in Slots PROVE Rec(D1, p) = IF p = v THEN en ELSE Rec(D, p)
  <2>1. p[1] \in Clusters /\ p[2] \in SlotIx /\ p = <<p[1], p[2]>>
    BY DEF Slots
  <2>2. p = v <=> p[1] = v[1] /\ p[2] = v[2]
    BY <2>1, <1>1
  <2> QED
    BY <1>6, <2>1, <2>2 DEF Rec
<1> QED
  BY <1>1, <1>5, <1>6, <1>7 DEF Written

SameParents(D, D1, X, R) == \A c \in X : c \notin R => D1[c][1] = D[c][1]
WellNamed(en) == en.name \in Names => (en.dir <=> en.name \in DirNames)

(* The sectors keep their shape.                                           *)
LEMMA SlotLayout ==
    ASSUME NEW F, NEW D, NEW X, NEW R, Typed(F, D), Areas(F, X, R), Layout(D, X, R),
           NEW v \in Slots, v[1] \in X, Rec(D, v).name \notin Dots,
           NEW en \in EntrySet, en.name \notin Dots,
           WellNamed(en),
           NEW D1, D1 = [D EXCEPT ![v[1]][v[2]] = en]
    PROVE  /\ Layout(D1, X, R)
           /\ SameParents(D, D1, X, R)
<1>0. /\ \A c \in Clusters : \A i \in SlotIx : D1[c][i] = IF c = v[1] /\ i = v[2] THEN en ELSE D[c][i]
      /\ \A p \in Slots : Rec(D1, p) = IF p = v THEN en ELSE Rec(D, p)
      /\ v[1] \in Clusters /\ v[2] \in SlotIx
  <2>1. D \in [Clusters -> [SlotIx -> EntrySet]]
    BY DEF Typed
  <2>2. Written(D, D1, v, en)
    BY <2>1, SlotWritten
  <2> QED
    BY <2>2 DEF Written
<1>1. \A p \in LiveIn(D1) : p[1] \in X /\ (Rec(D1, p).dir <=> Rec(D1, p).name \in DirNames)
  <2>1. TAKE p \in LiveIn(D1)
  <2>2. p \in Slots /\ Rec(D1, p).name \in Names
    BY DEF LiveIn
  <2>3. CASE p = v
    BY <1>0, <2>2, <2>3 DEF WellNamed
  <2>4. CASE p # v
    BY <1>0, <2>2, <2>4 DEF LiveIn, Layout
  <2> QED
    BY <2>3, <2>4
<1>2. ASSUME NEW c \in X, c \notin R
      PROVE  /\ D1[c][0] = D[c][0] /\ D1[c][1] = D[c][1]
             /\ \A i \in SlotIx : i # 0 /\ i # 1 => D1[c][i].name \notin Dots
  <2>1. c \in Clusters /\ 0 \in SlotIx /\ 1 \in SlotIx
    BY Disk DEF Areas
  <2>2. D[c][0].name \in Dots /\ D[c][1].name \in Dots
    BY <1>2, NameFacts DEF Layout
  <2>3. ~ (c = v[1] /\ 0 = v[2]) /\ ~ (c = v[1] /\ 1 = v[2])
    BY <2>2 DEF Rec
  <2>4. D1[c][0] = D[c][0] /\ D1[c][1] = D[c][1]
    BY <1>0, <2>1, <2>3
  <2>5. \A i \in SlotIx : i # 0 /\ i # 1 => D1[c][i].name \notin Dots
    BY <1>0, <1>2, <2>1 DEF Layout
  <2> QED
    BY <2>4, <2>5
<1>3. \A c \in R : \A i \in SlotIx : D1[c][i].name \notin Dots
  BY <1>0 DEF Layout, Areas
<1>4. Layout(D1, X, R)
  <2>1. \A c \in X : c \notin R =>
          /\ D1[c][0].name = "." /\ D1[c][0].dir /\ D1[c][0].clus = c
          /\ D1[c][1].name = ".." /\ D1[c][1].dir
    BY <1>2 DEF Layout
  <2>2. \A c \in X : c \notin R => \A i \in SlotIx : i # 0 /\ i # 1 => D1[c][i].name \notin Dots
    BY <1>2
  <2> QED
    BY <1>1, <1>3, <2>1, <2>2 DEF Layout
<1> QED
  BY <1>2, <1>4 DEF SameParents

(* The slots that are in use stay at the front.                            *)
LEMMA SlotTidy ==
    ASSUME NEW F, NEW D, NEW X, NEW R, Typed(F, D), Areas(F, X, R), Single(F, D), Tidy(F, D, X, R),
           NEW v \in Slots, v[1] \in X, NEW en \in EntrySet, en.name # Unused,
           Rec(D, v).name = Unused =>
             FirstIn(F, Home(R, v[1]), NamedIn(D, {Unused, Deleted}), v),
           NEW D1, D1 = [D EXCEPT ![v[1]][v[2]] = en]
    PROVE  Tidy(F, D1, X, R)
<1>0. /\ \A c \in Clusters : \A i \in SlotIx : D1[c][i] = IF c = v[1] /\ i = v[2] THEN en ELSE D[c][i]
      /\ v[1] \in Clusters /\ v[2] \in SlotIx
  BY SlotWritten DEF Typed, Written
<1>1. SUFFICES ASSUME NEW d \in X, d \in R => d = Root, NEW g, Visits(F, d, g, Last - 2),
                      NEW h \in (0..(Last - 2)) \X SlotIx, NEW j \in (0..(Last - 2)) \X SlotIx,
                      g[h[1]] \in Clusters, g[j[1]] \in Clusters, Before(h, j),
                      D1[g[h[1]]][h[2]].name = Unused, D1[g[j[1]]][j[2]].name # Unused
               PROVE  FALSE
  BY DEF Tidy, NoGap
<1>2. D[g[h[1]]][h[2]].name = Unused
  BY <1>0, <1>1
<1>3. D[g[j[1]]][j[2]].name = Unused
  BY <1>1, <1>2 DEF Tidy, NoGap
<1>4. g[j[1]] = v[1] /\ j[2] = v[2]
  BY <1>0, <1>1, <1>3
<1>5. Home(R, v[1]) = d
  BY <1>1, <1>4, SectorsOf
<1>6. Rec(D, v).name = Unused
  BY <1>3, <1>4 DEF Rec
<1> PICK P : P = NamedIn(D, {Unused, Deleted})
  OBVIOUS
<1>7. Found(g, P, v)
  BY <1>1, <1>5, <1>6 DEF FirstIn
<1>8. h \in Hits(g, P)
  BY <1>1, <1>2 DEF Hits, NamedIn, Rec, Slots
<1>9. PICK k \in Hits(g, P) : v = <<g[k[1]], k[2]>> /\ \A y \in Hits(g, P) : Before(k, y)
  BY <1>7, <1>8 DEF Found, IsFirst
<1>10. k[1] \in 0..(Last - 2) /\ k[2] \in SlotIx
  BY DEF Hits
<1>11. v[1] = g[k[1]] /\ v[2] = k[2]
  BY <1>9
<1>12. k[1] = j[1] /\ k[2] = j[2]
  BY <1>0, <1>1, <1>4, <1>10, <1>11, WalkInjective
<1>13. Before(k, h)
  BY <1>8, <1>9
<1>14. h[1] = j[1] /\ h[2] = j[2]
  <2>1. h[1] \in Nat /\ h[2] \in Nat /\ j[1] \in Nat /\ j[2] \in Nat
    BY Disk
  <2> QED
    BY <2>1, <1>1, <1>12, <1>13 DEF Before
<1> QED
  BY <1>1, <1>14

(* Only the entry at v may lead to cluster c.                              *)
Unshared(F, D, c, v) ==
    /\ \A x \in Clusters : F[x] # c
    /\ \A p \in LiveIn(D) : p # v => Rec(D, p).clus # c

LEMMA UnsharedOwn ==
    ASSUME NEW F, NEW D, Single(F, D), NEW v \in LiveIn(D), Rec(D, v).clus \in Clusters
    PROVE  Unshared(F, D, Rec(D, v).clus, v) /\ Rec(D, v).clus # Root
BY DEF Single, Unshared

LEMMA UnsharedFree ==
    ASSUME NEW F, NEW D, Typed(F, D), NEW c \in Clusters, F[c] = 0, NEW m, m # c, NEW z, Alive(F, D, m, z)
    PROVE  Unshared(F, D, c, z)
BY DEF Alive, Unshared

Shape(F, D, X, R, q, n, o, m, z) ==
    /\ Typed(F, D) /\ Areas(F, X, R) /\ Layout(D, X, R) /\ Single(F, D)
    /\ Kinds(D, X, R, o) /\ Alive(F, D, m, z) /\ Tidy(F, D, X, R) /\ Path(F, D, X, R, q, n)

(* The slot at v may be written with entry en, in directory d ...          *)
Suits(F, D, X, R, d, v, en) ==
    /\ v[1] \in X /\ Home(R, v[1]) = d /\ Rec(D, v).name \notin Dots
    /\ en.name \notin Dots /\ en.name # Unused /\ WellNamed(en)
    /\ Rec(D, v).name = Unused =>
         FirstIn(F, d, NamedIn(D, {Unused, Deleted}), v)

(* ... and leads to a cluster that it may lead to, where o1 and z1 are the *)
(* slots that are excepted afterwards.                                     *)
Refers(F, D, X, R, v, en, o1, z1) ==
    en.name \in Names =>
      /\ en.clus \in Clusters => Unshared(F, D, en.clus, v) /\ en.clus # Root
      /\ ~ en.dir => en.clus = 0 \/ (en.clus \in Clusters /\ en.clus \notin X)
      /\ en.dir /\ v # o1 =>
            en.clus \in X /\ en.clus \notin R /\ D[en.clus][1].clus = Home(R, v[1])
      /\ en.clus \in Clusters /\ v # z1 => F[en.clus] # 0

LEMMA SlotShape ==
    ASSUME NEW F, NEW D, NEW X, NEW R, NEW q, NEW n, NEW o, NEW m, NEW z,
           Shape(F, D, X, R, q, n, o, m, z),
           NEW v \in Slots, NEW en \in EntrySet, Suits(F, D, X, R, q[n], v, en),
           NEW o1, NEW z1, o = o1 \/ o = v \/ o = NoSlot, z = z1 \/ z = v \/ z = NoSlot,
           Refers(F, D, X, R, v, en, o1, z1),
           NEW D1, D1 = [D EXCEPT ![v[1]][v[2]] = en]
    PROVE  Shape(F, D1, X, R, q, n, o1, m, z1)
<1>0. /\ Typed(F, D) /\ Areas(F, X, R) /\ Layout(D, X, R) /\ Single(F, D)
      /\ Kinds(D, X, R, o) /\ Alive(F, D, m, z) /\ Tidy(F, D, X, R) /\ Path(F, D, X, R, q, n)
  BY DEF Shape
<1>a. NoSlot \notin Slots
  BY Disk DEF NoSlot, Slots
<1>1. /\ D1 \in [Clusters -> [SlotIx -> EntrySet]] /\ Written(D, D1, v, en)
  BY <1>0, SlotWritten DEF Typed
<1>2. Typed(F, D1)
  BY <1>0, <1>1 DEF Typed
<1>3. Layout(D1, X, R) /\ \A c \in X : c \notin R => D1[c][1] = D[c][1]
  <2>1. v[1] \in X /\ Rec(D, v).name \notin Dots /\ en.name \notin Dots /\ WellNamed(en)
    BY DEF Suits
  <2>2. Layout(D1, X, R) /\ SameParents(D, D1, X, R)
    BY <1>0, <2>1, SlotLayout
  <2> QED
    BY <2>2 DEF SameParents
<1>4. Tidy(F, D1, X, R)
  BY <1>0, SlotTidy DEF Suits
<1>5. Path(F, D1, X, R, q, n)
  <2>1. \A i \in 1..n : q[i] \in X /\ (i # n => q[i] # q[n])
    BY <1>0 DEF Path
  <2>2. ASSUME NEW i \in 1..n, i # n, NEW s \in X, Home(R, s) = q[i]
        PROVE  F[s] = F[s] /\ \A j \in SlotIx : D1[s][j] = D[s][j]
    <3>1. s # v[1] /\ s \in Clusters
      BY <2>1, <2>2, <1>0 DEF Areas, Suits
    <3> QED
      BY <3>1, <1>1 DEF Written
  <2>3. Untouched(F, D, X, R, q, n, F, D1, X)
    BY <2>1, <2>2 DEF Untouched
  <2> QED
    BY <1>0, <2>3, PathKept
<1>6. \A p \in LiveIn(D1) : /\ p \in Slots
                            /\ p = v => Rec(D1, p) = en /\ en.name \in Names
                            /\ p # v => p \in LiveIn(D) /\ Rec(D1, p) = Rec(D, p)
  BY <1>1 DEF Written, LiveIn
<1>7. Single(F, D1)
  <2>1. ASSUME NEW p \in LiveIn(D1), NEW r \in LiveIn(D1), Rec(D1, p).clus \in Clusters,
               Rec(D1, p).clus = Rec(D1, r).clus
        PROVE  p = r
    <3>1. CASE p = v
      BY <2>1, <3>1, <1>6 DEF Unshared, Refers
    <3>2. CASE r = v
      BY <2>1, <3>2, <1>6 DEF Unshared, Refers
    <3>3. CASE p # v /\ r # v
      BY <2>1, <3>3, <1>6, <1>0 DEF Single
    <3> QED
      BY <3>1, <3>2, <3>3
  <2>2. \A x \in Clusters, p \in LiveIn(D1) : F[x] \in Clusters => F[x] # Rec(D1, p).clus
    <3>1. TAKE x \in Clusters, p \in LiveIn(D1)
    <3>2. CASE p = v
      BY <1>6, <3>2 DEF Unshared, Refers
    <3>3. CASE p # v
      BY <1>0, <1>6, <3>3 DEF Single
    <3> QED
      BY <3>2, <3>3
  <2>3. \A p \in LiveIn(D1) : Rec(D1, p).clus # Root
    BY <1>0, <1>6, Disk DEF Single, Refers
  <2>4. (\A x, y \in Clusters : F[x] \in Clusters /\ F[x] = F[y] => x = y) /\ \A x \in Clusters : F[x] # Root
    BY <1>0 DEF Single
  <2> QED
    BY <2>1, <2>2, <2>3, <2>4 DEF Single
<1>8. Kinds(D1, X, R, o1)
  <2>1. \A p \in LiveIn(D1) : ~ Rec(D1, p).dir =>
          Rec(D1, p).clus = 0 \/ (Rec(D1, p).clus \in Clusters /\ Rec(D1, p).clus \notin X)
    BY <1>0, <1>6 DEF Kinds, Refers
  <2>2. ASSUME NEW p \in LiveIn(D1), Rec(D1, p).dir, p # o1
        PROVE  /\ Rec(D1, p).clus \in X /\ Rec(D1, p).clus \notin R
               /\ D1[Rec(D1, p).clus][1].clus = Home(R, p[1])
    <3>1. CASE p = v
      BY <2>2, <3>1, <1>6, <1>3 DEF Refers
    <3>2. CASE p # v
      <4>1. p # o
        BY <2>2, <3>2, <1>6, <1>a
      <4> QED
        BY <2>2, <3>2, <4>1, <1>6, <1>3, <1>0 DEF Kinds
    <3> QED
      BY <3>1, <3>2
  <2> QED
    BY <2>1, <2>2 DEF Kinds
<1>9. Alive(F, D1, m, z1)
  <2>1. ASSUME NEW p \in LiveIn(D1), Rec(D1, p).clus \in Clusters, p # z1
        PROVE  F[Rec(D1, p).clus] # 0
    <3>1. CASE p = v
      BY <2>1, <3>1, <1>6 DEF Refers
    <3>2. CASE p # v
      <4>1. p # z
        BY <2>1, <3>2, <1>6, <1>a
      <4> QED
        BY <2>1, <3>2, <4>1, <1>6, <1>0 DEF Alive
    <3> QED
      BY <3>1, <3>2
  <2> QED
    BY <1>0, <2>1 DEF Alive
<1> QED
  BY <1>0, <1>2, <1>3, <1>4, <1>5, <1>7, <1>8, <1>9 DEF Shape

-----------------------------------------------------------------------------
(* Writing the FAT                                                         *)

Updated(F, F1, c, b) == F1[c] = b /\ \A x \in Clusters : x # c => F1[x] = F[x]
SameWalks(F, F1, X, R) ==
    \A d \in X : (d \in R => d = Root) =>
      \A g : Visits(F1, d, g, Last - 2) => Visits(F, d, g, Last - 2)

SameLinks(F, F1, X, R, X1) ==
    X1 \subseteq X /\ \A d \in X1 : \A s \in X : Home(R, s) = d => F1[s] = F[s]

LEMMA WalksKept ==
    ASSUME NEW F, NEW X, NEW R, Areas(F, X, R), NEW F1, NEW X1, SameLinks(F, F1, X, R, X1)
    PROVE  SameWalks(F, F1, X1, R)
<1>1. SUFFICES ASSUME NEW d \in X1, d \in R => d = Root, NEW g, Visits(F1, d, g, Last - 2)
               PROVE  Visits(F, d, g, Last - 2)
  BY DEF SameWalks
<1>2. d \in X /\ \A s \in X : Home(R, s) = d => F1[s] = F[s]
  BY DEF SameLinks
<1> QED
  BY <1>1, <1>2, WalkKept

(* Outside the directories the FAT may change and the loops over them stay *)
(* the same.                                                               *)
LEMMA FatAreas ==
    ASSUME NEW F, NEW D, NEW X, NEW R, Typed(F, D), Areas(F, X, R), NEW c \in Clusters, c \notin X,
           NEW b \in Clusters \cup {0, EOC}, b \notin X, NEW F1, F1 = [F EXCEPT ![c] = b]
    PROVE  /\ Typed(F1, D) /\ Areas(F1, X, R)
           /\ Updated(F, F1, c, b) /\ SameWalks(F, F1, X, R)
<1>1. F1[c] = b /\ \A x \in Clusters : x # c => F1[x] = F[x]
  BY DEF Typed
<1>2. Typed(F1, D)
  BY DEF Typed
<1>3. \A s \in X : F1[s] = F[s]
  BY <1>1 DEF Areas
<1>4. ASSUME NEW d \in X, d \in R => d = Root, NEW g, Visits(F1, d, g, Last - 2)
      PROVE  Visits(F, d, g, Last - 2)
  BY <1>3, <1>4, WalkKept
<1>5. \A g : Visits(F1, Root, g, Last - 2) => Members(g) = R
  <2>1. TAKE g
  <2>2. HAVE Visits(F1, Root, g, Last - 2)
  <2>3. Root \in X
    BY DEF Areas
  <2>4. Visits(F, Root, g, Last - 2)
    BY <1>4, <2>2, <2>3
  <2> QED
    BY <2>4 DEF Areas
<1>6. /\ R \subseteq X /\ X \subseteq Clusters /\ Root \in R
      /\ \A y \in R : F[y] \in R \cup {EOC}
      /\ \A y \in X : y \notin R => F[y] = EOC
      /\ \A y \in Clusters : y \notin X => F[y] \notin X
  BY DEF Areas
<1>7. \A y \in R : F1[y] \in R \cup {EOC}
  BY <1>3, <1>6
<1>8. \A y \in X : y \notin R => F1[y] = EOC
  BY <1>3, <1>6
<1>9. \A y \in Clusters : y \notin X => F1[y] \notin X
  BY <1>1, <1>6
<1>10. Areas(F1, X, R)
  BY <1>5, <1>6, <1>7, <1>8, <1>9 DEF Areas
<1> QED
  BY <1>1, <1>2, <1>4, <1>10 DEF Updated, SameWalks

LEMMA FatKept ==
    ASSUME NEW F, NEW D, NEW X, NEW R, NEW q, NEW n, NEW o, NEW m, NEW z,
           Shape(F, D, X, R, q, n, o, m, z), NEW c \in Clusters, c \notin X,
           NEW b \in Clusters \cup {0, EOC}, b \notin X, NEW F1, F1 = [F EXCEPT ![c] = b]
    PROVE  Tidy(F1, D, X, R) /\ Path(F1, D, X, R, q, n)
<1>0. /\ Typed(F, D) /\ Areas(F, X, R) /\ Tidy(F, D, X, R) /\ Path(F, D, X, R, q, n)
  BY DEF Shape
<1>a. Updated(F, F1, c, b) /\ SameWalks(F, F1, X, R)
  BY <1>0, FatAreas
<1>1. \A x \in Clusters : x # c => F1[x] = F[x]
  BY <1>a DEF Updated
<1>2. Tidy(F1, D, X, R)
  BY <1>0, <1>a DEF Tidy, SameWalks
<1>3. Untouched(F, D, X, R, q, n, F1, D, X)
  BY <1>0, <1>1 DEF Untouched, Path, Areas
<1> QED
  BY <1>0, <1>2, <1>3, PathKept

(* A cluster becomes the end of a chain.                                   *)
LEMMA FatMark ==
    ASSUME NEW F, NEW D, NEW X, NEW R, NEW q, NEW n, NEW o, NEW m, NEW z,
           Shape(F, D, X, R, q, n, o, m, z), NEW c \in Clusters, c \notin X,
           NEW F1, F1 = [F EXCEPT ![c] = EOC], NEW m1, NEW z1,
           m = m1 \/ m = c \/ m = 0, z = z1 \/ z = NoSlot \/ Rec(D, z).clus = c
    PROVE  Shape(F1, D, X, R, q, n, o, m1, z1)
<1>0. /\ Typed(F, D) /\ Areas(F, X, R) /\ Layout(D, X, R) /\ Single(F, D)
      /\ Kinds(D, X, R, o) /\ Alive(F, D, m, z)
  BY DEF Shape
<1>1. EOC \notin X /\ EOC # 0 /\ EOC \notin Clusters /\ 0 \notin Clusters /\ EOC # Root
  BY <1>0, Disk DEF Areas
<1>2. /\ Typed(F1, D) /\ Areas(F1, X, R)
      /\ F1[c] = EOC /\ \A x \in Clusters : x # c => F1[x] = F[x]
  <2>1. Typed(F1, D) /\ Areas(F1, X, R) /\ Updated(F, F1, c, EOC)
    BY <1>0, <1>1, FatAreas
  <2> QED
    BY <2>1 DEF Updated
<1>3. Tidy(F1, D, X, R) /\ Path(F1, D, X, R, q, n)
  BY <1>1, FatKept
<1>4. \A x \in Clusters : F1[x] \in Clusters => x # c /\ F1[x] = F[x]
  BY <1>1, <1>2
<1>5. Single(F1, D)
  BY <1>0, <1>1, <1>2, <1>4 DEF Single
<1>6. Alive(F1, D, m1, z1)
  <2>1. ASSUME NEW x \in Clusters, F1[x] \in Clusters, F1[x] # m1 PROVE F1[F1[x]] # 0
    BY <2>1, <1>0, <1>1, <1>2, <1>4 DEF Alive
  <2>2. ASSUME NEW p \in LiveIn(D), Rec(D, p).clus \in Clusters, p # z1 PROVE F1[Rec(D, p).clus] # 0
    <3>1. CASE Rec(D, p).clus = c
      BY <3>1, <1>1, <1>2
    <3>2. CASE Rec(D, p).clus # c
      <4>1. p # NoSlot
        BY Disk DEF LiveIn, NoSlot, Slots
      <4>2. p # z
        BY <2>2, <3>2, <4>1
      <4> QED
        BY <2>2, <3>2, <4>2, <1>0, <1>2 DEF Alive
    <3> QED
      BY <3>1, <3>2
  <2> QED
    BY <2>1, <2>2 DEF Alive
<1> QED
  BY <1>0, <1>2, <1>3, <1>5, <1>6 DEF Shape

(* A free cluster is linked to the end of a chain, before it is marked.    *)
LEMMA FatLink ==
    ASSUME NEW F, NEW D, NEW X, NEW R, NEW q, NEW n, NEW o,
           Shape(F, D, X, R, q, n, o, 0, NoSlot), NEW c \in Clusters, c \notin X, F[c] = EOC,
           NEW f \in Clusters, F[f] = 0, NEW F1, F1 = [F EXCEPT ![c] = f]
    PROVE  Shape(F1, D, X, R, q, n, o, f, NoSlot)
<1>0. /\ Typed(F, D) /\ Areas(F, X, R) /\ Layout(D, X, R) /\ Single(F, D)
      /\ Kinds(D, X, R, o) /\ Alive(F, D, 0, NoSlot)
  BY DEF Shape
<1>1. EOC # 0 /\ EOC \notin Clusters /\ 0 \notin Clusters /\ 0 \notin R
  BY <1>0, Disk DEF Areas
<1>2. f \notin X /\ f # Root /\ f # c
  BY <1>0, <1>1 DEF Areas
<1>3. /\ Typed(F1, D) /\ Areas(F1, X, R)
      /\ F1[c] = f /\ \A x \in Clusters : x # c => F1[x] = F[x]
  <2>1. Typed(F1, D) /\ Areas(F1, X, R) /\ Updated(F, F1, c, f)
    BY <1>0, <1>2, FatAreas
  <2> QED
    BY <2>1 DEF Updated
<1>4. Tidy(F1, D, X, R) /\ Path(F1, D, X, R, q, n)
  BY <1>2, FatKept
<1>5. Unshared(F, D, f, NoSlot)
  BY <1>0, <1>1, UnsharedFree
<1>6. NoSlot \notin LiveIn(D)
  BY Disk DEF LiveIn, NoSlot, Slots
<1>7. \A p \in LiveIn(D) : Rec(D, p).clus # f
  BY <1>5, <1>6 DEF Unshared
<1>8. Single(F1, D)
  <2>1. \A x, y \in Clusters : F1[x] \in Clusters /\ F1[x] = F1[y] => x = y
    BY <1>0, <1>3, <1>5 DEF Single, Unshared
  <2>2. \A x \in Clusters, p \in LiveIn(D) : F1[x] \in Clusters => F1[x] # Rec(D, p).clus
    BY <1>0, <1>3, <1>7 DEF Single
  <2> QED
    BY <1>0, <1>2, <1>3, <2>1, <2>2 DEF Single
<1>9. Alive(F1, D, f, NoSlot)
  <2>1. ASSUME NEW x \in Clusters, F1[x] \in Clusters, F1[x] # f PROVE F1[F1[x]] # 0
    BY <2>1, <1>0, <1>1, <1>3 DEF Alive
  <2>2. ASSUME NEW p \in LiveIn(D), Rec(D, p).clus \in Clusters PROVE F1[Rec(D, p).clus] # 0
    BY <2>2, <1>0, <1>1, <1>3, <1>6 DEF Alive
  <2> QED
    BY <2>1, <2>2 DEF Alive
<1> QED
  BY <1>0, <1>3, <1>4, <1>8, <1>9 DEF Shape

(* The cluster of an empty directory is freed; the entry at e still leads  *)
(* to it.                                                                  *)
LEMMA FatFree ==
    ASSUME NEW F, NEW D, NEW X, NEW R, NEW q, NEW n,
           Shape(F, D, X, R, q, n, NoSlot, 0, NoSlot), NEW c \in X, c \notin R,
           NEW e \in LiveIn(D), Rec(D, e).clus = c, \A i \in SlotIx : D[c][i].name \notin Names,
           \A i \in 1..n : q[i] # c,
           NEW F1, F1 = [F EXCEPT ![c] = 0], NEW X1, X1 = X \ {c}
    PROVE  Shape(F1, D, X1, R, q, n, e, 0, e)
<1>0. /\ Typed(F, D) /\ Areas(F, X, R) /\ Layout(D, X, R) /\ Single(F, D) /\ Kinds(D, X, R, NoSlot)
      /\ Alive(F, D, 0, NoSlot) /\ Tidy(F, D, X, R) /\ Path(F, D, X, R, q, n)
  BY DEF Shape
<1>1. c \in Clusters /\ EOC # 0 /\ 0 \notin Clusters /\ NoSlot \notin LiveIn(D)
  BY <1>0, Disk DEF Areas, LiveIn, NoSlot, Slots
<1>2. F1[c] = 0 /\ \A x \in Clusters : x # c => F1[x] = F[x]
  BY <1>0, <1>1 DEF Typed
<1>3. Typed(F1, D)
  BY <1>0, <1>1 DEF Typed
<1>4. /\ R \subseteq X /\ X \subseteq Clusters /\ Root \in R
      /\ \A y \in R : F[y] \in R \cup {EOC}
      /\ \A y \in X : y \notin R => F[y] = EOC
      /\ \A y \in Clusters : y \notin X => F[y] \notin X
  BY <1>0 DEF Areas
<1>5. SameWalks(F, F1, X1, R)
  <2>1. SameLinks(F, F1, X, R, X1)
    BY <1>2, <1>4 DEF Home, SameLinks
  <2> QED
    BY <1>0, <2>1, WalksKept
<1>6. Areas(F1, X1, R)
  <2>1. \A g : Visits(F1, Root, g, Last - 2) => Members(g) = R
    <3>1. TAKE g
    <3>2. HAVE Visits(F1, Root, g, Last - 2)
    <3>3. Root \in X1
      BY <1>4
    <3>4. Visits(F, Root, g, Last - 2)
      BY <1>5, <3>2, <3>3 DEF SameWalks
    <3> QED
      BY <1>0, <3>4 DEF Areas
  <2>2. \A y \in R : F1[y] \in R \cup {EOC}
    BY <1>2, <1>4
  <2>3. \A y \in X1 : y \notin R => F1[y] = EOC
    BY <1>2, <1>4
  <2>4. \A y \in Clusters : y \notin X1 => F1[y] \notin X1
    BY <1>1, <1>2, <1>4
  <2>5. R \subseteq X1 /\ X1 \subseteq Clusters
    BY <1>4
  <2> QED
    BY <1>4, <2>1, <2>2, <2>3, <2>4, <2>5 DEF Areas
<1>7. Layout(D, X1, R)
  <2>1. \A p \in LiveIn(D) : p[1] # c
    BY DEF LiveIn, Rec, Slots
  <2> QED
    BY <1>0, <2>1 DEF Layout
<1>8. Single(F1, D)
  <2>1. \A x \in Clusters : F1[x] \in Clusters => F1[x] = F[x] /\ x # c
    BY <1>1, <1>2
  <2>2. \A x \in Clusters : F1[x] # Root
    BY <1>0, <1>1, <1>2, Disk DEF Single
  <2> QED
    BY <1>0, <2>1, <2>2 DEF Single
<1>9. \A p \in LiveIn(D) : p # e => Rec(D, p).clus # c
  BY <1>0, <1>1 DEF Single
<1>10. Kinds(D, X1, R, e)
  BY <1>0, <1>1, <1>9 DEF Kinds
<1>11. Alive(F1, D, 0, e)
  <2>1. ASSUME NEW x \in Clusters, F1[x] \in Clusters PROVE F1[F1[x]] # 0
    <3>1. x # c /\ F1[x] = F[x]
      BY <1>1, <1>2, <2>1
    <3>2. F[x] # c
      BY <1>0, <1>1, <2>1, <3>1 DEF Single
    <3> QED
      BY <1>0, <1>1, <1>2, <2>1, <3>1, <3>2 DEF Alive
  <2>2. ASSUME NEW p \in LiveIn(D), Rec(D, p).clus \in Clusters, p # e PROVE F1[Rec(D, p).clus] # 0
    BY <1>0, <1>1, <1>2, <1>9, <2>2 DEF Alive
  <2> QED
    BY <2>1, <2>2 DEF Alive
<1>12. Tidy(F1, D, X1, R)
  BY <1>0, <1>5 DEF Tidy, SameWalks
<1>13. Untouched(F, D, X, R, q, n, F1, D, X1)
  <2>1. \A i \in 1..n : q[i] \in X1
    BY <1>0 DEF Path
  <2>2. \A i \in 1..n : \A s \in X : Home(R, s) = q[i] => F1[s] = F[s]
    BY <1>2, <1>4 DEF Home
  <2> QED
    BY <2>1, <2>2 DEF Untouched
<1>14. Path(F1, D, X1, R, q, n)
  BY <1>0, <1>13, PathKept
<1> QED
  BY <1>3, <1>6, <1>7, <1>8, <1>10, <1>11, <1>12, <1>14 DEF Shape

-----------------------------------------------------------------------------
(* Writing whole sectors                                                   *)

LEMMA BlankTyped ==
    /\ Blank \in [SlotIx -> EntrySet]
    /\ \A i \in SlotIx : Blank[i].name = Unused
    /\ \A c \in Nat, u \in Nat :
         /\ DotEntries(c, u) \in [SlotIx -> EntrySet]
         /\ DotEntries(c, u)[0].name = "." /\ DotEntries(c, u)[0].dir /\ DotEntries(c, u)[0].clus = c
         /\ DotEntries(c, u)[1].name = ".." /\ DotEntries(c, u)[1].dir /\ DotEntries(c, u)[1].clus = u
         /\ \A i \in SlotIx : i # 0 /\ i # 1 => DotEntries(c, u)[i].name = Unused
<1>1. [name |-> Unused, dir |-> FALSE, clus |-> 0, size |-> 0] \in EntrySet
  BY DEF EntrySet, AllNames
<1>2. Blank \in [SlotIx -> EntrySet] /\ \A i \in SlotIx : Blank[i].name = Unused
  BY <1>1 DEF Blank
<1>3. ASSUME NEW c \in Nat, NEW u \in Nat
      PROVE  /\ DotEntries(c, u) \in [SlotIx -> EntrySet]
             /\ DotEntries(c, u)[0].name = "." /\ DotEntries(c, u)[0].dir /\ DotEntries(c, u)[0].clus = c
             /\ DotEntries(c, u)[1].name = ".." /\ DotEntries(c, u)[1].dir /\ DotEntries(c, u)[1].clus = u
             /\ \A i \in SlotIx : i # 0 /\ i # 1 => DotEntries(c, u)[i].name = Unused
  <2> DEFINE one == [NewEntry(".", TRUE) EXCEPT !.clus = c]
             two == [NewEntry("..", TRUE) EXCEPT !.clus = u]
  <2>1. NewEntry(".", TRUE) \in EntrySet /\ NewEntry("..", TRUE) \in EntrySet
    BY NameFacts DEF EntrySet, AllNames, NewEntry
  <2>2. one \in EntrySet /\ two \in EntrySet
    BY <2>1 DEF EntrySet
  <2>3. one.name = "." /\ one.dir /\ one.clus = c /\ two.name = ".." /\ two.dir /\ two.clus = u
    BY DEF NewEntry
  <2>4. DotEntries(c, u) = [Blank EXCEPT ![0] = one, ![1] = two]
    BY DEF DotEntries
  <2> HIDE DEF one, two
  <2> QED
    BY <1>2, <2>2, <2>4, <2>3, Disk
<1> QED
  BY <1>2, <1>3

SameLive(D, D1, c) ==
    /\ LiveIn(D1) = LiveIn(D)
    /\ \A p \in Slots : p[1] # c => Rec(D1, p) = Rec(D, p)
    /\ \A p \in LiveIn(D) : Rec(D1, p) = Rec(D, p)

LEMMA SectorLive ==
    ASSUME NEW F, NEW D, NEW X, NEW R, Typed(F, D), Layout(D, X, R), NEW c \in Clusters, c \notin X,
           NEW D1, D1 = [D EXCEPT ![c] = Blank]
    PROVE  SameLive(D, D1, c)
<1>1. D1[c] = Blank /\ \A x \in Clusters : x # c => D1[x] = D[x]
  BY DEF Typed
<1>2. \A p \in Slots : p[1] # c => Rec(D1, p) = Rec(D, p)
  BY <1>1 DEF Rec, Slots
<1>3. \A p \in LiveIn(D) : p \in Slots /\ p[1] # c /\ Rec(D1, p) = Rec(D, p)
  BY <1>2 DEF Layout, LiveIn
<1>4. \A p \in LiveIn(D1) : p[1] # c
  BY <1>1, BlankTyped, NameFacts DEF LiveIn, Rec, Slots
<1>5. LiveIn(D1) = LiveIn(D)
  BY <1>2, <1>3, <1>4 DEF LiveIn
<1> QED
  BY <1>2, <1>3, <1>5 DEF SameLive

(* File data goes into a sector that is not of a directory.                *)
LEMMA SectorFile ==
    ASSUME NEW F, NEW D, NEW X, NEW R, NEW q, NEW n, NEW o, NEW m, NEW z,
           Shape(F, D, X, R, q, n, o, m, z), NEW c \in Clusters, c \notin X,
           NEW D1, D1 = [D EXCEPT ![c] = Blank]
    PROVE  Shape(F, D1, X, R, q, n, o, m, z)
<1>0. /\ Typed(F, D) /\ Areas(F, X, R) /\ Layout(D, X, R) /\ Single(F, D) /\ Kinds(D, X, R, o)
      /\ Alive(F, D, m, z) /\ Tidy(F, D, X, R) /\ Path(F, D, X, R, q, n)
  BY DEF Shape
<1>1. Typed(F, D1)
  BY <1>0, BlankTyped DEF Typed
<1>2. D1[c] = Blank /\ \A x \in Clusters : x # c => D1[x] = D[x]
  BY <1>0 DEF Typed
<1>3. SameLive(D, D1, c)
  BY <1>0, SectorLive
<1>4. \A p \in LiveIn(D) : Rec(D1, p) = Rec(D, p)
  BY <1>3 DEF SameLive
<1>6. LiveIn(D1) = LiveIn(D)
  BY <1>3 DEF SameLive
<1>7. \A x \in X : D1[x] = D[x]
  BY <1>0, <1>2 DEF Areas
<1>8. Layout(D1, X, R)
  <2>1. \A p \in LiveIn(D1) : p[1] \in X /\ (Rec(D1, p).dir <=> Rec(D1, p).name \in DirNames)
    BY <1>0, <1>4, <1>6 DEF Layout
  <2>2. R \subseteq X
    BY <1>0 DEF Areas
  <2>3. \A y \in R : \A i \in SlotIx : D1[y][i].name \notin Dots
    BY <1>0, <1>7, <2>2 DEF Layout
  <2>4. \A y \in X : y \notin R =>
          /\ D1[y][0].name = "." /\ D1[y][0].dir /\ D1[y][0].clus = y
          /\ D1[y][1].name = ".." /\ D1[y][1].dir
          /\ \A i \in SlotIx : i # 0 /\ i # 1 => D1[y][i].name \notin Dots
    BY <1>0, <1>7 DEF Layout
  <2> QED
    BY <2>1, <2>3, <2>4 DEF Layout
<1>9. Single(F, D1)
  BY <1>0, <1>4, <1>6 DEF Single
<1>10. Kinds(D1, X, R, o)
  <2>1. \A p \in LiveIn(D1) : ~ Rec(D1, p).dir =>
          Rec(D1, p).clus = 0 \/ (Rec(D1, p).clus \in Clusters /\ Rec(D1, p).clus \notin X)
    BY <1>0, <1>4, <1>6 DEF Kinds
  <2>2. \A p \in LiveIn(D1) : Rec(D1, p).dir /\ p # o =>
          /\ Rec(D1, p).clus \in X /\ Rec(D1, p).clus \notin R
          /\ D1[Rec(D1, p).clus][1].clus = Home(R, p[1])
    <3>1. TAKE p \in LiveIn(D1)
    <3>2. p \in LiveIn(D) /\ Rec(D1, p) = Rec(D, p)
      BY <1>4, <1>6
    <3>3. Rec(D, p).dir /\ p # o => /\ Rec(D, p).clus \in X /\ Rec(D, p).clus \notin R
                                   /\ D[Rec(D, p).clus][1].clus = Home(R, p[1])
      BY <1>0, <3>2 DEF Kinds
    <3> QED
      BY <3>2, <3>3, <1>7
  <2> QED
    BY <2>1, <2>2 DEF Kinds
<1>11. Alive(F, D1, m, z)
  BY <1>0, <1>4, <1>6 DEF Alive
<1>12. Tidy(F, D1, X, R)
  <2>1. SUFFICES ASSUME NEW d \in X, d \in R => d = Root, NEW g, Visits(F, d, g, Last - 2)
                 PROVE  NoGap(D1, g)
    BY DEF Tidy
  <2>2. NoGap(D, g)
    BY <1>0, <2>1 DEF Tidy
  <2>3. \A k \in 0..(Last - 2) : g[k] \in Clusters => D1[g[k]] = D[g[k]]
    BY <1>0, <1>7, <2>1, SectorsOf
  <2> QED
    BY <2>2, <2>3 DEF NoGap
<1>13. Path(F, D1, X, R, q, n)
  <2>1. Untouched(F, D, X, R, q, n, F, D1, X)
    BY <1>0, <1>7 DEF Untouched, Path
  <2> QED
    BY <1>0, <2>1, PathKept
<1> QED
  BY <1>0, <1>1, <1>8, <1>9, <1>10, <1>11, <1>12, <1>13 DEF Shape

LEMMA SingleSame ==
    ASSUME NEW F, NEW D, NEW D1, Single(F, D), LiveIn(D1) = LiveIn(D),
           \A p \in LiveIn(D) : Rec(D1, p) = Rec(D, p)
    PROVE  Single(F, D1)
BY DEF Single

(* The sector of a new directory is written; the entry at e leads to it.   *)
LEMMA SectorDir ==
    ASSUME NEW F, NEW D, NEW X, NEW R, NEW q, NEW n, NEW e,
           Shape(F, D, X, R, q, n, e, 0, NoSlot), NEW c \in Clusters, c \notin X, F[c] = EOC,
           e \in LiveIn(D), Rec(D, e).dir, Rec(D, e).clus = c, Home(R, e[1]) = q[n],
           NEW D1, D1 = [D EXCEPT ![c] = DotEntries(c, q[n])], NEW X1, X1 = X \cup {c}
    PROVE  Shape(F, D1, X1, R, q, n, NoSlot, 0, NoSlot)
<1>0. /\ Typed(F, D) /\ Areas(F, X, R) /\ Layout(D, X, R) /\ Single(F, D) /\ Kinds(D, X, R, e)
      /\ Alive(F, D, 0, NoSlot) /\ Tidy(F, D, X, R) /\ Path(F, D, X, R, q, n)
  BY DEF Shape
<1> PICK u : u = q[n]
  OBVIOUS
<1> PICK B : B = DotEntries(c, u)
  OBVIOUS
<1>1. c \in Nat /\ u \in Nat
  BY <1>0, Disk DEF Path
<1>2. /\ B \in [SlotIx -> EntrySet]
      /\ B[0].name = "." /\ B[0].dir /\ B[0].clus = c
      /\ B[1].name = ".." /\ B[1].dir /\ B[1].clus = u
      /\ \A i \in SlotIx : i # 0 /\ i # 1 => B[i].name = Unused
  BY <1>1, BlankTyped
<1>3. Typed(F, D1)
  BY <1>0, <1>2 DEF Typed
<1>4. D1[c] = B /\ \A x \in Clusters : x # c => D1[x] = D[x]
  BY <1>0 DEF Typed
<1>5. /\ R \subseteq X /\ X \subseteq Clusters /\ Root \in R
      /\ \A g : Visits(F, Root, g, Last - 2) => Members(g) = R
      /\ \A y \in R : F[y] \in R \cup {EOC}
      /\ \A y \in X : y \notin R => F[y] = EOC
      /\ \A y \in Clusters : y \notin X => F[y] \notin X
  BY <1>0 DEF Areas
<1>6. \A x \in X : D1[x] = D[x]
  BY <1>4, <1>5
<1>7. c \notin R /\ X1 \subseteq Clusters /\ R \subseteq X1
  BY <1>5
<1>8. \A i \in SlotIx : B[i].name \notin Names
  BY <1>2, NameFacts
<1>9. \A p \in Slots : p[1] # c => Rec(D1, p) = Rec(D, p)
  BY <1>4 DEF Rec, Slots
<1>10. \A p \in LiveIn(D) : p \in Slots /\ p[1] # c /\ Rec(D1, p) = Rec(D, p)
  BY <1>0, <1>9 DEF Layout, LiveIn
<1>11. \A p \in LiveIn(D1) : p[1] # c
  BY <1>4, <1>8 DEF LiveIn, Rec, Slots
<1>12. LiveIn(D1) = LiveIn(D)
  BY <1>9, <1>10, <1>11 DEF LiveIn
<1>13. Areas(F, X1, R)
  <2>1. \A x \in Clusters : F[x] # c
    BY <1>0 DEF Single
  <2>2. \A y \in Clusters : y \notin X1 => F[y] \notin X1
    BY <1>5, <2>1
  <2>3. \A y \in X1 : y \notin R => F[y] = EOC
    BY <1>5
  <2> QED
    BY <1>5, <1>7, <2>2, <2>3 DEF Areas
<1>14. Layout(D1, X1, R)
  <2>1. \A p \in LiveIn(D1) : p[1] \in X1 /\ (Rec(D1, p).dir <=> Rec(D1, p).name \in DirNames)
    <3>1. TAKE p \in LiveIn(D1)
    <3>2. p \in LiveIn(D) /\ Rec(D1, p) = Rec(D, p)
      BY <1>10, <1>12
    <3>3. p[1] \in X /\ (Rec(D, p).dir <=> Rec(D, p).name \in DirNames)
      BY <1>0, <3>2 DEF Layout
    <3>4. p[1] \in X1
      BY <3>3
    <3> QED
      BY <3>2, <3>3, <3>4
  <2>2. \A y \in R : \A i \in SlotIx : D1[y][i].name \notin Dots
    BY <1>0, <1>5, <1>6 DEF Layout
  <2>3. ASSUME NEW y \in X1, y \notin R
        PROVE  /\ D1[y][0].name = "." /\ D1[y][0].dir /\ D1[y][0].clus = y
               /\ D1[y][1].name = ".." /\ D1[y][1].dir
               /\ \A i \in SlotIx : i # 0 /\ i # 1 => D1[y][i].name \notin Dots
    <3>1. CASE y = c
      BY <3>1, <1>2, <1>4, NameFacts
    <3>2. CASE y \in X
      BY <2>3, <3>2, <1>0, <1>6 DEF Layout
    <3> QED
      BY <3>1, <3>2
  <2> QED
    BY <2>1, <2>2, <2>3 DEF Layout
<1>15. Single(F, D1)
  <2>1. \A p \in LiveIn(D) : Rec(D1, p) = Rec(D, p)
    BY <1>10
  <2> QED
    BY <1>0, <1>12, <2>1, SingleSame
<1>16. \A p \in LiveIn(D) : p # e => Rec(D, p).clus # c
  BY <1>0 DEF Single
<1>17. Kinds(D1, X1, R, NoSlot)
  <2>1. \A p \in LiveIn(D1) : ~ Rec(D1, p).dir =>
          Rec(D1, p).clus = 0 \/ (Rec(D1, p).clus \in Clusters /\ Rec(D1, p).clus \notin X1)
    <3>1. TAKE p \in LiveIn(D1)
    <3>2. p \in LiveIn(D) /\ Rec(D1, p) = Rec(D, p)
      BY <1>10, <1>12
    <3>3. ~ Rec(D, p).dir => p # e
      OBVIOUS
    <3> QED
      BY <3>2, <3>3, <1>0, <1>16 DEF Kinds
  <2>2. \A p \in LiveIn(D1) : Rec(D1, p).dir =>
          /\ Rec(D1, p).clus \in X1 /\ Rec(D1, p).clus \notin R
          /\ D1[Rec(D1, p).clus][1].clus = Home(R, p[1])
    <3>1. TAKE p \in LiveIn(D1)
    <3>2. p \in LiveIn(D) /\ Rec(D1, p) = Rec(D, p)
      BY <1>10, <1>12
    <3>3. CASE p = e
      BY <3>2, <3>3, <1>2, <1>4, <1>7
    <3>4. CASE p # e
      <4>1. Rec(D, p).dir => /\ Rec(D, p).clus \in X /\ Rec(D, p).clus \notin R
                             /\ D[Rec(D, p).clus][1].clus = Home(R, p[1])
        BY <1>0, <3>2, <3>4 DEF Kinds
      <4> QED
        BY <3>2, <4>1, <1>6
    <3> QED
      BY <3>3, <3>4
  <2> QED
    BY <2>1, <2>2 DEF Kinds
<1>18. Alive(F, D1, 0, NoSlot)
  BY <1>0, <1>10, <1>12 DEF Alive
<1>19. Tidy(F, D1, X1, R)
  <2>1. SUFFICES ASSUME NEW d \in X1, d \in R => d = Root, NEW g, Visits(F, d, g, Last - 2)
                 PROVE  NoGap(D1, g)
    BY DEF Tidy
  <2>2. CASE d = c
    <3>1. \A k \in 0..(Last - 2) : g[k] \in Clusters => g[k] = c
      <4>1. Members(g) = {c}
        BY <2>1, <2>2, MembersFacts
      <4> QED
        BY <4>1 DEF Members
    <3>2. \A j, k \in 0..(Last - 2) : g[j] \in Clusters /\ g[j] = g[k] => j = k
      BY <1>3, <1>13, <1>15, <2>1, WalkInjective
    <3>3. SUFFICES ASSUME NEW h \in (0..(Last - 2)) \X SlotIx, NEW j \in (0..(Last - 2)) \X SlotIx,
                          g[h[1]] \in Clusters, g[j[1]] \in Clusters, Before(h, j),
                          D1[g[h[1]]][h[2]].name = Unused
                   PROVE  D1[g[j[1]]][j[2]].name = Unused
      BY DEF NoGap
    <3>4. h[1] \in 0..(Last - 2) /\ j[1] \in 0..(Last - 2) /\ h[2] \in SlotIx /\ j[2] \in SlotIx
      OBVIOUS
    <3>5. g[h[1]] = c /\ g[j[1]] = c
      BY <3>1, <3>3, <3>4
    <3>6. h[1] = j[1]
      BY <3>2, <3>3, <3>4, <3>5
    <3>7. h[1] \in Int /\ h[2] \in Nat /\ j[2] \in Nat
      BY <3>4, Disk
    <3>8. h[2] <= j[2]
      BY <3>3, <3>6, <3>7 DEF Before
    <3>9. h[2] # 0 /\ h[2] # 1
      BY <3>3, <3>5, <1>2, <1>4, NameFacts
    <3> QED
      BY <3>4, <3>5, <3>7, <3>8, <3>9, <1>2, <1>4
  <2>3. CASE d \in X
    <3>1. NoGap(D, g)
      BY <1>0, <2>1, <2>3 DEF Tidy
    <3>2. \A k \in 0..(Last - 2) : g[k] \in Clusters => D1[g[k]] = D[g[k]]
      BY <1>0, <1>6, <2>1, <2>3, SectorsOf
    <3> QED
      BY <3>1, <3>2 DEF NoGap
  <2> QED
    BY <2>2, <2>3
<1>20. Path(F, D1, X1, R, q, n)
  <2>1. Untouched(F, D, X, R, q, n, F, D1, X1)
    BY <1>0, <1>6 DEF Untouched, Path
  <2> QED
    BY <1>0, <2>1, PathKept
<1> QED
  BY <1>3, <1>13, <1>14, <1>15, <1>17, <1>18, <1>19, <1>20 DEF Shape

-----------------------------------------------------------------------------
(* What the operations look up                                             *)

LEMMA DirSearch ==
    ASSUME NEW X, NEW R, Areas(fat, X, R), NEW d \in X, d \in R => d = Root,
           NEW P, P \subseteq Slots, NEW p, p = Search(d, P)
    PROVE  /\ FirstIn(fat, d, P, p)
           /\ p # NoSlot => p \in P /\ InDir(X, R, d, p)
<1>0. Last - 2 \in Nat
  BY Disk
<1> PICK w : w = Walk(d)
  OBVIOUS
<1>1. Visits(fat, d, w, Last - 2)
  BY WalkVisits
<1>2. Found(w, P, p)
  BY SearchFound
<1>3. \A g : Visits(fat, d, g, Last - 2) => g = w
  BY <1>0, <1>1, VisitsSame
<1>4. ASSUME p # NoSlot
      PROVE  p \in P /\ InDir(X, R, d, p)
  <2>1. p \in P
    BY <1>2, <1>4, FoundIn
  <2>2. PICK k \in 0..(Last - 2) : w[k] = p[1]
    <3>1. OnWalk(w, p[1])
      BY <1>2, <1>4, FoundIn
    <3> QED
      BY <3>1 DEF OnWalk
  <2>3. p[1] \in Clusters
    BY <2>1 DEF Slots
  <2>4. p[1] \in X /\ Home(R, p[1]) = d
    BY <1>1, <2>2, <2>3, SectorsOf
  <2> QED
    BY <2>1, <2>4 DEF InDir
<1> QED
  BY <1>2, <1>3, <1>4 DEF FirstIn

LEMMA NamedSame ==
    /\ \A ns : Named(ns) = NamedIn(dir, ns) /\ NamedIn(dir, ns) \subseteq Slots
    /\ \A p : At(p) = Rec(dir, p)
    /\ Entries = LiveIn(dir)
BY DEF Named, NamedIn, At, Rec, Entries, LiveIn, Live

LEMMA EntrySearch ==
    ASSUME NEW X, NEW R, Areas(fat, X, R), NEW d \in X, d \in R => d = Root,
           NEW nm, NEW p, p = EntryNamed(d, nm)
    PROVE  /\ FirstIn(fat, d, NamedIn(dir, {nm}), p)
           /\ p # NoSlot => Rec(dir, p).name = nm /\ InDir(X, R, d, p)
<1> PICK P : P = NamedIn(dir, {nm})
  OBVIOUS
<1>1. p = Search(d, P) /\ P \subseteq Slots
  BY NamedSame DEF EntryNamed
<1>2. FirstIn(fat, d, P, p) /\ (p # NoSlot => p \in P /\ InDir(X, R, d, p))
  BY <1>1, DirSearch
<1>3. p # NoSlot => Rec(dir, p).name = nm
  BY <1>2 DEF NamedIn
<1> QED
  BY <1>2, <1>3

LEMMA VacantSearch ==
    ASSUME NEW X, NEW R, Areas(fat, X, R), NEW d \in X, d \in R => d = Root,
           NEW p, p = VacantSlot(d)
    PROVE  /\ FirstIn(fat, d, NamedIn(dir, {Unused, Deleted}), p)
           /\ p # NoSlot => Rec(dir, p).name \in {Unused, Deleted} /\ InDir(X, R, d, p)
<1> PICK P : P = NamedIn(dir, {Unused, Deleted})
  OBVIOUS
<1>1. p = Search(d, P) /\ P \subseteq Slots
  BY NamedSame DEF VacantSlot
<1>2. FirstIn(fat, d, P, p) /\ (p # NoSlot => p \in P /\ InDir(X, R, d, p))
  BY <1>1, DirSearch
<1>3. p # NoSlot => Rec(dir, p).name \in {Unused, Deleted}
  BY <1>2 DEF NamedIn
<1> QED
  BY <1>2, <1>3

DirsIn(D, nm) == {p \in NamedIn(D, {nm}) : Rec(D, p).dir}

LEMMA DirNamedSearch ==
    ASSUME NEW X, NEW R, Areas(fat, X, R), NEW d \in X, d \in R => d = Root,
           NEW nm, NEW p, p = DirNamed(d, nm)
    PROVE  FirstIn(fat, d, DirsIn(dir, nm), p)
<1> PICK P : P = DirsIn(dir, nm)
  OBVIOUS
<1>1. P = {r \in Named({nm}) : At(r).dir}
  BY NamedSame DEF DirsIn
<1>2. p = Search(d, P) /\ P \subseteq Slots
  BY <1>1, NamedSame DEF DirNamed
<1> QED
  BY <1>2, DirSearch

LEMMA FindSearch ==
    ASSUME NEW X, NEW R, Areas(fat, X, R), NEW d \in X, d \in R => d = Root,
           NEW nm, NEW p, p = find_entry(d, nm)
    PROVE  /\ p # NoSlot => /\ Rec(dir, p).name = nm /\ InDir(X, R, d, p)
                            /\ FirstIn(fat, d, NamedIn(dir, {nm, Unused}), p)
                            /\ FirstIn(fat, d, NamedIn(dir, {nm}), p)
           /\ p = NoSlot => \E r : /\ FirstIn(fat, d, NamedIn(dir, {nm, Unused}), r)
                                   /\ r = NoSlot \/ Rec(dir, r).name # nm
<1> PICK P : P = NamedIn(dir, {nm, Unused})
  OBVIOUS
<1> PICK Q : Q = NamedIn(dir, {nm})
  OBVIOUS
<1> PICK r : r = Search(d, P)
  OBVIOUS
<1>1. P \subseteq Slots /\ Q \subseteq P
  BY DEF NamedIn
<1>2. FirstIn(fat, d, P, r) /\ (r # NoSlot => r \in P /\ InDir(X, R, d, r))
  <2>1. FirstIn(fat, d, P, r)
    BY <1>1, DirSearch
  <2>2. r # NoSlot => r \in P /\ InDir(X, R, d, r)
    BY <1>1, DirSearch
  <2> QED
    BY <2>1, <2>2
<1>3. p = IF r # NoSlot /\ Rec(dir, r).name = nm THEN r ELSE NoSlot
  BY NamedSame DEF find_entry
<1>4. ASSUME p # NoSlot
      PROVE  /\ Rec(dir, p).name = nm /\ InDir(X, R, d, p)
             /\ FirstIn(fat, d, P, p) /\ FirstIn(fat, d, Q, p)
  <2>1. p = r /\ r # NoSlot /\ Rec(dir, r).name = nm
    BY <1>3, <1>4
  <2>2. p \in Q
    BY <1>2, <2>1 DEF NamedIn, InDir
  <2>3. FirstIn(fat, d, Q, p)
    BY <1>1, <1>2, <2>1, <2>2, FoundNarrow DEF FirstIn
  <2> QED
    BY <1>2, <2>1, <2>3
<1>5. ASSUME p = NoSlot
      PROVE  \E x : FirstIn(fat, d, P, x) /\ (x = NoSlot \/ Rec(dir, x).name # nm)
  BY <1>2, <1>3, <1>5
<1> QED
  BY <1>4, <1>5

LEMMA FindSome ==
    ASSUME NEW X, NEW R, Areas(fat, X, R), NEW d \in X, d \in R => d = Root,
           NEW nm, NEW p, p = find_entry(d, nm), p # NoSlot
    PROVE  /\ Rec(dir, p).name = nm /\ InDir(X, R, d, p) /\ p \in NamedIn(dir, {nm})
           /\ FirstIn(fat, d, NamedIn(dir, {nm, Unused}), p)
           /\ FirstIn(fat, d, NamedIn(dir, {nm}), p)
<1>1. /\ Rec(dir, p).name = nm /\ InDir(X, R, d, p)
      /\ FirstIn(fat, d, NamedIn(dir, {nm, Unused}), p)
      /\ FirstIn(fat, d, NamedIn(dir, {nm}), p)
  BY FindSearch
<1>2. p \in NamedIn(dir, {nm})
  BY <1>1 DEF NamedIn, InDir
<1> QED
  BY <1>1, <1>2

(* nm is not among the entries before the first unused slot.               *)
Absent(F, D, d, nm) ==
    \E r : FirstIn(F, d, NamedIn(D, {nm, Unused}), r) /\ (r = NoSlot \/ Rec(D, r).name # nm)

LEMMA FindNone ==
    ASSUME NEW X, NEW R, Areas(fat, X, R), NEW d \in X, d \in R => d = Root,
           NEW nm, find_entry(d, nm) = NoSlot
    PROVE  Absent(fat, dir, d, nm)
BY FindSearch DEF Absent

LEMMA FreeCluster ==
    ASSUME NEW f, f = FindFree
    PROVE  f # 0 => f \in Clusters /\ fat[f] = 0
<1> PICK free : free = {c \in Clusters : fat[c] = 0}
  OBVIOUS
<1>1. FindFree = IF free = {} THEN 0 ELSE CHOOSE c \in free : \A d \in free : c <= d
  BY DEF FindFree
<1>2. free # {} => \E c \in free : \A d \in free : c <= d
  BY Disk, LeastNat
<1> QED
  BY <1>1, <1>2

-----------------------------------------------------------------------------
(* The invariant.  e is the slot that the operation under way is about.    *)

Odd(e)   == IF pc \in {"mkset", "mkmark", "mkinit", "erase"} THEN e ELSE NoSlot
Dead(e)  == IF pc \in {"mkmark", "erase"} THEN e ELSE NoSlot
Unmarked == IF pc = "mark" THEN job.new ELSE 0

Writing  == {"data", "link", "mark", "entry"}
Making   == {"mkset", "mkmark", "mkinit"}
Removing == {"free", "erase"}

(* fat32_write_file is in a chain of its own, which no entry leads to yet  *)
(* or that of the file.                                                    *)
WriteJob(X, R, e) ==
    /\ job.first \in Clusters /\ job.first \notin X /\ fat[job.first] # 0
    /\ job.cur \in Clusters /\ job.cur \notin X /\ fat[job.cur] # 0
    /\ e \in LiveIn(dir) /\ ~ Rec(dir, e).dir /\ Home(R, e[1]) = cwd
    /\ FirstIn(fat, cwd, NamedIn(dir, {job.name}), e)
    /\ Rec(dir, e).clus = job.first \/ Unshared(fat, dir, job.first, e)
    /\ pc = "link" => fat[job.cur] = EOC
    /\ pc = "mark" => job.new \in Clusters /\ fat[job.new] = 0 /\ fat[job.cur] = job.new

(* fat32_mkdir made the entry at e.                                        *)
MakeJob(X, R, e) ==
    /\ job.new \in Clusters
    /\ e \in LiveIn(dir) /\ Rec(dir, e).dir /\ Home(R, e[1]) = cwd
    /\ pc = "mkset" => /\ fat[job.new] = 0 /\ Rec(dir, e).clus = 0
                       /\ FirstIn(fat, cwd, DirsIn(dir, job.name), e)
    /\ pc = "mkmark" => fat[job.new] = 0 /\ Rec(dir, e).clus = job.new
    /\ pc = "mkinit" => fat[job.new] = EOC /\ Rec(dir, e).clus = job.new /\ job.new \notin X

(* fat32_rmdir removes the entry at e.                                     *)
RemoveJob(X, R, q, n, e) ==
    /\ job.slot = e /\ e \in LiveIn(dir) /\ Home(R, e[1]) = cwd
    /\ pc = "free" => /\ Rec(dir, e).clus = job.cur /\ job.cur \in X /\ job.cur \notin R
                      /\ \A i \in 1..n : q[i] # job.cur
                      /\ \A i \in SlotIx : dir[job.cur][i].name \notin Names

Good(X, R, q, n, e) ==
    /\ Shape(fat, dir, X, R, q, n, Odd(e), Unmarked, Dead(e))
    /\ cwd = q[n] /\ job \in JobSet
    /\ pc \in {"idle"} \cup Writing \cup Making \cup Removing
    /\ pc \in Writing => WriteJob(X, R, e)
    /\ pc \in Making => MakeJob(X, R, e)
    /\ pc \in Removing => RemoveJob(X, R, q, n, e)

Inv == \E X, R, q, n, e : Good(X, R, q, n, e)

-----------------------------------------------------------------------------
(* The formatted disk                                                      *)

LEMMA FirstRoot ==
    ASSUME NEW len \in 1..RootMax, NEW g,
           NEW F,
           \A c \in Clusters : F[c] = IF c <= len THEN c + 1 ELSE IF c = len + 1 THEN EOC ELSE 0,
           Visits(F, Root, g, Last - 2)
    PROVE  Members(g) = 2..(len + 1)
<1>0. /\ Last \in Nat /\ Last - 2 \in Nat /\ len \in Nat /\ len >= 1 /\ len + 1 <= Last /\ EOC = Last + 1
      /\ Clusters = 2..Last /\ Root = 2 /\ 2..(len + 1) \subseteq Clusters
  BY DiskAssumption, Disk
<1>1. \A c \in Clusters : F[c] = IF c <= len THEN c + 1 ELSE IF c = len + 1 THEN EOC ELSE 0
  OBVIOUS
<1>a. \A k \in 0..(Last - 2) : k # 0 =>
        g[k] = IF g[k - 1] \in Clusters THEN F[g[k - 1]] ELSE g[k - 1]
  BY <1>0, VisitsStep
<1>2. 2..(len + 1) \subseteq Members(g)
  <2> DEFINE Bad == {k \in 0..(len - 1) : g[k] # k + 2}
  <2>1. ASSUME Bad # {} PROVE FALSE
    <3>1. PICK m \in Bad : \A y \in Bad : m <= y
      <4>1. Bad \subseteq Nat
        BY <1>0
      <4> QED
        BY <4>1, <2>1, LeastNat
    <3>2. m # 0
      BY <1>0, <3>1, VisitsStep
    <3>3. m - 1 \in 0..(len - 1) /\ m \in 0..(Last - 2) /\ g[m - 1] = m + 1
      <4>1. m - 1 \in 0..(len - 1) /\ m - 1 \notin Bad /\ m \in 0..(Last - 2)
        BY <1>0, <3>1, <3>2
      <4>2. g[m - 1] = (m - 1) + 2
        BY <4>1
      <4> QED
        BY <1>0, <4>1, <4>2, <3>1
    <3>4. g[m] = IF g[m - 1] \in Clusters THEN F[g[m - 1]] ELSE g[m - 1]
      BY <1>a, <3>2, <3>3
    <3>5. m + 1 \in Clusters /\ m + 1 <= len
      BY <1>0, <3>2, <3>3, <3>1
    <3>6. g[m] = m + 2
      BY <1>0, <1>1, <3>1, <3>3, <3>4, <3>5
    <3> QED
      BY <3>1, <3>6
  <2>2. \A k \in 0..(len - 1) : g[k] = k + 2
    BY <2>1
  <2>3. ASSUME NEW x \in 2..(len + 1) PROVE x \in Members(g)
    <3>1. x - 2 \in 0..(len - 1) /\ x - 2 \in 0..(Last - 2) /\ x \in Clusters
      BY <1>0
    <3>2. g[x - 2] = x
      BY <1>0, <2>2, <3>1
    <3> QED
      BY <3>1, <3>2 DEF Members
  <2> QED
    BY <2>3
<1>3. ASSUME NEW x \in Members(g) PROVE x \in 2..(len + 1)
  <2>1. CASE x = Root
    BY <1>0, <2>1
  <2>2. CASE x # Root
    <3>1. PICK y \in Members(g) : F[y] = x
      BY <2>2, MembersFacts
    <3>2. y \in Clusters /\ x \in Clusters
      BY DEF Members
    <3> QED
      BY <1>0, <1>1, <3>1, <3>2
  <2> QED
    BY <2>1, <2>2
<1> QED
  BY <1>2, <1>3

LEMMA InitGood == Init => Inv
<1> SUFFICES ASSUME Init PROVE Inv
  OBVIOUS
<1>1. PICK len \in 1..RootMax :
        fat = [c \in Clusters |-> IF c <= len THEN c + 1 ELSE IF c = len + 1 THEN EOC ELSE 0]
  BY DEF Init
<1>2. dir = [c \in Clusters |-> Blank] /\ cwd = Root /\ pc = "idle" /\ job = NoJob
  BY DEF Init
<1>0. /\ Last \in Nat /\ len \in Nat /\ len >= 1 /\ len + 1 <= Last /\ EOC = Last + 1
      /\ Clusters = 2..Last /\ Root = 2
  BY DiskAssumption, Disk
<1> PICK R : R = 2..(len + 1)
  OBVIOUS
<1> PICK q : q = [i \in Nat |-> Root]
  OBVIOUS
<1>3. Typed(fat, dir)
  BY <1>0, <1>1, <1>2, BlankTyped DEF Typed
<1>4. /\ \A c \in Clusters : \A i \in SlotIx : dir[c][i].name = Unused
      /\ LiveIn(dir) = {}
  <2>1. \A c \in Clusters : \A i \in SlotIx : dir[c][i].name = Unused
    BY <1>2, BlankTyped
  <2> QED
    BY <2>1, NameFacts DEF LiveIn, Rec, Slots
<1>5. Areas(fat, R, R)
  <2>0. \A c \in Clusters : fat[c] = IF c <= len THEN c + 1 ELSE IF c = len + 1 THEN EOC ELSE 0
    BY <1>1
  <2>1. \A g : Visits(fat, Root, g, Last - 2) => Members(g) = R
    BY <2>0, FirstRoot
  <2>2. R \subseteq Clusters /\ Root \in R
    BY <1>0
  <2>3. \A c \in R : fat[c] \in R \cup {EOC}
    BY <1>0, <1>1
  <2>4. \A c \in Clusters : c \notin R => fat[c] \notin R
    BY <1>0, <1>1
  <2> QED
    BY <2>1, <2>2, <2>3, <2>4 DEF Areas
<1>6. Layout(dir, R, R)
  BY <1>4, <1>5, NameFacts DEF Layout, Areas
<1>7. Single(fat, dir)
  <2>1. \A x \in Clusters : fat[x] \in Clusters => fat[x] = x + 1
    BY <1>0, <1>1
  <2>2. \A x \in Clusters : fat[x] # Root
    BY <1>0, <1>1
  <2>3. \A x, y \in Clusters : fat[x] \in Clusters /\ fat[x] = fat[y] => x = y
    BY <1>0, <2>1
  <2> QED
    BY <1>4, <2>2, <2>3 DEF Single
<1>8. Kinds(dir, R, R, NoSlot)
  BY <1>4 DEF Kinds
<1>9. Alive(fat, dir, 0, NoSlot)
  <2>1. \A x \in Clusters : fat[x] \in Clusters => fat[fat[x]] # 0
    BY <1>0, <1>1
  <2> QED
    BY <1>4, <2>1 DEF Alive
<1>10. Tidy(fat, dir, R, R)
  BY <1>4 DEF Tidy, NoGap
<1>11. Path(fat, dir, R, R, q, 1)
  BY <1>0 DEF Path
<1>12. Shape(fat, dir, R, R, q, 1, NoSlot, 0, NoSlot)
  BY <1>3, <1>5, <1>6, <1>7, <1>8, <1>9, <1>10, <1>11 DEF Shape
<1>13. NoJob \in JobSet
  BY DEF NoJob, JobSet, AllNames
<1>14. Good(R, R, q, 1, NoSlot)
  BY <1>2, <1>12, <1>13 DEF Good, Odd, Dead, Unmarked, Writing, Making, Removing
<1> QED
  BY <1>14 DEF Inv

-----------------------------------------------------------------------------
(* The operations of one write                                             *)

LEMMA Here ==
    ASSUME NEW X, NEW R, NEW q, NEW n, NEW e, Good(X, R, q, n, e)
    PROVE  /\ cwd \in X /\ cwd = q[n] /\ (cwd \in R => cwd = Root) /\ cwd \in Clusters
           /\ Typed(fat, dir) /\ Areas(fat, X, R)
<1>1. /\ Typed(fat, dir) /\ Areas(fat, X, R) /\ Path(fat, dir, X, R, q, n) /\ cwd = q[n]
  BY DEF Good, Shape
<1>2. n \in 1..n
  BY <1>1 DEF Path
<1> QED
  BY <1>1, <1>2 DEF Path, Areas

LEMMA IdleShape ==
    ASSUME NEW X, NEW R, NEW q, NEW n, NEW e, Good(X, R, q, n, e), pc = "idle"
    PROVE  Shape(fat, dir, X, R, q, n, NoSlot, 0, NoSlot)
BY DEF Good, Odd, Dead, Unmarked

LEMMA IdleGood ==
    ASSUME NEW X, NEW R, NEW q, NEW n, NEW e,
           Shape(fat', dir', X, R, q, n, NoSlot, 0, NoSlot), cwd' = q[n], job' \in JobSet, pc' = "idle"
    PROVE  Good(X, R, q, n, e)'
<1>1. /\ Odd(e)' = NoSlot /\ Dead(e)' = NoSlot /\ Unmarked' = 0
  BY DEF Odd, Dead, Unmarked
<1>2. "idle" \notin Writing /\ "idle" \notin Making /\ "idle" \notin Removing
  BY DEF Writing, Making, Removing
<1> QED
  BY <1>1, <1>2 DEF Good

LEMMA NoJobTyped == NoJob \in JobSet
BY DEF NoJob, JobSet, AllNames

LEMMA RecTyped ==
    ASSUME NEW F, NEW D, Typed(F, D), NEW p \in Slots
    PROVE  Rec(D, p) \in EntrySet
BY DEF Typed, Rec, Slots

SameTarget(en, old) == en.clus = old.clus /\ en.dir = old.dir

(* A live entry may be rewritten with the cluster it has.                  *)
LEMMA KeepRefers ==
    ASSUME NEW F, NEW D, NEW X, NEW R, NEW q, NEW n, NEW o, NEW m, NEW z,
           Shape(F, D, X, R, q, n, o, m, z), NEW v \in LiveIn(D), v # o, v # z,
           NEW en, SameTarget(en, Rec(D, v)), NEW o1, NEW z1
    PROVE  Refers(F, D, X, R, v, en, o1, z1)
<1>0. /\ Single(F, D) /\ Kinds(D, X, R, o) /\ Alive(F, D, m, z)
  BY DEF Shape
<1>1. en.clus \in Clusters => Unshared(F, D, en.clus, v) /\ en.clus # Root
  BY <1>0, UnsharedOwn DEF SameTarget
<1>2. ~ en.dir => en.clus = 0 \/ (en.clus \in Clusters /\ en.clus \notin X)
  BY <1>0 DEF Kinds, SameTarget
<1>3. en.dir => en.clus \in X /\ en.clus \notin R /\ D[en.clus][1].clus = Home(R, v[1])
  BY <1>0 DEF Kinds, SameTarget
<1>4. en.clus \in Clusters => F[en.clus] # 0
  BY <1>0 DEF Alive, SameTarget
<1> QED
  BY <1>1, <1>2, <1>3, <1>4 DEF Refers

LEMMA LiveSuits ==
    ASSUME NEW F, NEW D, NEW X, NEW R, NEW d, NEW v \in LiveIn(D), v[1] \in X, Home(R, v[1]) = d,
           NEW en, en.name \notin Dots, en.name # Unused, WellNamed(en)
    PROVE  Suits(F, D, X, R, d, v, en)
<1>1. Rec(D, v).name \in Names
  BY DEF LiveIn
<1>2. Rec(D, v).name \notin Dots /\ Rec(D, v).name # Unused
  BY <1>1, NameFacts
<1> QED
  BY <1>2 DEF Suits

LEMMA IdleWrite ==
    ASSUME NEW X, NEW R, NEW q, NEW n, NEW e, Good(X, R, q, n, e), pc = "idle",
           NEW v \in Slots, NEW en \in EntrySet,
           Suits(fat, dir, X, R, cwd, v, en), Refers(fat, dir, X, R, v, en, NoSlot, NoSlot),
           fat' = fat, dir' = [dir EXCEPT ![v[1]][v[2]] = en], cwd' = cwd, pc' = pc, job' = job
    PROVE  Good(X, R, q, n, e)'
<1>1. Suits(fat, dir, X, R, q[n], v, en) /\ cwd' = q[n]
  BY Here
<1>2. Shape(fat, dir, X, R, q, n, NoSlot, 0, NoSlot)
  BY IdleShape
<1>3. Shape(fat, dir', X, R, q, n, NoSlot, 0, NoSlot)
  BY <1>1, <1>2, SlotShape
<1>4. job' \in JobSet
  BY DEF Good
<1> QED
  BY <1>1, <1>3, <1>4, IdleGood

LEMMA CreateGood ==
    ASSUME NEW X, NEW R, NEW q, NEW n, NEW e, Good(X, R, q, n, e),
           NEW nm \in FileNames, fat32_create_file(nm)
    PROVE  Good(X, R, q, n, e)'
<1> PICK v : v = VacantSlot(cwd)
  OBVIOUS
<1> PICK en : en = NewEntry(nm, FALSE)
  OBVIOUS
<1>0. cwd \in X /\ (cwd \in R => cwd = Root) /\ Areas(fat, X, R)
  BY Here
<1>1. /\ pc = "idle" /\ v # NoSlot /\ dir' = [dir EXCEPT ![v[1]][v[2]] = en]
      /\ fat' = fat /\ cwd' = cwd /\ pc' = pc /\ job' = job
  BY DEF fat32_create_file, create_entry_at, WriteSlot, Idle
<1>2. /\ FirstIn(fat, cwd, NamedIn(dir, {Unused, Deleted}), v)
      /\ Rec(dir, v).name \in {Unused, Deleted} /\ InDir(X, R, cwd, v)
  BY <1>0, <1>1, VacantSearch
<1>3. en \in EntrySet /\ en.name = nm /\ ~ en.dir /\ en.clus = 0
  BY NameFacts DEF NewEntry, EntrySet, AllNames
<1>4. nm \in Names /\ nm \notin Dots /\ nm # Unused /\ nm \notin DirNames
  BY NameFacts
<1>5. Suits(fat, dir, X, R, cwd, v, en)
  BY <1>2, <1>3, <1>4, NameFacts DEF Suits, WellNamed, InDir
<1>6. Refers(fat, dir, X, R, v, en, NoSlot, NoSlot)
  BY <1>3, Disk DEF Refers
<1>7. v \in Slots
  BY <1>2 DEF InDir
<1> QED
  BY <1>1, <1>3, <1>5, <1>6, <1>7, IdleWrite

LEMMA DeleteGood ==
    ASSUME NEW X, NEW R, NEW q, NEW n, NEW e, Good(X, R, q, n, e),
           NEW nm \in Names, fat32_delete_file(nm)
    PROVE  Good(X, R, q, n, e)'
<1> PICK v : v = find_entry(cwd, nm)
  OBVIOUS
<1> PICK en : en = [Rec(dir, v) EXCEPT !.name = Deleted]
  OBVIOUS
<1>0. cwd \in X /\ (cwd \in R => cwd = Root) /\ Areas(fat, X, R) /\ Typed(fat, dir)
  BY Here
<1>1. /\ pc = "idle" /\ v # NoSlot /\ dir' = [dir EXCEPT ![v[1]][v[2]] = en]
      /\ fat' = fat /\ cwd' = cwd /\ pc' = pc /\ job' = job
  BY NamedSame DEF fat32_delete_file, delete_entry_at, WriteSlot, Erase, Idle
<1>2. Rec(dir, v).name = nm /\ InDir(X, R, cwd, v)
  BY <1>0, <1>1, FindSearch
<1>3. v \in Slots /\ v \in LiveIn(dir) /\ v[1] \in X /\ Home(R, v[1]) = cwd
  BY <1>2 DEF InDir, LiveIn
<1>4. Rec(dir, v) \in EntrySet
  BY <1>0, <1>3, RecTyped
<1>5. en \in EntrySet /\ en.name = Deleted
  BY <1>4 DEF EntrySet, AllNames
<1>6. Suits(fat, dir, X, R, cwd, v, en)
  BY <1>3, <1>5, NameFacts, LiveSuits DEF WellNamed
<1>7. Refers(fat, dir, X, R, v, en, NoSlot, NoSlot)
  BY <1>5, NameFacts DEF Refers
<1> QED
  BY <1>1, <1>3, <1>5, <1>6, <1>7, IdleWrite

LEMMA RenameGood ==
    ASSUME NEW X, NEW R, NEW q, NEW n, NEW e, Good(X, R, q, n, e),
           NEW old \in Names, NEW new \in Names, old \in DirNames <=> new \in DirNames,
           fat32_rename(old, new)
    PROVE  Good(X, R, q, n, e)'
<1> PICK v : v = EntryNamed(cwd, old)
  OBVIOUS
<1> PICK en : en = [Rec(dir, v) EXCEPT !.name = new]
  OBVIOUS
<1>0. cwd \in X /\ (cwd \in R => cwd = Root) /\ Areas(fat, X, R) /\ Typed(fat, dir)
  BY Here
<1>1. /\ pc = "idle" /\ v # NoSlot /\ dir' = [dir EXCEPT ![v[1]][v[2]] = en]
      /\ fat' = fat /\ cwd' = cwd /\ pc' = pc /\ job' = job
  BY NamedSame DEF fat32_rename, WriteSlot, Idle
<1>2. Rec(dir, v).name = old /\ InDir(X, R, cwd, v)
  BY <1>0, <1>1, EntrySearch
<1>3. v \in Slots /\ v \in LiveIn(dir) /\ v[1] \in X /\ Home(R, v[1]) = cwd
  BY <1>2 DEF InDir, LiveIn
<1>4. Rec(dir, v) \in EntrySet
  BY <1>0, <1>3, RecTyped
<1>5. en \in EntrySet /\ en.name = new /\ en.clus = Rec(dir, v).clus
  BY <1>4 DEF EntrySet, AllNames
<1>6. en.dir = Rec(dir, v).dir
  BY <1>4 DEF EntrySet
<1>7. Shape(fat, dir, X, R, q, n, NoSlot, 0, NoSlot)
  BY <1>1, IdleShape
<1>8. WellNamed(en)
  <2>1. Rec(dir, v).dir <=> old \in DirNames
    BY <1>2, <1>3, <1>7 DEF Shape, Layout
  <2> QED
    BY <2>1, <1>5, <1>6 DEF WellNamed
<1>9. Suits(fat, dir, X, R, cwd, v, en)
  BY <1>3, <1>5, <1>8, NameFacts, LiveSuits
<1>10. v # NoSlot /\ SameTarget(en, Rec(dir, v))
  BY <1>1, <1>5, <1>6 DEF SameTarget
<1>11. Refers(fat, dir, X, R, v, en, NoSlot, NoSlot)
  BY <1>3, <1>7, <1>10, KeepRefers
<1> QED
  BY <1>1, <1>3, <1>5, <1>9, <1>11, IdleWrite

LEMMA PathTo ==
    ASSUME NEW F, NEW D, NEW X, NEW R, NEW q, NEW n, Path(F, D, X, R, q, n), NEW j \in 1..n
    PROVE  Path(F, D, X, R, q, j)
<1>1. j \in Nat /\ j # 0 /\ 1..j \subseteq 1..n /\ \A i \in 1..j : i # j => i # n
  BY DEF Path
<1> QED
  BY <1>1 DEF Path

(* From the j-th directory of the path, cd goes to a directory whose path  *)
(* is known.                                                               *)
LEMMA ChangeTo ==
    ASSUME NEW X, NEW R, NEW q, NEW n, Shape(fat, dir, X, R, q, n, NoSlot, 0, NoSlot),
           NEW j \in 1..n, NEW nm \in Names \cup Dots
    PROVE  \E q1, n1 : Path(fat, dir, X, R, q1, n1) /\ q1[n1] = ChangeDirTo(q[j], nm)
<1>0. /\ Typed(fat, dir) /\ Areas(fat, X, R) /\ Layout(dir, X, R) /\ Single(fat, dir)
      /\ Kinds(dir, X, R, NoSlot) /\ Path(fat, dir, X, R, q, n)
  BY DEF Shape
<1> PICK d : d = q[j]
  OBVIOUS
<1> PICK p : p = find_entry(d, nm)
  OBVIOUS
<1> PICK c : c = Rec(dir, p).clus
  OBVIOUS
<1>1. d \in X /\ (d \in R => d = Root) /\ d \in Clusters
  BY <1>0 DEF Path, Areas
<1>2. Path(fat, dir, X, R, q, j)
  BY <1>0, PathTo
<1>3. ChangeDirTo(d, nm) = IF p = NoSlot \/ ~ Rec(dir, p).dir THEN d
                           ELSE IF c = 0 THEN Root ELSE c
  BY NamedSame DEF ChangeDirTo
<1>a. ASSUME p # NoSlot
      PROVE  /\ Rec(dir, p).name = nm /\ InDir(X, R, d, p)
             /\ FirstIn(fat, d, NamedIn(dir, {nm, Unused}), p)
  <2>1. Areas(fat, X, R)
    BY <1>0
  <2>2. Rec(dir, p).name = nm
    <3>1. p \in NamedIn(dir, {nm})
      BY <2>1, <1>1, <1>a, FindSome
    <3> QED
      BY <3>1 DEF NamedIn
  <2>3. InDir(X, R, d, p)
    BY <2>1, <1>1, <1>a, FindSome
  <2>4. FirstIn(fat, d, NamedIn(dir, {nm, Unused}), p)
    BY <2>1, <1>1, <1>a, FindSome
  <2> QED
    BY <2>2, <2>3, <2>4
<1>4. CASE p = NoSlot \/ ~ Rec(dir, p).dir
  BY <1>2, <1>3, <1>4
<1>5. ASSUME p # NoSlot, Rec(dir, p).dir
      PROVE  \E q1, n1 : Path(fat, dir, X, R, q1, n1) /\ q1[n1] = ChangeDirTo(d, nm)
  <2>1. /\ Rec(dir, p).name = nm /\ InDir(X, R, d, p)
        /\ FirstIn(fat, d, NamedIn(dir, {nm, Unused}), p)
    BY <1>5, <1>a
  <2>2. p \in Slots /\ p[1] \in X /\ Home(R, p[1]) = d /\ p[1] \in Clusters /\ p[2] \in SlotIx
    BY <2>1 DEF InDir, Slots
  <2>3. \A i \in 1..j : i # j =>
          \E r : Leads(fat, dir, R, q[i], r) /\ Rec(dir, r).dir /\ Rec(dir, r).clus = q[i + 1]
    BY <1>2 DEF Path
  <2>4. CASE nm \in Names
    <3>1. p \in LiveIn(dir)
      BY <2>1, <2>2, <2>4 DEF LiveIn
    <3>2. c \in X /\ c \notin R
      BY <1>0, <1>5, <3>1 DEF Kinds
    <3>3. c \in Clusters /\ c # 0 /\ Root \in R
      BY <1>0, <3>2, Disk DEF Areas
    <3>4. Leads(fat, dir, R, d, p)
      BY <2>1, <2>2, <3>1 DEF Leads
    <3>5. ASSUME NEW i \in 1..j, q[i] = c PROVE FALSE
      <4>1. i # 1
        BY <3>5, <3>2, <3>3, <1>0 DEF Path
      <4>2. i - 1 \in 1..j /\ i - 1 # j /\ (i - 1) + 1 = i
        BY <4>1, <1>2 DEF Path
      <4>3. PICK r : Leads(fat, dir, R, q[i - 1], r) /\ Rec(dir, r).clus = c
        BY <2>3, <4>2, <3>5
      <4>4. r \in LiveIn(dir) /\ Home(R, r[1]) = q[i - 1]
        BY <4>3 DEF Leads
      <4>5. r = p
        BY <1>0, <3>1, <3>3, <4>3, <4>4 DEF Single
      <4>6. q[i - 1] = q[j]
        BY <2>2, <4>4, <4>5
      <4> QED
        BY <1>2, <4>2, <4>6 DEF Path
    <3> PICK q1 : q1 = [q EXCEPT ![j + 1] = c]
      OBVIOUS
    <3>6. j \in Nat /\ j # 0 /\ q \in [Nat -> Clusters]
      BY <1>2 DEF Path
    <3>7. q1 \in [Nat -> Clusters] /\ q1[j + 1] = c /\ \A i \in 1..j : q1[i] = q[i]
      BY <3>3, <3>6
    <3>8. \A i \in 1..(j + 1) : i \in 1..j \/ i = j + 1
      BY <3>6
    <3>9. \A i \in 1..j : q[i] \in X /\ (q[i] \in R => q[i] = Root)
      BY <1>2 DEF Path
    <3>10. \A i \in 1..(j + 1) : q1[i] \in X /\ (q1[i] \in R => q1[i] = Root)
      BY <3>2, <3>7, <3>8, <3>9
    <3>11. \A i, k \in 1..j : q[i] = q[k] => i = k
      BY <1>2 DEF Path
    <3>12. \A i, k \in 1..(j + 1) : q1[i] = q1[k] => i = k
      BY <3>5, <3>7, <3>8, <3>11
    <3>13. ASSUME NEW i \in 1..(j + 1), i # j + 1
           PROVE  \E r : Leads(fat, dir, R, q1[i], r) /\ Rec(dir, r).dir /\ Rec(dir, r).clus = q1[i + 1]
      <4>1. i \in 1..j
        BY <3>6, <3>8, <3>13
      <4>2. CASE i = j
        BY <3>4, <3>7, <1>5, <4>1, <4>2
      <4>3. CASE i # j
        <5>1. i + 1 \in 1..j
          BY <3>6, <4>1, <4>3
        <5> QED
          BY <2>3, <3>7, <4>1, <4>3, <5>1
      <4> QED
        BY <4>2, <4>3
    <3>14. q1[1] = Root
      <4>1. 1 \in 1..j /\ q[1] = Root
        BY <1>2, <3>6 DEF Path
      <4> QED
        BY <3>7, <4>1
    <3>15. j + 1 \in Nat /\ j + 1 # 0
      BY <3>6
    <3>16. Path(fat, dir, X, R, q1, j + 1)
      BY <3>7, <3>10, <3>12, <3>13, <3>14, <3>15 DEF Path
    <3>17. q1[j + 1] = ChangeDirTo(d, nm)
      BY <1>3, <1>5, <3>3, <3>7
    <3> QED
      BY <3>16, <3>17
  <2>5. CASE nm \in Dots
    <3>1. p[1] \notin R
      BY <1>0, <2>1, <2>2, <2>5 DEF Layout, Rec
    <3>2. p[1] = d /\ d \notin R
      BY <2>2, <3>1 DEF Home
    <3>3. /\ dir[d][0].name = "." /\ dir[d][0].clus = d /\ dir[d][1].name = ".."
          /\ \A i \in SlotIx : i # 0 /\ i # 1 => dir[d][i].name \notin Dots
      BY <1>0, <1>1, <3>2 DEF Layout
    <3>4. p[2] = 0 \/ p[2] = 1
      BY <2>1, <2>2, <2>5, <3>2, <3>3 DEF Rec
    <3>5. CASE p[2] = 0
      <4>1. c = d /\ d # 0
        BY <3>2, <3>3, <3>5, <1>1, Disk DEF Rec
      <4> QED
        BY <1>2, <1>3, <1>5, <4>1
    <3>6. CASE p[2] = 1
      <4>1. c = dir[d][1].clus
        BY <3>2, <3>6 DEF Rec
      <4>2. j # 1 /\ j \in Nat
        BY <3>2, <1>0, <1>2 DEF Path, Areas
      <4>3. j - 1 \in 1..j /\ j - 1 # j /\ (j - 1) + 1 = j
        BY <4>2
      <4>4. PICK r : Leads(fat, dir, R, q[j - 1], r) /\ Rec(dir, r).dir /\ Rec(dir, r).clus = d
        BY <2>3, <4>3
      <4>5. r \in LiveIn(dir) /\ Home(R, r[1]) = q[j - 1] /\ r # NoSlot
        BY <4>4, Disk DEF Leads, LiveIn, Slots, NoSlot
      <4>6. c = q[j - 1]
        BY <1>0, <4>1, <4>4, <4>5 DEF Kinds
      <4>7. Path(fat, dir, X, R, q, j - 1) /\ q[j - 1] \in Clusters
        BY <1>2, <4>3, PathTo DEF Path
      <4>8. c # 0
        BY <4>6, <4>7, Disk
      <4> QED
        BY <1>3, <1>5, <4>6, <4>7, <4>8
    <3> QED
      BY <3>4, <3>5, <3>6
  <2> QED
    BY <2>4, <2>5
<1> QED
  BY <1>4, <1>5

LEMMA ChangeDirGood ==
    ASSUME NEW X, NEW R, NEW q, NEW n, NEW e, Good(X, R, q, n, e),
           NEW nm \in Names \cup Dots, NEW a \in BOOLEAN, fat32_change_dir(nm, a)
    PROVE  Inv'
<1>1. /\ pc = "idle" /\ cwd' = ChangeDirTo(IF a THEN Root ELSE cwd, nm)
      /\ fat' = fat /\ dir' = dir /\ pc' = pc /\ job' = job
  BY DEF fat32_change_dir, Idle
<1>2. Shape(fat, dir, X, R, q, n, NoSlot, 0, NoSlot)
  BY <1>1, IdleShape
<1>3. 1 \in 1..n /\ n \in 1..n /\ q[1] = Root /\ cwd = q[n]
  BY <1>2, Here DEF Shape, Path
<1>4. \E j \in 1..n : cwd' = ChangeDirTo(q[j], nm)
  BY <1>1, <1>3
<1>5. PICK j \in 1..n : cwd' = ChangeDirTo(q[j], nm)
  BY <1>4
<1>6. PICK q1, n1 : Path(fat, dir, X, R, q1, n1) /\ q1[n1] = cwd'
  BY <1>2, <1>5, ChangeTo
<1>7. Shape(fat', dir', X, R, q1, n1, NoSlot, 0, NoSlot)
  BY <1>1, <1>2, <1>6 DEF Shape
<1>8. job' \in JobSet
  BY <1>1 DEF Good
<1>9. Good(X, R, q1, n1, e)'
  BY <1>1, <1>6, <1>7, <1>8, IdleGood
<1> QED
  BY <1>9 DEF Inv

LEMMA RestartGood ==
    ASSUME NEW X, NEW R, NEW q, NEW n, NEW e, Good(X, R, q, n, e), Restart
    PROVE  Inv'
<1>1. pc = "idle" /\ cwd' = Root /\ pc' = "idle" /\ job' = NoJob /\ fat' = fat /\ dir' = dir
  BY DEF Restart, fat32_init, Return, Idle
<1>2. Shape(fat, dir, X, R, q, n, NoSlot, 0, NoSlot)
  BY <1>1, IdleShape
<1>3. 1 \in 1..n /\ q[1] = Root /\ Path(fat, dir, X, R, q, n)
  BY <1>2 DEF Shape, Path
<1>4. Path(fat, dir, X, R, q, 1)
  BY <1>3, PathTo
<1>5. Shape(fat', dir', X, R, q, 1, NoSlot, 0, NoSlot)
  BY <1>1, <1>2, <1>4 DEF Shape
<1>6. Good(X, R, q, 1, e)'
  BY <1>1, <1>3, <1>5, NoJobTyped, IdleGood
<1> QED
  BY <1>6 DEF Inv

-----------------------------------------------------------------------------
(* fat32_write_file                                                        *)

LEMMA UsedSectors ==
    ASSUME NEW F, NEW X, NEW R, Areas(F, X, R)
    PROVE  \A c \in Clusters : F[c] = 0 => c \notin X
<1>1. EOC # 0 /\ 0 \notin R
  BY Disk DEF Areas
<1> QED
  BY <1>1 DEF Areas

SameSlots(P, Q, X, R, d) ==
    \A s \in X : Home(R, s) = d => \A i \in SlotIx : <<s, i>> \in P <=> <<s, i>> \in Q

(* A search in d is not disturbed by what happens outside of d.            *)
LEMMA FirstKept ==
    ASSUME NEW F, NEW X, NEW R, Areas(F, X, R), NEW d \in X, d \in R => d = Root,
           NEW F1, \A s \in X : Home(R, s) = d => F1[s] = F[s],
           NEW P, NEW Q, P \subseteq Slots, Q \subseteq Slots, SameSlots(P, Q, X, R, d),
           NEW p, FirstIn(F, d, P, p)
    PROVE  FirstIn(F1, d, Q, p)
<1>1. SUFFICES ASSUME NEW g, Visits(F1, d, g, Last - 2) PROVE Found(g, Q, p)
  BY DEF FirstIn
<1>2. Visits(F, d, g, Last - 2)
  BY <1>1, WalkKept
<1>3. Found(g, P, p)
  BY <1>2 DEF FirstIn
<1>4. ASSUME NEW k \in 0..(Last - 2), NEW i \in SlotIx
      PROVE  <<g[k], i>> \in P <=> <<g[k], i>> \in Q
  <2>1. CASE g[k] \in Clusters
    <3>1. g[k] \in X /\ Home(R, g[k]) = d
      BY <1>2, <2>1, SectorsOf
    <3> QED
      BY <3>1 DEF SameSlots
  <2>2. CASE g[k] \notin Clusters
    BY <2>2 DEF Slots
  <2> QED
    BY <2>1, <2>2
<1> QED
  BY <1>3, <1>4, FoundSame

(* The same, when a cluster outside the directories changes in the FAT.    *)
LEMMA FirstFat ==
    ASSUME NEW F, NEW X, NEW R, Areas(F, X, R), NEW d \in X, d \in R => d = Root,
           NEW F1, \A s \in X : F1[s] = F[s], NEW P, P \subseteq Slots, NEW p, FirstIn(F, d, P, p)
    PROVE  FirstIn(F1, d, P, p)
<1>1. SameSlots(P, P, X, R, d)
  BY DEF SameSlots
<1> QED
  BY <1>1, FirstKept

LEMMA FirstDir ==
    ASSUME NEW F, NEW X, NEW R, Areas(F, X, R), NEW d \in X, d \in R => d = Root,
           NEW P, NEW Q, P \subseteq Slots, Q \subseteq Slots, SameSlots(P, Q, X, R, d),
           NEW p, FirstIn(F, d, P, p)
    PROVE  FirstIn(F, d, Q, p)
<1>1. \A s \in X : Home(R, s) = d => F[s] = F[s]
  OBVIOUS
<1> QED
  BY <1>1, FirstKept

LEMMA WriteFileGood ==
    ASSUME NEW X, NEW R, NEW q, NEW n, NEW e, Good(X, R, q, n, e),
           NEW nm \in FileNames, NEW b \in Buffers, fat32_write_file(nm, b, FindFree)
    PROVE  Inv'
<1> PICK p : p = find_entry(cwd, nm)
  OBVIOUS
<1> PICK f : f = FindFree
  OBVIOUS
<1> PICK c : c = Rec(dir, p).clus
  OBVIOUS
<1> PICK first : first = IF c = 0 THEN f ELSE c
  OBVIOUS
<1>0. cwd \in X /\ cwd = q[n] /\ (cwd \in R => cwd = Root) /\ Areas(fat, X, R) /\ Typed(fat, dir)
  BY Here
<1>1. /\ pc = "idle" /\ p # NoSlot /\ first # 0
      /\ fat' = IF c = 0 THEN [fat EXCEPT ![f] = EOC] ELSE fat
      /\ pc' = IF b = <<>> THEN "entry" ELSE "data"
      /\ job' = [NoJob EXCEPT !.name = nm, !.buf = b, !.first = first, !.cur = first]
      /\ dir' = dir /\ cwd' = cwd
  BY NamedSame DEF fat32_write_file, fat_write_entry, Idle
<1>2. Shape(fat, dir, X, R, q, n, NoSlot, 0, NoSlot)
  BY <1>1, IdleShape
<1>a. /\ Layout(dir, X, R) /\ Kinds(dir, X, R, NoSlot) /\ Alive(fat, dir, 0, NoSlot)
  BY <1>2 DEF Shape
<1>3. p \in NamedIn(dir, {nm}) /\ InDir(X, R, cwd, p) /\ FirstIn(fat, cwd, NamedIn(dir, {nm}), p)
  BY <1>0, <1>1, FindSome
<1>4. p \in LiveIn(dir) /\ Rec(dir, p).name = nm /\ Home(R, p[1]) = cwd /\ p \in Slots
  BY <1>3, NameFacts DEF NamedIn, LiveIn, InDir
<1>5. ~ Rec(dir, p).dir
  BY <1>a, <1>4, NameFacts DEF Layout
<1>6. c = 0 \/ (c \in Clusters /\ c \notin X)
  BY <1>a, <1>4, <1>5 DEF Kinds
<1>7. /\ first \in Clusters /\ first \notin X /\ fat'[first] # 0
      /\ c = first \/ Unshared(fat', dir', first, p)
      /\ Shape(fat', dir', X, R, q, n, NoSlot, 0, NoSlot)
      /\ \A s \in X : fat'[s] = fat[s]
  <2>1. CASE c = 0
    <3>1. f \in Clusters /\ fat[f] = 0 /\ first = f
      BY <1>1, <2>1, FreeCluster
    <3>2. f \notin X /\ X \subseteq Clusters
      BY <1>0, <3>1, UsedSectors DEF Areas
    <3>3. fat' = [fat EXCEPT ![f] = EOC]
      BY <1>1, <2>1
    <3>4. fat'[f] = EOC /\ \A x \in Clusters : x # f => fat'[x] = fat[x]
      BY <1>0, <3>1, <3>3 DEF Typed
    <3>5. Shape(fat', dir, X, R, q, n, NoSlot, 0, NoSlot)
      BY <1>2, <3>1, <3>2, <3>3, FatMark
    <3>6. Unshared(fat, dir, f, NoSlot)
      BY <1>0, <1>a, <3>1, Disk, UnsharedFree
    <3>7. Unshared(fat', dir, f, p)
      <4>1. \A x \in Clusters : fat'[x] # f
        BY <3>1, <3>4, <3>6, Disk DEF Unshared
      <4>2. NoSlot \notin LiveIn(dir)
        BY Disk DEF NoSlot, LiveIn, Slots
      <4> QED
        BY <3>6, <4>1, <4>2 DEF Unshared
    <3>8. EOC # 0
      BY Disk
    <3> QED
      BY <1>1, <3>1, <3>2, <3>4, <3>5, <3>7, <3>8
  <2>2. CASE c # 0
    <3>1. fat[c] # 0
      BY <1>1, <1>a, <1>4, <1>6, <2>2 DEF Alive
    <3> QED
      BY <1>1, <1>2, <1>6, <2>2, <3>1
  <2> QED
    BY <2>1, <2>2
<1>8. FirstIn(fat', cwd, NamedIn(dir, {nm}), p)
  <2>1. NamedIn(dir, {nm}) \subseteq Slots
    BY DEF NamedIn
  <2> QED
    BY <1>0, <1>3, <1>7, <2>1, FirstFat
<1>9. /\ job' \in JobSet /\ job'.name = nm /\ job'.first = first /\ job'.cur = first
  <2>1. nm \in AllNames /\ b \in Seq(Byte) /\ first \in Nat
    BY <1>7, DiskAssumption, Disk, NameFacts DEF AllNames
  <2> QED
    BY <1>1, <2>1, NoJobTyped DEF JobSet
<1>10. pc' \in {"entry", "data"}
  BY <1>1
<1>11. WriteJob(X, R, p)'
  BY <1>1, <1>4, <1>5, <1>7, <1>8, <1>9, <1>10 DEF WriteJob
<1>12. Odd(p)' = NoSlot /\ Dead(p)' = NoSlot /\ Unmarked' = 0
  BY <1>10 DEF Odd, Dead, Unmarked
<1>13. Good(X, R, q, n, p)'
  BY <1>0, <1>1, <1>7, <1>9, <1>10, <1>11, <1>12 DEF Good, Writing, Making, Removing
<1> QED
  BY <1>13 DEF Inv

LEMMA WriteShape ==
    ASSUME NEW X, NEW R, NEW q, NEW n, NEW e, Good(X, R, q, n, e), pc \in Writing
    PROVE  /\ Shape(fat, dir, X, R, q, n, NoSlot, Unmarked, NoSlot) /\ WriteJob(X, R, e)
           /\ job \in JobSet
<1>1. Odd(e) = NoSlot /\ Dead(e) = NoSlot
  BY DEF Writing, Odd, Dead
<1> QED
  BY <1>1 DEF Good

LEMMA WritingGood ==
    ASSUME NEW X, NEW R, NEW q, NEW n, NEW e,
           Shape(fat', dir', X, R, q, n, NoSlot, Unmarked', NoSlot), cwd' = q[n], job' \in JobSet,
           pc' \in Writing, WriteJob(X, R, e)'
    PROVE  Inv'
<1>1. Odd(e)' = NoSlot /\ Dead(e)' = NoSlot
  BY DEF Writing, Odd, Dead
<1>2. pc' \notin Making /\ pc' \notin Removing
  BY DEF Writing, Making, Removing
<1>3. Good(X, R, q, n, e)'
  BY <1>1, <1>2 DEF Good
<1> QED
  BY <1>3 DEF Inv

LEMMA WriteDataGood ==
    ASSUME NEW X, NEW R, NEW q, NEW n, NEW e, Good(X, R, q, n, e), WriteData(fat[job.cur])
    PROVE  Inv'
<1> PICK cur : cur = job.cur
  OBVIOUS
<1> PICK next : next = fat[cur]
  OBVIOUS
<1> DEFINE k == ToWrite(Len(job.buf) - job.off)
           done == job.off + k = Len(job.buf)
<1>0. cwd \in X /\ cwd = q[n] /\ (cwd \in R => cwd = Root) /\ Areas(fat, X, R) /\ Typed(fat, dir)
  BY Here
<1>1. /\ pc = "data" /\ dir' = [dir EXCEPT ![cur] = Blank] /\ fat' = fat /\ cwd' = cwd
      /\ pc' = IF done THEN "entry" ELSE IF next \in {0, EOC} THEN "link" ELSE "data"
      /\ job' = [job EXCEPT !.off = @ + k, !.cur = IF done \/ next \in {0, EOC} THEN @ ELSE next]
  BY DEF WriteData, WriteBytes
<1> HIDE DEF k, done
<1>2. pc \in Writing /\ Unmarked = 0
  BY <1>1 DEF Writing, Unmarked
<1>3. /\ Shape(fat, dir, X, R, q, n, NoSlot, 0, NoSlot) /\ WriteJob(X, R, e) /\ job \in JobSet
  BY <1>2, WriteShape
<1>4. /\ job.first \in Clusters /\ job.first \notin X /\ fat[job.first] # 0
      /\ cur \in Clusters /\ cur \notin X /\ fat[cur] # 0
      /\ e \in LiveIn(dir) /\ ~ Rec(dir, e).dir /\ Home(R, e[1]) = cwd
      /\ FirstIn(fat, cwd, NamedIn(dir, {job.name}), e)
      /\ Rec(dir, e).clus = job.first \/ Unshared(fat, dir, job.first, e)
  BY <1>3 DEF WriteJob
<1>5. /\ Shape(fat, dir', X, R, q, n, NoSlot, 0, NoSlot) /\ LiveIn(dir') = LiveIn(dir)
      /\ \A p \in Slots : p[1] # cur => Rec(dir', p) = Rec(dir, p)
      /\ \A p \in LiveIn(dir) : Rec(dir', p) = Rec(dir, p)
  <2>1. cur \in Clusters /\ cur \notin X /\ dir' = [dir EXCEPT ![cur] = Blank]
    BY <1>1, <1>4
  <2>2. Shape(fat, dir, X, R, q, n, NoSlot, 0, NoSlot)
    BY <1>3
  <2>3. Shape(fat, dir', X, R, q, n, NoSlot, 0, NoSlot) 
    BY <2>1, <2>2, SectorFile
  <2>4. SameLive(dir, dir', cur)
    BY <2>1, <2>2, SectorLive DEF Shape
  <2> QED
    BY <2>3, <2>4 DEF SameLive
<1>6. FirstIn(fat', cwd, NamedIn(dir', {job.name}), e)
  <2> PICK P : P = NamedIn(dir, {job.name})
    OBVIOUS
  <2> PICK Q : Q = NamedIn(dir', {job.name})
    OBVIOUS
  <2>1. P \subseteq Slots /\ Q \subseteq Slots
    BY DEF NamedIn
  <2>2. SameSlots(P, Q, X, R, cwd)
    <3>1. SUFFICES ASSUME NEW s \in X, NEW i \in SlotIx PROVE <<s, i>> \in P <=> <<s, i>> \in Q
      BY DEF SameSlots
    <3>2. <<s, i>> \in Slots /\ <<s, i>>[1] = s /\ s # cur
      BY <1>0, <1>4 DEF Slots, Areas
    <3>3. Rec(dir', <<s, i>>) = Rec(dir, <<s, i>>)
      BY <1>5, <3>2
    <3> QED
      BY <3>2, <3>3 DEF NamedIn
  <2>3. FirstIn(fat, cwd, P, e)
    BY <1>4
  <2>4. FirstIn(fat, cwd, Q, e)
    BY <1>0, <2>1, <2>2, <2>3, FirstDir
  <2> QED
    BY <1>1, <2>4
<1>7. Unshared(fat, dir, job.first, e) => Unshared(fat', dir', job.first, e)
  BY <1>1, <1>5 DEF Unshared
<1>8. /\ next \in Clusters \cup {0, EOC} /\ next # 0
      /\ next \in Clusters => next \notin X /\ fat[next] # 0 /\ next \in Nat
  <2>1. next \in Clusters \cup {0, EOC}
    BY <1>0, <1>4 DEF Typed
  <2>2. next \in Clusters => next # 0 /\ fat[next] # 0
    BY <1>3, <1>4, Disk DEF Shape, Alive
  <2> QED
    BY <2>1, <2>2, <1>0, <1>4, Disk DEF Areas
<1>9. /\ job' \in JobSet /\ job'.first = job.first /\ job'.name = job.name
      /\ job'.cur = IF done \/ next = EOC THEN cur ELSE next
  <2>1. k \in Int /\ job.off \in Int
    <3>1. Len(job.buf) \in Nat /\ job.off \in Int /\ SectorSize \in Nat
      BY <1>3, DiskAssumption DEF JobSet
    <3> QED
      BY <3>1 DEF ToWrite, k
  <2>2. job.off + k \in Int
    BY <2>1
  <2> PICK c1 : c1 = IF done \/ next \in {0, EOC} THEN cur ELSE next
    OBVIOUS
  <2>3. c1 \in Nat /\ c1 = IF done \/ next = EOC THEN cur ELSE next
    BY <1>4, <1>8, Disk
  <2>4. job' = [job EXCEPT !.off = job.off + k, !.cur = c1]
    BY <1>1
  <2> QED
    BY <1>3, <2>2, <2>3, <2>4 DEF JobSet
<1>10. pc' \in {"entry", "link", "data"} /\ (pc' = "link" => ~ done /\ next = EOC)
  BY <1>1, <1>8
<1>11. job'.cur \in Clusters /\ job'.cur \notin X /\ fat'[job'.cur] # 0 /\ (pc' = "link" => fat'[job'.cur] = EOC)
  BY <1>1, <1>4, <1>8, <1>9, <1>10
<1>12. WriteJob(X, R, e)'
  <2>1. e \in LiveIn(dir') /\ ~ Rec(dir', e).dir /\ Rec(dir', e).clus = Rec(dir, e).clus
    BY <1>4, <1>5
  <2> QED
    BY <1>1, <1>4, <1>6, <1>7, <1>9, <1>10, <1>11, <2>1 DEF WriteJob
<1>13. pc' \in Writing /\ Unmarked' = 0
  BY <1>10 DEF Writing, Unmarked
<1> QED
  BY <1>0, <1>1, <1>5, <1>9, <1>12, <1>13, WritingGood

LEMMA WriteLinkGood ==
    ASSUME NEW X, NEW R, NEW q, NEW n, NEW e, Good(X, R, q, n, e), WriteLink(FindFree)
    PROVE  Inv'
<1> PICK f : f = FindFree
  OBVIOUS
<1> PICK cur : cur = job.cur
  OBVIOUS
<1>0. cwd \in X /\ cwd = q[n] /\ (cwd \in R => cwd = Root) /\ Areas(fat, X, R) /\ Typed(fat, dir)
  BY Here
<1>1. /\ pc = "link" /\ f # 0 /\ fat' = [fat EXCEPT ![cur] = f] /\ pc' = "mark"
      /\ job' = [job EXCEPT !.new = f] /\ dir' = dir /\ cwd' = cwd
  BY DEF WriteLink, fat_write_entry
<1>2. pc \in Writing /\ Unmarked = 0
  BY <1>1 DEF Writing, Unmarked
<1>3. /\ Shape(fat, dir, X, R, q, n, NoSlot, 0, NoSlot) /\ WriteJob(X, R, e) /\ job \in JobSet
  BY <1>2, WriteShape
<1>4. /\ job.first \in Clusters /\ job.first \notin X /\ fat[job.first] # 0
      /\ cur \in Clusters /\ cur \notin X /\ fat[cur] = EOC
      /\ e \in LiveIn(dir) /\ ~ Rec(dir, e).dir /\ Home(R, e[1]) = cwd
      /\ FirstIn(fat, cwd, NamedIn(dir, {job.name}), e)
      /\ Rec(dir, e).clus = job.first \/ Unshared(fat, dir, job.first, e)
  BY <1>1, <1>3 DEF WriteJob
<1>5. f \in Clusters /\ fat[f] = 0 /\ f \in Nat /\ f # cur /\ f # job.first
  BY <1>1, <1>4, FreeCluster, Disk
<1>6. Shape(fat', dir, X, R, q, n, NoSlot, f, NoSlot)
  BY <1>1, <1>3, <1>4, <1>5, FatLink
<1>7. fat'[cur] = f /\ \A x \in Clusters : x # cur => fat'[x] = fat[x]
  BY <1>0, <1>1, <1>4 DEF Typed
<1>8. \A s \in X : fat'[s] = fat[s]
  BY <1>0, <1>4, <1>7 DEF Areas
<1>9. FirstIn(fat', cwd, NamedIn(dir, {job.name}), e)
  <2>1. NamedIn(dir, {job.name}) \subseteq Slots
    BY DEF NamedIn
  <2> QED
    BY <1>0, <1>4, <1>8, <2>1, FirstFat
<1>10. Unshared(fat, dir, job.first, e) => Unshared(fat', dir, job.first, e)
  BY <1>5, <1>7 DEF Unshared
<1>11. /\ job' \in JobSet /\ job'.first = job.first /\ job'.name = job.name
       /\ job'.cur = cur /\ job'.new = f
  BY <1>1, <1>3, <1>5 DEF JobSet
<1>12. WriteJob(X, R, e)'
  BY <1>1, <1>4, <1>5, <1>7, <1>9, <1>10, <1>11 DEF WriteJob
<1>13. pc' \in Writing /\ Unmarked' = f
  BY <1>1, <1>11 DEF Writing, Unmarked
<1> QED
  BY <1>0, <1>1, <1>6, <1>11, <1>12, <1>13, WritingGood

LEMMA WriteMarkGood ==
    ASSUME NEW X, NEW R, NEW q, NEW n, NEW e, Good(X, R, q, n, e), WriteMark
    PROVE  Inv'
<1> PICK f : f = job.new
  OBVIOUS
<1>0. cwd \in X /\ cwd = q[n] /\ (cwd \in R => cwd = Root) /\ Areas(fat, X, R) /\ Typed(fat, dir)
  BY Here
<1>1. /\ pc = "mark" /\ fat' = [fat EXCEPT ![f] = EOC] /\ pc' = "data"
      /\ job' = [job EXCEPT !.cur = f, !.new = 0] /\ dir' = dir /\ cwd' = cwd
  BY DEF WriteMark, fat_write_entry
<1>2. pc \in Writing /\ Unmarked = f
  BY <1>1 DEF Writing, Unmarked
<1>3. /\ Shape(fat, dir, X, R, q, n, NoSlot, f, NoSlot) /\ WriteJob(X, R, e) /\ job \in JobSet
  BY <1>2, WriteShape
<1>4. /\ job.first \in Clusters /\ job.first \notin X /\ fat[job.first] # 0
      /\ f \in Clusters /\ fat[f] = 0
      /\ e \in LiveIn(dir) /\ ~ Rec(dir, e).dir /\ Home(R, e[1]) = cwd
      /\ FirstIn(fat, cwd, NamedIn(dir, {job.name}), e)
      /\ Rec(dir, e).clus = job.first \/ Unshared(fat, dir, job.first, e)
  BY <1>1, <1>3 DEF WriteJob
<1>5. f \notin X /\ f \in Nat /\ f # job.first /\ EOC # 0 /\ EOC \notin Clusters
  BY <1>0, <1>4, UsedSectors, Disk
<1>6. Shape(fat', dir, X, R, q, n, NoSlot, 0, NoSlot)
  BY <1>1, <1>3, <1>4, <1>5, FatMark
<1>7. fat'[f] = EOC /\ \A x \in Clusters : x # f => fat'[x] = fat[x]
  BY <1>0, <1>1, <1>4 DEF Typed
<1>8. \A s \in X : fat'[s] = fat[s]
  BY <1>0, <1>5, <1>7 DEF Areas
<1>9. FirstIn(fat', cwd, NamedIn(dir, {job.name}), e)
  <2>1. NamedIn(dir, {job.name}) \subseteq Slots
    BY DEF NamedIn
  <2> QED
    BY <1>0, <1>4, <1>8, <2>1, FirstFat
<1>10. Unshared(fat, dir, job.first, e) => Unshared(fat', dir, job.first, e)
  BY <1>4, <1>5, <1>7 DEF Unshared
<1>11. /\ job' \in JobSet /\ job'.first = job.first /\ job'.name = job.name /\ job'.cur = f
  BY <1>1, <1>3, <1>5 DEF JobSet
<1>12. WriteJob(X, R, e)'
  BY <1>1, <1>4, <1>5, <1>7, <1>9, <1>10, <1>11 DEF WriteJob
<1>13. pc' \in Writing /\ Unmarked' = 0
  BY <1>1 DEF Writing, Unmarked
<1> QED
  BY <1>0, <1>1, <1>6, <1>11, <1>12, <1>13, WritingGood

LEMMA WriteNoSpaceGood ==
    ASSUME NEW X, NEW R, NEW q, NEW n, NEW e, Good(X, R, q, n, e), NEW f, WriteNoSpace(f)
    PROVE  Inv'
<1>1. /\ pc = "link" /\ pc' = "idle" /\ job' = NoJob /\ fat' = fat /\ dir' = dir /\ cwd' = cwd
  BY DEF WriteNoSpace, Return
<1>2. pc \in Writing /\ Unmarked = 0
  BY <1>1 DEF Writing, Unmarked
<1>3. Shape(fat', dir', X, R, q, n, NoSlot, 0, NoSlot) /\ cwd' = q[n]
  BY <1>1, <1>2, WriteShape, Here
<1>4. Good(X, R, q, n, e)'
  BY <1>1, <1>3, NoJobTyped, IdleGood
<1> QED
  BY <1>4 DEF Inv

LEMMA SameFirst ==
    ASSUME NEW F, NEW d, NEW P, NEW p, NEW r, FirstIn(F, d, P, p), FirstIn(F, d, P, r)
    PROVE  p = r
<1>1. PICK g : Visits(F, d, g, Last - 2)
  BY VisitsExist, Disk
<1> QED
  BY <1>1, FoundUnique DEF FirstIn

LEMMA WriteEntryGood ==
    ASSUME NEW X, NEW R, NEW q, NEW n, NEW e, Good(X, R, q, n, e), WriteEntry
    PROVE  Inv'
<1> PICK p : p = EntryNamed(cwd, job.name)
  OBVIOUS
<1> PICK en : en = [Rec(dir, p) EXCEPT !.size = Len(job.buf), !.clus = job.first]
  OBVIOUS
<1>0. cwd \in X /\ cwd = q[n] /\ (cwd \in R => cwd = Root) /\ Areas(fat, X, R) /\ Typed(fat, dir)
  BY Here
<1>1. /\ pc = "entry" /\ (p # NoSlot => dir' = [dir EXCEPT ![p[1]][p[2]] = en])
      /\ fat' = fat /\ cwd' = cwd /\ pc' = "idle" /\ job' = NoJob
  BY NamedSame DEF WriteEntry, WriteSlot, Return
<1>2. pc \in Writing /\ Unmarked = 0
  BY <1>1 DEF Writing, Unmarked
<1>3. /\ Shape(fat, dir, X, R, q, n, NoSlot, 0, NoSlot) /\ WriteJob(X, R, e) /\ job \in JobSet
  BY <1>2, WriteShape
<1>4. /\ job.first \in Clusters /\ job.first \notin X /\ fat[job.first] # 0
      /\ e \in LiveIn(dir) /\ ~ Rec(dir, e).dir /\ Home(R, e[1]) = cwd
      /\ FirstIn(fat, cwd, NamedIn(dir, {job.name}), e)
      /\ Rec(dir, e).clus = job.first \/ Unshared(fat, dir, job.first, e)
  BY <1>1, <1>3 DEF WriteJob
<1>5. p = e
  <2>1. FirstIn(fat, cwd, NamedIn(dir, {job.name}), p)
    BY <1>0, EntrySearch
  <2> QED
    BY <1>4, <2>1, SameFirst
<1>6. e \in Slots /\ e[1] \in X /\ e # NoSlot
  BY <1>3, <1>4, Disk DEF Shape, Layout, LiveIn, Slots, NoSlot
<1>7. Rec(dir, e) \in EntrySet
  BY <1>0, <1>6, RecTyped
<1>8. /\ en \in EntrySet /\ en.name = Rec(dir, e).name /\ ~ en.dir /\ en.clus = job.first
  <2>1. Len(job.buf) \in Nat /\ job.first \in Nat
    BY <1>3 DEF JobSet
  <2> QED
    BY <1>4, <1>5, <1>7, <2>1 DEF EntrySet
<1>9. en.name \in Names /\ en.name \notin DirNames
  BY <1>3, <1>4, <1>8 DEF Shape, Layout, LiveIn
<1>10. Suits(fat, dir, X, R, cwd, e, en)
  <2>1. WellNamed(en) /\ en.name \notin Dots /\ en.name # Unused
    BY <1>8, <1>9, NameFacts DEF WellNamed
  <2> QED
    BY <1>4, <1>6, <2>1, LiveSuits
<1>11. Refers(fat, dir, X, R, e, en, NoSlot, NoSlot)
  <2>1. Unshared(fat, dir, job.first, e)
    BY <1>3, <1>4, UnsharedOwn DEF Shape
  <2>2. job.first # Root
    BY <1>0, <1>4 DEF Areas
  <2> QED
    BY <1>4, <1>8, <2>1, <2>2 DEF Refers
<1>12. Suits(fat, dir, X, R, q[n], e, en) /\ dir' = [dir EXCEPT ![e[1]][e[2]] = en]
  BY <1>0, <1>1, <1>5, <1>6, <1>10
<1>13. Shape(fat, dir', X, R, q, n, NoSlot, 0, NoSlot)
  BY <1>3, <1>6, <1>8, <1>11, <1>12, SlotShape
<1>14. Good(X, R, q, n, e)'
  BY <1>0, <1>1, <1>13, NoJobTyped, IdleGood
<1> QED
  BY <1>14 DEF Inv

-----------------------------------------------------------------------------
(* fat32_mkdir                                                             *)

LEMMA BeforeTransitive ==
    ASSUME NEW x, NEW y, NEW z, x[1] \in Nat, x[2] \in Nat, y[1] \in Nat, y[2] \in Nat,
           z[1] \in Nat, z[2] \in Nat, Before(x, y), Before(y, z)
    PROVE  Before(x, z)
BY DEF Before

(* The entry that mkdir makes is the one that it finds again.              *)
LEMMA FirstNew ==
    ASSUME NEW F, NEW D, NEW D1, NEW d, NEW v \in Slots, NEW en, Written(D, D1, v, en), NEW nm,
           FirstIn(F, d, NamedIn(D, {Unused, Deleted}), v), Rec(D, v).name \in {Unused, Deleted},
           NEW r, FirstIn(F, d, NamedIn(D, {nm, Unused}), r), r = NoSlot \/ Rec(D, r).name # nm,
           en.name = nm, en.dir
    PROVE  FirstIn(F, d, DirsIn(D1, nm), v)
<1>1. SUFFICES ASSUME NEW g, Visits(F, d, g, Last - 2) PROVE Found(g, DirsIn(D1, nm), v)
  BY DEF FirstIn
<1> PICK V : V = NamedIn(D, {Unused, Deleted})
  OBVIOUS
<1> PICK P : P = NamedIn(D, {nm, Unused})
  OBVIOUS
<1> PICK Q : Q = DirsIn(D1, nm)
  OBVIOUS
<1>2. Found(g, V, v) /\ Found(g, P, r)
  BY <1>1 DEF FirstIn
<1>3. V \subseteq Slots /\ P \subseteq Slots /\ Q \subseteq Slots /\ v \in V /\ v # NoSlot
  <2>1. V \subseteq Slots /\ P \subseteq Slots /\ Q \subseteq Slots /\ v \in V
    BY DEF NamedIn, DirsIn
  <2>2. NoSlot \notin Slots
    BY Disk DEF NoSlot, Slots
  <2> QED
    BY <2>1, <2>2
<1>4. v \in Q
  BY DEF Written, DirsIn, NamedIn
<1>5. PICK h \in Hits(g, V) : v = <<g[h[1]], h[2]>> /\ \A y \in Hits(g, V) : Before(h, y)
  <2>1. Hits(g, V) # {}
    BY <1>2, <1>3 DEF Found
  <2> QED
    BY <1>2, <2>1 DEF Found, IsFirst
<1>6. h \in Hits(g, Q)
  BY <1>4, <1>5 DEF Hits
<1>7. ASSUME NEW W, NEW y \in Hits(g, W) PROVE y[1] \in Nat /\ y[2] \in Nat
  BY Disk DEF Hits
<1>8. ASSUME NEW y \in Hits(g, Q) PROVE Before(h, y)
  <2> PICK s : s = <<g[y[1]], y[2]>>
    OBVIOUS
  <2>1. s \in Q /\ y \in (0..(Last - 2)) \X SlotIx
    BY DEF Hits
  <2>2. CASE s = v
    <3>1. y \in Hits(g, V)
      BY <1>3, <2>1, <2>2 DEF Hits
    <3> QED
      BY <1>5, <3>1
  <2>3. CASE s # v
    <3>1. s \in Slots /\ Rec(D1, s).name = nm
      BY <2>1 DEF DirsIn, NamedIn
    <3>2. Rec(D1, s) = Rec(D, s)
      BY <2>3, <3>1 DEF Written
    <3>3. s \in P
      BY <3>1, <3>2 DEF NamedIn
    <3>4. y \in Hits(g, P)
      BY <2>1, <3>3 DEF Hits
    <3>5. PICK j \in Hits(g, P) : r = <<g[j[1]], j[2]>> /\ \A x \in Hits(g, P) : Before(j, x)
      BY <1>2, <3>4 DEF Found, IsFirst
    <3>6. r \in P /\ r \in Slots
      BY <1>3, <3>5 DEF Hits
    <3>7. r # NoSlot
      BY <3>6, Disk DEF NoSlot, Slots
    <3>8. r \in V
      BY <3>6, <3>7 DEF NamedIn
    <3>9. j \in Hits(g, V)
      BY <3>5, <3>8 DEF Hits
    <3>10. Before(h, j) /\ Before(j, y)
      BY <1>5, <3>4, <3>5, <3>9
    <3> QED
      BY <1>7, <3>4, <3>9, <3>10, BeforeTransitive
  <2> QED
    BY <2>2, <2>3
<1>9. Found(g, Q, v)
  BY <1>5, <1>6, <1>8 DEF Found, IsFirst
<1> QED
  BY <1>9

LEMMA MkdirGood ==
    ASSUME NEW X, NEW R, NEW q, NEW n, NEW e, Good(X, R, q, n, e),
           NEW nm \in DirNames, fat32_mkdir(nm, FindFree)
    PROVE  Inv'
<1> PICK v : v = VacantSlot(cwd)
  OBVIOUS
<1> PICK f : f = FindFree
  OBVIOUS
<1> PICK en : en = NewEntry(nm, TRUE)
  OBVIOUS
<1>0. cwd \in X /\ cwd = q[n] /\ (cwd \in R => cwd = Root) /\ Areas(fat, X, R) /\ Typed(fat, dir)
  BY Here
<1>1. /\ pc = "idle" /\ f # 0 /\ find_entry(cwd, nm) = NoSlot
      /\ v # NoSlot /\ dir' = [dir EXCEPT ![v[1]][v[2]] = en]
      /\ pc' = "mkset" /\ job' = [NoJob EXCEPT !.name = nm, !.new = f]
      /\ fat' = fat /\ cwd' = cwd
  BY DEF fat32_mkdir, create_entry_at, WriteSlot, Idle
<1>2. /\ FirstIn(fat, cwd, NamedIn(dir, {Unused, Deleted}), v)
      /\ Rec(dir, v).name \in {Unused, Deleted} /\ InDir(X, R, cwd, v)
  BY <1>0, <1>1, VacantSearch
<1>3. en \in EntrySet /\ en.name = nm /\ en.clus = 0
  BY NameFacts DEF NewEntry, EntrySet, AllNames
<1>a. en.dir
  BY DEF NewEntry
<1>4. nm \in Names /\ nm \notin Dots /\ nm # Unused
  BY NameFacts
<1>5. Suits(fat, dir, X, R, q[n], v, en)
  BY <1>0, <1>2, <1>3, <1>a, <1>4, NameFacts DEF Suits, WellNamed, InDir
<1>6. Refers(fat, dir, X, R, v, en, v, NoSlot)
  BY <1>3, <1>a, Disk DEF Refers
<1>7. v \in Slots /\ Home(R, v[1]) = cwd
  BY <1>2 DEF InDir
<1>8. Shape(fat, dir, X, R, q, n, NoSlot, 0, NoSlot)
  BY <1>1, IdleShape
<1>9. Shape(fat, dir', X, R, q, n, v, 0, NoSlot)
  BY <1>1, <1>3, <1>5, <1>6, <1>7, <1>8, SlotShape
<1>10. Written(dir, dir', v, en)
  BY <1>0, <1>1, <1>3, <1>7, SlotWritten DEF Typed
<1>11. Rec(dir', v) = en /\ v \in LiveIn(dir')
  <2>1. Rec(dir', v) = en
    BY <1>7, <1>10 DEF Written
  <2> QED
    BY <1>3, <1>4, <1>7, <2>1 DEF LiveIn
<1>12. FirstIn(fat, cwd, DirsIn(dir', nm), v)
  <2>1. PICK r : /\ FirstIn(fat, cwd, NamedIn(dir, {nm, Unused}), r)
                 /\ r = NoSlot \/ Rec(dir, r).name # nm
    <3>1. Absent(fat, dir, cwd, nm)
      BY <1>0, <1>1, FindNone
    <3> QED
      BY <3>1 DEF Absent
  <2> QED
    BY <1>2, <1>3, <1>a, <1>7, <1>10, <2>1, FirstNew
<1>13. f \in Clusters /\ fat[f] = 0 /\ f \in Nat
  BY <1>1, FreeCluster, Disk
<1>14. job' \in JobSet /\ job'.name = nm /\ job'.new = f
  <2>1. nm \in AllNames
    BY <1>4 DEF AllNames
  <2> QED
    BY <1>1, <1>13, <2>1, NoJobTyped DEF JobSet
<1>15. MakeJob(X, R, v)'
  BY <1>1, <1>3, <1>a, <1>7, <1>11, <1>12, <1>13, <1>14 DEF MakeJob
<1>16. Odd(v)' = v /\ Dead(v)' = NoSlot /\ Unmarked' = 0
  BY <1>1 DEF Odd, Dead, Unmarked
<1>17. pc' \notin Writing /\ pc' \in Making /\ pc' \notin Removing
  BY <1>1 DEF Writing, Making, Removing
<1>18. Good(X, R, q, n, v)'
  BY <1>0, <1>1, <1>9, <1>14, <1>15, <1>16, <1>17 DEF Good
<1> QED
  BY <1>18 DEF Inv

LEMMA MkdirSetGood ==
    ASSUME NEW X, NEW R, NEW q, NEW n, NEW e, Good(X, R, q, n, e), MkdirSet
    PROVE  Inv'
<1> PICK p : p = DirNamed(cwd, job.name)
  OBVIOUS
<1> PICK f : f = job.new
  OBVIOUS
<1> PICK en : en = [Rec(dir, p) EXCEPT !.clus = f]
  OBVIOUS
<1>0. cwd \in X /\ cwd = q[n] /\ (cwd \in R => cwd = Root) /\ Areas(fat, X, R) /\ Typed(fat, dir)
  BY Here
<1>1. /\ pc = "mkset" /\ dir' = [dir EXCEPT ![p[1]][p[2]] = en]
      /\ fat' = fat /\ cwd' = cwd /\ pc' = "mkmark" /\ job' = job
  BY NamedSame DEF MkdirSet, WriteSlot
<1>2. Odd(e) = e /\ Dead(e) = NoSlot /\ Unmarked = 0 /\ pc \in Making
  BY <1>1 DEF Odd, Dead, Unmarked, Making
<1>3. Shape(fat, dir, X, R, q, n, e, 0, NoSlot) /\ job \in JobSet /\ MakeJob(X, R, e)
  BY <1>2 DEF Good
<1>4. /\ f \in Clusters /\ fat[f] = 0
      /\ e \in LiveIn(dir) /\ Rec(dir, e).dir /\ Home(R, e[1]) = cwd
      /\ FirstIn(fat, cwd, DirsIn(dir, job.name), e)
  BY <1>1, <1>3 DEF MakeJob
<1>5. p = e
  <2>1. FirstIn(fat, cwd, DirsIn(dir, job.name), p)
    BY <1>0, DirNamedSearch
  <2> QED
    BY <1>4, <2>1, SameFirst
<1>6. e \in Slots /\ e[1] \in X /\ Rec(dir, e).name \in DirNames
  BY <1>3, <1>4 DEF Shape, Layout, LiveIn
<1>7. Rec(dir, e) \in EntrySet
  BY <1>0, <1>6, RecTyped
<1>8. en \in EntrySet /\ en.name = Rec(dir, e).name /\ en.clus = f
  <2>1. f \in Nat
    BY <1>4, Disk
  <2> QED
    BY <1>5, <1>7, <2>1 DEF EntrySet
<1>9. en.dir
  BY <1>4, <1>5, <1>7 DEF EntrySet
<1>10. Suits(fat, dir, X, R, cwd, e, en)
  <2>1. WellNamed(en) /\ en.name \notin Dots /\ en.name # Unused
    BY <1>6, <1>8, <1>9, NameFacts DEF WellNamed
  <2> QED
    BY <1>4, <1>6, <2>1, LiveSuits
<1>11. Unshared(fat, dir, f, e) /\ f # Root
  <2>1. Unshared(fat, dir, f, NoSlot)
    <3>1. Alive(fat, dir, 0, NoSlot) /\ 0 # f
      BY <1>3, <1>4, Disk DEF Shape
    <3> QED
      BY <1>0, <1>4, <3>1, UnsharedFree
  <2>2. NoSlot \notin LiveIn(dir)
    BY Disk DEF NoSlot, LiveIn, Slots
  <2>3. f \notin X
    BY <1>0, <1>4, UsedSectors
  <2> QED
    BY <1>0, <2>1, <2>2, <2>3 DEF Unshared, Areas
<1>12. Refers(fat, dir, X, R, e, en, e, e)
  BY <1>8, <1>9, <1>11 DEF Refers
<1>13. Suits(fat, dir, X, R, q[n], e, en) /\ dir' = [dir EXCEPT ![e[1]][e[2]] = en]
  BY <1>0, <1>1, <1>5, <1>10
<1>14. Shape(fat, dir', X, R, q, n, e, 0, e)
  BY <1>3, <1>6, <1>8, <1>12, <1>13, SlotShape
<1>15. Written(dir, dir', e, en)
  BY <1>0, <1>6, <1>8, <1>13, SlotWritten DEF Typed
<1>16. Rec(dir', e) = en /\ e \in LiveIn(dir')
  BY <1>6, <1>8, <1>15, NameFacts DEF Written, LiveIn
<1>17. MakeJob(X, R, e)'
  BY <1>1, <1>4, <1>8, <1>9, <1>16 DEF MakeJob
<1>18. Odd(e)' = e /\ Dead(e)' = e /\ Unmarked' = 0
  BY <1>1 DEF Odd, Dead, Unmarked
<1>19. pc' \notin Writing /\ pc' \in Making /\ pc' \notin Removing
  BY <1>1 DEF Writing, Making, Removing
<1>20. Good(X, R, q, n, e)'
  BY <1>0, <1>1, <1>3, <1>14, <1>17, <1>18, <1>19 DEF Good
<1> QED
  BY <1>20 DEF Inv

LEMMA MkdirMarkGood ==
    ASSUME NEW X, NEW R, NEW q, NEW n, NEW e, Good(X, R, q, n, e), MkdirMark
    PROVE  Inv'
<1> PICK f : f = job.new
  OBVIOUS
<1>0. cwd \in X /\ cwd = q[n] /\ (cwd \in R => cwd = Root) /\ Areas(fat, X, R) /\ Typed(fat, dir)
  BY Here
<1>1. /\ pc = "mkmark" /\ fat' = [fat EXCEPT ![f] = EOC]
      /\ dir' = dir /\ cwd' = cwd /\ pc' = "mkinit" /\ job' = job
  BY DEF MkdirMark, fat_write_entry
<1>2. Odd(e) = e /\ Dead(e) = e /\ Unmarked = 0 /\ pc \in Making
  BY <1>1 DEF Odd, Dead, Unmarked, Making
<1>3. Shape(fat, dir, X, R, q, n, e, 0, e) /\ job \in JobSet /\ MakeJob(X, R, e)
  BY <1>2 DEF Good
<1>4. /\ f \in Clusters /\ fat[f] = 0 /\ Rec(dir, e).clus = f
  BY <1>1, <1>3 DEF MakeJob
<1>5. f \notin X
  BY <1>0, <1>4, UsedSectors
<1>6. Shape(fat', dir, X, R, q, n, e, 0, NoSlot)
  BY <1>1, <1>3, <1>4, <1>5, FatMark
<1>7. fat'[f] = EOC
  BY <1>0, <1>1, <1>4 DEF Typed
<1>8. MakeJob(X, R, e)'
  BY <1>1, <1>3, <1>4, <1>5, <1>7 DEF MakeJob
<1>9. Odd(e)' = e /\ Dead(e)' = NoSlot /\ Unmarked' = 0
  BY <1>1 DEF Odd, Dead, Unmarked
<1>10. pc' \notin Writing /\ pc' \in Making /\ pc' \notin Removing
  BY <1>1 DEF Writing, Making, Removing
<1>11. Good(X, R, q, n, e)'
  BY <1>0, <1>1, <1>3, <1>6, <1>8, <1>9, <1>10 DEF Good
<1> QED
  BY <1>11 DEF Inv

LEMMA MkdirInitGood ==
    ASSUME NEW X, NEW R, NEW q, NEW n, NEW e, Good(X, R, q, n, e), MkdirInit
    PROVE  Inv'
<1> PICK f : f = job.new
  OBVIOUS
<1> PICK X1 : X1 = X \cup {f}
  OBVIOUS
<1>0. cwd = q[n]
  BY Here
<1>1. /\ pc = "mkinit" /\ dir' = [dir EXCEPT ![f] = DotEntries(f, q[n])]
      /\ fat' = fat /\ cwd' = cwd /\ pc' = "idle" /\ job' = NoJob
  BY <1>0 DEF MkdirInit, Return
<1>2. Odd(e) = e /\ Dead(e) = NoSlot /\ Unmarked = 0 /\ pc \in Making
  BY <1>1 DEF Odd, Dead, Unmarked, Making
<1>3. Shape(fat, dir, X, R, q, n, e, 0, NoSlot) /\ MakeJob(X, R, e)
  BY <1>2 DEF Good
<1>4. /\ f \in Clusters /\ f \notin X /\ fat[f] = EOC
      /\ e \in LiveIn(dir) /\ Rec(dir, e).dir /\ Rec(dir, e).clus = f /\ Home(R, e[1]) = q[n]
  BY <1>0, <1>1, <1>3 DEF MakeJob
<1>5. Shape(fat, dir', X1, R, q, n, NoSlot, 0, NoSlot)
  BY <1>1, <1>3, <1>4, SectorDir
<1>6. Good(X1, R, q, n, e)'
  BY <1>0, <1>1, <1>5, NoJobTyped, IdleGood
<1> QED
  BY <1>6 DEF Inv

-----------------------------------------------------------------------------
(* fat32_rmdir                                                             *)

(* No directory of the path is one that the current directory has an entry *)
(* of.                                                                     *)
LEMMA NotOnPath ==
    ASSUME NEW F, NEW D, NEW X, NEW R, NEW q, NEW n, Path(F, D, X, R, q, n), Single(F, D),
           Areas(F, X, R), NEW p \in LiveIn(D), Home(R, p[1]) = q[n],
           NEW c \in X, c \notin R, Rec(D, p).clus = c
    PROVE  \A i \in 1..n : q[i] # c
<1>0. c \in Clusters /\ Root \in R /\ n \in Nat
  BY DEF Areas, Path
<1>1. SUFFICES ASSUME NEW i \in 1..n, q[i] = c PROVE FALSE
  OBVIOUS
<1>2. i # 1
  BY <1>0, <1>1 DEF Path
<1>3. i - 1 \in 1..n /\ n \in 1..n /\ i - 1 # n /\ (i - 1) + 1 = i
  BY <1>0, <1>1, <1>2
<1>4. PICK r : Leads(F, D, R, q[i - 1], r) /\ Rec(D, r).clus = q[(i - 1) + 1]
  BY <1>3 DEF Path
<1>5. r \in LiveIn(D) /\ Home(R, r[1]) = q[i - 1] /\ Rec(D, r).clus = c
  BY <1>1, <1>3, <1>4 DEF Leads
<1>6. r = p
  BY <1>0, <1>5 DEF Single
<1>7. q[i - 1] = q[n]
  BY <1>5, <1>6
<1> QED
  BY <1>3, <1>7 DEF Path

LEMMA RmdirGood ==
    ASSUME NEW X, NEW R, NEW q, NEW n, NEW e, Good(X, R, q, n, e),
           NEW nm \in DirNames, fat32_rmdir(nm)
    PROVE  Inv'
<1> PICK p : p = EntryNamed(cwd, nm)
  OBVIOUS
<1> PICK c : c = Rec(dir, p).clus
  OBVIOUS
<1>0. cwd \in X /\ cwd = q[n] /\ (cwd \in R => cwd = Root) /\ Areas(fat, X, R) /\ Typed(fat, dir)
  BY Here
<1>1. /\ pc = "idle" /\ p # NoSlot /\ (c # 0 => IsEmpty(c))
      /\ pc' = (IF c # 0 THEN "free" ELSE "erase")
      /\ job' = [NoJob EXCEPT !.slot = p, !.cur = c]
      /\ fat' = fat /\ dir' = dir /\ cwd' = cwd
  BY NamedSame DEF fat32_rmdir, Idle
<1>2. Rec(dir, p).dir
  BY NamedSame DEF fat32_rmdir
<1>3. Rec(dir, p).name = nm /\ InDir(X, R, cwd, p)
  BY <1>0, <1>1, EntrySearch
<1>4. nm \in Names
  BY NameAssumption DEF Names
<1>5. p \in LiveIn(dir) /\ p \in Slots /\ Home(R, p[1]) = cwd
  BY <1>3, <1>4 DEF InDir, LiveIn
<1>6. Shape(fat, dir, X, R, q, n, NoSlot, 0, NoSlot)
  BY <1>1, IdleShape
<1>7. c \in X /\ c \notin R
  BY <1>1, <1>2, <1>5, <1>6 DEF Shape, Kinds
<1>8. c \in Nat /\ c # 0 /\ p \in Nat \X Nat
  BY <1>0, <1>5, <1>7, Disk DEF Areas, Slots
<1>9. \A i \in 1..n : q[i] # c
  BY <1>0, <1>5, <1>6, <1>7, NotOnPath DEF Shape
<1>10. \A i \in SlotIx : dir[c][i].name \notin Names
  <2>1. TAKE i \in SlotIx
  <2>2. dir[c][0].name = "." /\ dir[c][1].name = ".."
    BY <1>6, <1>7 DEF Shape, Layout
  <2>3. i >= 2 => dir[c][i].name \in {Unused, Deleted}
    BY <1>1, <1>8 DEF IsEmpty
  <2>4. i = 0 \/ i = 1 \/ i >= 2
    BY Disk
  <2> QED
    BY <2>2, <2>3, <2>4, NameFacts
<1>11. job' \in JobSet /\ job'.slot = p /\ job'.cur = c
  BY <1>1, <1>8, NoJobTyped DEF JobSet
<1>12. pc' = "free"
  BY <1>1, <1>8
<1>13. RemoveJob(X, R, q, n, p)'
  BY <1>1, <1>5, <1>7, <1>9, <1>10, <1>11 DEF RemoveJob
<1>14. Odd(p)' = NoSlot /\ Dead(p)' = NoSlot /\ Unmarked' = 0
  BY <1>12 DEF Odd, Dead, Unmarked
<1>15. pc' \notin Writing /\ pc' \notin Making /\ pc' \in Removing
  BY <1>12 DEF Writing, Making, Removing
<1>16. Good(X, R, q, n, p)'
  BY <1>0, <1>1, <1>6, <1>11, <1>13, <1>14, <1>15 DEF Good
<1> QED
  BY <1>16 DEF Inv

LEMMA RmdirFreeGood ==
    ASSUME NEW X, NEW R, NEW q, NEW n, NEW e, Good(X, R, q, n, e), RmdirFree(fat[job.cur])
    PROVE  Inv'
<1> PICK c : c = job.cur
  OBVIOUS
<1> PICK X1 : X1 = X \ {c}
  OBVIOUS
<1>0. cwd = q[n] /\ Areas(fat, X, R) /\ Typed(fat, dir)
  BY Here
<1>1. /\ pc = "free" /\ fat' = [fat EXCEPT ![c] = 0]
      /\ pc' = (IF fat[c] \in Clusters THEN "free" ELSE "erase")
      /\ job' = [job EXCEPT !.cur = fat[c]]
      /\ dir' = dir /\ cwd' = cwd
  BY DEF RmdirFree, fat_write_entry
<1>2. Odd(e) = NoSlot /\ Dead(e) = NoSlot /\ Unmarked = 0 /\ pc \in Removing
  BY <1>1 DEF Odd, Dead, Unmarked, Removing
<1>3. Shape(fat, dir, X, R, q, n, NoSlot, 0, NoSlot) /\ job \in JobSet /\ RemoveJob(X, R, q, n, e)
  BY <1>2 DEF Good
<1>4. /\ job.slot = e /\ e \in LiveIn(dir) /\ Home(R, e[1]) = cwd
      /\ Rec(dir, e).clus = c /\ c \in X /\ c \notin R
      /\ \A i \in 1..n : q[i] # c
      /\ \A i \in SlotIx : dir[c][i].name \notin Names
  BY <1>1, <1>3 DEF RemoveJob
<1>5. fat[c] = EOC /\ EOC \notin Clusters /\ EOC \in Nat
  BY <1>0, <1>4, Disk DEF Areas
<1>6. Shape(fat', dir, X1, R, q, n, e, 0, e)
  BY <1>1, <1>3, <1>4, FatFree
<1>7. job' \in JobSet /\ job'.slot = e
  BY <1>1, <1>3, <1>4, <1>5 DEF JobSet
<1>8. pc' = "erase"
  BY <1>1, <1>5
<1>9. RemoveJob(X1, R, q, n, e)'
  BY <1>1, <1>4, <1>7, <1>8 DEF RemoveJob
<1>10. Odd(e)' = e /\ Dead(e)' = e /\ Unmarked' = 0
  BY <1>8 DEF Odd, Dead, Unmarked
<1>11. pc' \notin Writing /\ pc' \notin Making /\ pc' \in Removing
  BY <1>8 DEF Writing, Making, Removing
<1>12. Good(X1, R, q, n, e)'
  BY <1>0, <1>1, <1>6, <1>7, <1>9, <1>10, <1>11 DEF Good
<1> QED
  BY <1>12 DEF Inv

LEMMA RmdirEraseGood ==
    ASSUME NEW X, NEW R, NEW q, NEW n, NEW e, Good(X, R, q, n, e), RmdirErase
    PROVE  Inv'
<1> PICK en : en = [Rec(dir, e) EXCEPT !.name = Deleted]
  OBVIOUS
<1>0. cwd = q[n] /\ Typed(fat, dir)
  BY Here
<1>1. pc = "erase"
  BY DEF RmdirErase
<1>2. Odd(e) = e /\ Dead(e) = e /\ Unmarked = 0 /\ pc \in Removing
  BY <1>1 DEF Odd, Dead, Unmarked, Removing
<1>3. Shape(fat, dir, X, R, q, n, e, 0, e) /\ RemoveJob(X, R, q, n, e)
  BY <1>2 DEF Good
<1>4. job.slot = e /\ e \in LiveIn(dir) /\ Home(R, e[1]) = q[n]
  BY <1>0, <1>3 DEF RemoveJob
<1>5. /\ dir' = [dir EXCEPT ![e[1]][e[2]] = en]
      /\ fat' = fat /\ cwd' = cwd /\ pc' = "idle" /\ job' = NoJob
  BY <1>4, NamedSame DEF RmdirErase, WriteSlot, Erase, Return
<1>6. e \in Slots /\ e[1] \in X
  BY <1>3, <1>4 DEF Shape, Layout, LiveIn
<1>7. en \in EntrySet /\ en.name = Deleted
  <2>1. Rec(dir, e) \in EntrySet
    BY <1>0, <1>6, RecTyped
  <2> QED
    BY <2>1 DEF EntrySet, AllNames
<1>8. Suits(fat, dir, X, R, q[n], e, en)
  BY <1>4, <1>6, <1>7, NameFacts, LiveSuits DEF WellNamed
<1>9. Refers(fat, dir, X, R, e, en, NoSlot, NoSlot)
  BY <1>7, NameFacts DEF Refers
<1>10. Shape(fat, dir', X, R, q, n, NoSlot, 0, NoSlot)
  BY <1>3, <1>5, <1>6, <1>7, <1>8, <1>9, SlotShape
<1>11. Good(X, R, q, n, e)'
  BY <1>0, <1>5, <1>10, NoJobTyped, IdleGood
<1> QED
  BY <1>11 DEF Inv

-----------------------------------------------------------------------------
(* Every step                                                              *)

LEMMA CallGood ==
    ASSUME NEW X, NEW R, NEW q, NEW n, NEW e, Good(X, R, q, n, e), Call
    PROVE  Inv'
<1>1. ASSUME NEW nm \in FileNames, fat32_create_file(nm) PROVE Inv'
  BY <1>1, CreateGood DEF Inv
<1>2. ASSUME NEW nm \in Names, fat32_delete_file(nm) PROVE Inv'
  BY <1>2, DeleteGood DEF Inv
<1>3. ASSUME NEW o \in FileNames, NEW nm \in FileNames, fat32_rename(o, nm) PROVE Inv'
  <2>1. o \in Names /\ nm \in Names /\ (o \in DirNames <=> nm \in DirNames)
    BY <1>3, NameAssumption DEF Names
  <2> QED
    BY <1>3, <2>1, RenameGood DEF Inv
<1>4. ASSUME NEW o \in DirNames, NEW nm \in DirNames, fat32_rename(o, nm) PROVE Inv'
  <2>1. o \in Names /\ nm \in Names /\ (o \in DirNames <=> nm \in DirNames)
    BY <1>4 DEF Names
  <2> QED
    BY <1>4, <2>1, RenameGood DEF Inv
<1>5. ASSUME NEW nm \in Names \cup Dots, NEW a \in BOOLEAN, fat32_change_dir(nm, a) PROVE Inv'
  BY <1>5, ChangeDirGood
<1>6. ASSUME NEW nm \in FileNames, NEW b \in Buffers, fat32_write_file(nm, b, FindFree) PROVE Inv'
  BY <1>6, WriteFileGood
<1>7. ASSUME NEW nm \in DirNames, fat32_mkdir(nm, FindFree) PROVE Inv'
  BY <1>7, MkdirGood
<1>8. ASSUME NEW nm \in DirNames, fat32_rmdir(nm) PROVE Inv'
  BY <1>8, RmdirGood
<1> QED
  BY <1>1, <1>2, <1>3, <1>4, <1>5, <1>6, <1>7, <1>8 DEF Call

LEMMA StepGood ==
    ASSUME NEW X, NEW R, NEW q, NEW n, NEW e, Good(X, R, q, n, e), Step
    PROVE  Inv'
<1>1. CASE WriteData(fat[job.cur])
  BY <1>1, WriteDataGood
<1>2. CASE WriteLink(FindFree)
  BY <1>2, WriteLinkGood
<1>3. CASE WriteMark
  BY <1>3, WriteMarkGood
<1>4. CASE WriteNoSpace(FindFree)
  BY <1>4, WriteNoSpaceGood
<1>5. CASE WriteEntry
  BY <1>5, WriteEntryGood
<1>6. CASE MkdirSet
  BY <1>6, MkdirSetGood
<1>7. CASE MkdirMark
  BY <1>7, MkdirMarkGood
<1>8. CASE MkdirInit
  BY <1>8, MkdirInitGood
<1>9. CASE RmdirFree(fat[job.cur])
  BY <1>9, RmdirFreeGood
<1>10. CASE RmdirErase
  BY <1>10, RmdirEraseGood
<1> QED
  BY <1>1, <1>2, <1>3, <1>4, <1>5, <1>6, <1>7, <1>8, <1>9, <1>10 DEF Step

LEMMA ProperGood == Inv /\ [Proper]_disk => Inv'
<1>1. SUFFICES ASSUME Inv, [Proper]_disk PROVE Inv'
  OBVIOUS
<1>2. PICK X, R, q, n, e : Good(X, R, q, n, e)
  BY <1>1 DEF Inv
<1>3. CASE Call
  BY <1>2, <1>3, CallGood
<1>4. CASE Step
  BY <1>2, <1>4, StepGood
<1>5. CASE Restart
  BY <1>2, <1>5, RestartGood
<1>6. CASE UNCHANGED disk
  <2>1. fat' = fat /\ dir' = dir /\ cwd' = cwd /\ pc' = pc /\ job' = job
    BY <1>6 DEF disk
  <2>2. Good(X, R, q, n, e)'
    BY <1>2, <2>1 DEF Good, Odd, Dead, Unmarked, WriteJob, MakeJob, RemoveJob
  <2> QED
    BY <2>2 DEF Inv
<1> QED
  BY <1>1, <1>3, <1>4, <1>5, <1>6 DEF Proper

(* As long as nothing has been misused, the steps are the proper ones.     *)
LEMMA NotMisused == [Next]_vars /\ ~ misused' => ~ misused /\ [Proper]_disk
BY DEF Next, vars, disk

(* The shape of the disk: at every write of every operation the sectors of *)
(* directories, the chains and the entries are as Good says, for some set  *)
(* of directory sectors and some path to the current directory, until a    *)
(* caller misuses the driver.                                              *)
THEOREM DiskInvariant == Spec => [](misused \/ Inv)
<1>1. Init => misused \/ Inv
  BY InitGood
<1>2. (misused \/ Inv) /\ [Next]_vars => (misused \/ Inv)'
  BY ProperGood, NotMisused
<1> QED
  BY <1>1, <1>2, PTL DEF Spec

-----------------------------------------------------------------------------
(* What the invariant implies                                              *)

(* At every write of every operation, at most one link of the FAT or one   *)
(* entry of a directory leads to a cluster, and none to the root           *)
(* directory: write_chain and mkdir take a cluster that nothing leads to,  *)
(* also while one that they took is not marked yet.                        *)
THEOREM ClustersHaveOneOwner == Spec => []NoCrossLink
<1>1. Inv => NoCrossLink
  <2>1. SUFFICES ASSUME NEW X, NEW R, NEW q, NEW n, NEW e, Good(X, R, q, n, e) PROVE NoCrossLink
    BY DEF Inv
  <2>2. Single(fat, dir)
    BY <2>1 DEF Good, Shape
  <2>3. Entries = LiveIn(dir) /\ \A p : At(p) = Rec(dir, p)
    BY NamedSame
  <2>4. \A p \in LiveIn(dir) : p \in Slots /\ p[2] \in Nat
    BY Disk DEF LiveIn, Slots
  <2>5. \A c, r : r \in Refs(c) =>
          \/ \E a \in Clusters : fat[a] = c /\ r = <<a, -1>>
          \/ r \in LiveIn(dir) /\ Rec(dir, r).clus = c
    BY <2>3 DEF Refs
  <2>6. ASSUME NEW c \in Clusters, NEW r \in Refs(c), NEW s \in Refs(c) PROVE r = s
    <3>1. CASE \E a \in Clusters : fat[a] = c /\ r = <<a, -1>>
      BY <2>2, <2>5, <2>6, <3>1 DEF Single
    <3>2. CASE r \in LiveIn(dir) /\ Rec(dir, r).clus = c
      BY <2>2, <2>5, <2>6, <3>2 DEF Single
    <3> QED
      BY <2>5, <2>6, <3>1, <3>2
  <2>7. Refs(Root) = {}
    BY <2>2, <2>5 DEF Single
  <2> QED
    BY <2>6, <2>7 DEF NoCrossLink
<1>2. misused => NoCrossLink
  BY DEF NoCrossLink
<1> QED
  BY <1>1, <1>2, DiskInvariant, PTL

(* Between operations neither a link, nor an entry, nor                    *)
(* current_dir_cluster leads to a cluster that fat_find_free would return. *)
THEOREM NothingDangles == Spec => []NoDangling
<1>1. Inv => NoDangling
  <2>1. SUFFICES ASSUME NEW X, NEW R, NEW q, NEW n, NEW e, Good(X, R, q, n, e), pc = "idle",
                        NEW c \in Clusters, Refs(c) # {} \/ c = cwd
                 PROVE  fat[c] # 0
    BY DEF Inv, NoDangling, Idle
  <2>2. Shape(fat, dir, X, R, q, n, NoSlot, 0, NoSlot)
    BY <2>1, IdleShape
  <2>3. Alive(fat, dir, 0, NoSlot) /\ Areas(fat, X, R)
    BY <2>2 DEF Shape
  <2>4. CASE c = cwd
    BY <2>1, <2>3, <2>4, Here, UsedSectors
  <2>5. CASE Refs(c) # {}
    <3>1. Entries = LiveIn(dir) /\ \A p : At(p) = Rec(dir, p)
      BY NamedSame
    <3>2. \/ \E a \in Clusters : fat[a] = c
          \/ \E p \in LiveIn(dir) : Rec(dir, p).clus = c
      BY <2>5, <3>1 DEF Refs
    <3>3. NoSlot \notin LiveIn(dir) /\ c # 0
      BY Disk DEF LiveIn, Slots, NoSlot
    <3> QED
      BY <2>3, <3>2, <3>3 DEF Alive
  <2> QED
    BY <2>1, <2>4, <2>5
<1>2. misused => NoDangling
  BY DEF NoDangling
<1> QED
  BY <1>1, <1>2, DiskInvariant, PTL

(* Between operations every directory has its "." and the ".." of the      *)
(* directory that its entry is in, whatever was renamed, deleted, removed  *)
(* and made again.                                                         *)
THEOREM DirectoriesFormATree == Spec => []TreeOK
<1>1. Inv => TreeOK
  <2>1. SUFFICES ASSUME NEW X, NEW R, NEW q, NEW n, NEW e, Good(X, R, q, n, e), pc = "idle",
                        NEW p \in Entries, At(p).dir
                 PROVE  /\ At(p).clus # 0
                        /\ dir[At(p).clus][0].name = "." /\ dir[At(p).clus][0].clus = At(p).clus
                        /\ dir[At(p).clus][1].name = ".."
                        /\ \E k \in 0..(Last - 2) : Walk(dir[At(p).clus][1].clus)[k] = p[1]
    BY DEF Inv, TreeOK, Idle
  <2> PICK c : c = At(p).clus
    OBVIOUS
  <2>2. Shape(fat, dir, X, R, q, n, NoSlot, 0, NoSlot)
    BY <2>1, IdleShape
  <2>3. Kinds(dir, X, R, NoSlot) /\ Areas(fat, X, R) /\ Layout(dir, X, R)
    BY <2>2 DEF Shape
  <2>4. p \in LiveIn(dir) /\ Rec(dir, p).clus = c /\ Rec(dir, p).dir
    BY <2>1, NamedSame
  <2>5. p # NoSlot
    BY <2>4, Disk DEF LiveIn, Slots, NoSlot
  <2>6. c \in X /\ c \notin R /\ dir[c][1].clus = Home(R, p[1])
    BY <2>3, <2>4, <2>5 DEF Kinds
  <2>7. p[1] \in X
    BY <2>3, <2>4 DEF Layout
  <2>8. /\ dir[c][0].name = "." /\ dir[c][0].clus = c /\ dir[c][1].name = ".."
    BY <2>3, <2>6 DEF Layout
  <2>9. c # 0
    BY <2>3, <2>6, Disk DEF Areas
  <2> PICK d : d = Home(R, p[1])
    OBVIOUS
  <2>10. d \in X /\ (d \in R => d = Root)
    BY <2>3, <2>7 DEF Home, Areas
  <2>11. Visits(fat, d, Walk(d), Last - 2)
    BY WalkVisits
  <2>12. \E k \in 0..(Last - 2) : Walk(d)[k] = p[1]
    BY <2>3, <2>7, <2>10, <2>11, SectorsOf
  <2> QED
    BY <2>6, <2>8, <2>9, <2>12
<1>2. misused => TreeOK
  BY DEF TreeOK
<1> QED
  BY <1>1, <1>2, DiskInvariant, PTL

(* fat32_rmdir frees a cluster only if it holds no entry of a file or a    *)
(* directory, and never the root or the current directory.                 *)
THEOREM OnlyEmptyDirectoriesFreed == Spec => OnlyEmptyFreed
<1> DEFINE Kept == \A c \in Clusters : ~ misused' /\ fat[c] # 0 /\ fat'[c] = 0
                     => c \notin {Root, cwd} /\ \A i \in SlotIx : ~ Live(dir[c][i])
<1>1. (misused \/ Inv) /\ [Next]_vars => [Kept]_vars
  <2>a. SUFFICES ASSUME Inv, [Proper]_disk PROVE Kept
    BY NotMisused
  <2>1. SUFFICES ASSUME NEW X, NEW R, NEW q, NEW n, NEW e, Good(X, R, q, n, e), [Proper]_disk,
                        NEW c \in Clusters, fat[c] # 0, fat'[c] = 0
                 PROVE  c \notin {Root, cwd} /\ \A i \in SlotIx : ~ Live(dir[c][i])
    BY <2>a DEF Inv
  <2>2. cwd = q[n] /\ Typed(fat, dir) /\ Areas(fat, X, R)
    BY <2>1, Here
  <2>3. ASSUME NEW x, NEW v, fat' = [fat EXCEPT ![x] = v], v # 0 PROVE FALSE
    BY <2>1, <2>2, <2>3 DEF Typed
  <2>4. EOC # 0 /\ 0 \notin Clusters
    BY Disk
  <2>5. CASE Call
    <3>1. CASE UNCHANGED fat
      BY <2>1, <3>1
    <3>2. CASE \E nm \in FileNames, b \in Buffers : fat32_write_file(nm, b, FindFree)
      <4>1. fat' = fat \/ fat' = [fat EXCEPT ![FindFree] = EOC]
        BY <3>2 DEF fat32_write_file, fat_write_entry
      <4> QED
        BY <2>1, <2>3, <2>4, <4>1
    <3> QED
      BY <2>5, <3>1, <3>2 DEF Call, fat32_create_file, fat32_delete_file, fat32_rename,
         fat32_change_dir, fat32_mkdir, fat32_rmdir
  <2>6. CASE Restart
    BY <2>1, <2>6 DEF Restart, fat32_init
  <2>7. CASE WriteData(fat[job.cur]) \/ WriteNoSpace(FindFree) \/ WriteEntry \/ MkdirSet
             \/ MkdirInit \/ RmdirErase
    <3>1. fat' = fat
      BY <2>7 DEF WriteData, WriteNoSpace, WriteEntry, MkdirSet, MkdirInit, RmdirErase
    <3> QED
      BY <2>1, <3>1
  <2>8. CASE WriteLink(FindFree)
    <3>1. fat' = [fat EXCEPT ![job.cur] = FindFree] /\ FindFree # 0
      BY <2>8 DEF WriteLink, fat_write_entry
    <3> QED
      BY <2>3, <3>1
  <2>9. CASE WriteMark \/ MkdirMark
    <3>1. fat' = [fat EXCEPT ![job.new] = EOC]
      BY <2>9 DEF WriteMark, MkdirMark, fat_write_entry
    <3> QED
      BY <2>3, <2>4, <3>1
  <2>10. CASE RmdirFree(fat[job.cur])
    <3>1. pc = "free" /\ fat' = [fat EXCEPT ![job.cur] = 0]
      BY <2>10 DEF RmdirFree, fat_write_entry
    <3>2. RemoveJob(X, R, q, n, e)
      BY <2>1, <3>1 DEF Good, Removing
    <3>3. c = job.cur
      BY <2>1, <2>2, <3>1 DEF Typed
    <3>4. /\ c \notin R /\ \A i \in 1..n : q[i] # c
          /\ \A i \in SlotIx : dir[c][i].name \notin Names
      BY <3>1, <3>2, <3>3 DEF RemoveJob
    <3>5. n \in 1..n
      BY <2>1 DEF Good, Shape, Path
    <3>6. Root \in R
      BY <2>2 DEF Areas
    <3> QED
      BY <2>2, <3>4, <3>5, <3>6 DEF Live
  <2>11. CASE UNCHANGED disk
    BY <2>1, <2>11 DEF disk
  <2> QED
    BY <2>1, <2>5, <2>6, <2>7, <2>8, <2>9, <2>10, <2>11 DEF Proper, Step
<1>2. Spec => [](misused \/ Inv)
  BY DiskInvariant
<1> QED
  BY <1>1, <1>2, PTL DEF Spec, OnlyEmptyFreed

(* Between operations every entry of the root and of the current directory *)
(* comes before the first unused slot, so that list_dir_at and             *)
(* fat32_match_prefix reach it: deleting marks a slot as deleted, and      *)
(* making takes the first slot that is free.                               *)
THEOREM EntriesAreListed == Spec => []NothingHidden
<1>1. Inv => NothingHidden
  <2>1. SUFFICES ASSUME NEW X, NEW R, NEW q, NEW n, NEW e, Good(X, R, q, n, e), pc = "idle",
                        NEW p \in Entries, NEW d \in {Root, cwd},
                        NEW k \in 0..(Last - 2), Walk(d)[k] = p[1]
                 PROVE  p \in fat32_match_prefix({At(p).name}, d)
    BY DEF Inv, NothingHidden, Idle
  <2>2. Shape(fat, dir, X, R, q, n, NoSlot, 0, NoSlot)
    BY <2>1, IdleShape
  <2>3. /\ Typed(fat, dir) /\ Single(fat, dir) /\ Areas(fat, X, R) /\ Tidy(fat, dir, X, R)
    BY <2>2 DEF Shape
  <2>4. d \in X /\ (d \in R => d = Root)
    BY <2>1, <2>3, Here DEF Areas
  <2> PICK w : w = Walk(d)
    OBVIOUS
  <2>5. Visits(fat, d, w, Last - 2)
    BY WalkVisits
  <2>6. NoGap(dir, w)
    BY <2>3, <2>4, <2>5 DEF Tidy
  <2>7. \A j, i \in 0..(Last - 2) : w[j] \in Clusters /\ w[j] = w[i] => j = i
    BY <2>3, <2>4, <2>5, WalkInjective
  <2>8. /\ p \in Slots /\ p[1] \in Clusters /\ p[2] \in SlotIx /\ p = <<p[1], p[2]>>
        /\ Rec(dir, p).name \in Names
    BY <2>1, NamedSame DEF LiveIn, Slots
  <2> PICK P : P = Named({Unused}) \cup {p}
    OBVIOUS
  <2> PICK h : h = <<k, p[2]>>
    OBVIOUS
  <2>9. /\ h \in (0..(Last - 2)) \X SlotIx /\ h[1] = k /\ h[2] = p[2] /\ w[h[1]] = p[1]
        /\ p = <<w[h[1]], h[2]>> /\ h \in Hits(w, P)
    BY <2>1, <2>8 DEF Hits
  <2>10. ASSUME NEW y \in Hits(w, P) PROVE Before(h, y)
    <3>1. y \in (0..(Last - 2)) \X SlotIx /\ <<w[y[1]], y[2]>> \in P
      BY <2>10 DEF Hits
    <3>2. y[1] \in Nat /\ y[2] \in Nat /\ h[1] \in Nat /\ h[2] \in Nat
      BY <2>9, <3>1, Disk
    <3>3. CASE <<w[y[1]], y[2]>> = p
      <4>1. w[y[1]] = w[h[1]] /\ y[2] = h[2] /\ w[h[1]] \in Clusters
        BY <2>8, <2>9, <3>3
      <4>2. y[1] = h[1]
        BY <2>7, <2>9, <3>1, <4>1
      <4> QED
        BY <3>2, <4>1, <4>2 DEF Before
    <3>4. CASE <<w[y[1]], y[2]>> \in Named({Unused})
      <4>1. w[y[1]] \in Clusters /\ dir[w[y[1]]][y[2]].name = Unused
        BY <3>4 DEF Named, At, Slots
      <4>2. dir[w[h[1]]][h[2]].name \in Names /\ w[h[1]] \in Clusters
        BY <2>8, <2>9 DEF Rec
      <4>3. ~ Before(y, h)
        BY <2>6, <2>9, <3>1, <4>1, <4>2, NameFacts DEF NoGap
      <4> QED
        BY <3>2, <4>3 DEF Before
    <3> QED
      BY <3>1, <3>3, <3>4
  <2>11. Found(w, P, p)
    BY <2>9, <2>10 DEF Found, IsFirst
  <2>12. Search(d, P) = p
    BY <2>11, SearchFound, FoundUnique
  <2>13. At(p).name \notin {Unused, Deleted}
    BY <2>8, NamedSame, NameFacts
  <2> QED
    BY <2>8, <2>12, <2>13 DEF fat32_match_prefix, list_dir_at
<1>2. misused => NothingHidden
  BY DEF NothingHidden
<1> QED
  BY <1>1, <1>2, DiskInvariant, PTL

-----------------------------------------------------------------------------
(* The path that fat32_get_cwd_name prints                                 *)

(* A path has no more directories than the disk has clusters.              *)
LEMMA PathShort ==
    ASSUME NEW F, NEW D, NEW X, NEW R, NEW q, NEW n, Path(F, D, X, R, q, n)
    PROVE  n \in Nat /\ n # 0 /\ n <= Last
<1>1. /\ n \in Nat /\ n # 0 /\ q \in [Nat -> Clusters]
      /\ \A i, j \in 1..n : q[i] = q[j] => i = j
  BY DEF Path
<1> PICK g : g = [i \in 1..n |-> q[i]]
  OBVIOUS
<1> PICK S : S = 1..n
  OBVIOUS
<1> PICK T : T = 2..Last
  OBVIOUS
<1>2. g \in [S -> T]
  <2>1. \A i \in S : i \in Nat
    BY <1>1
  <2>2. \A i \in S : q[i] \in T
    BY <1>1, <2>1, Disk
  <2> QED
    BY <2>2
<1>3. IsFiniteSet(S) /\ Cardinality(S) = n
  BY <1>1, FS_Interval
<1>4. IsFiniteSet(T) /\ Cardinality(T) = Last - 1
  BY Disk, FS_Interval
<1>5. ~ \E x, y \in S : x # y /\ g[x] = g[y]
  BY <1>1
<1>6. ~ (Cardinality(T) < Cardinality(S))
  <2>1. IsFiniteSet(S) /\ IsFiniteSet(T)
    BY <1>3, <1>4
  <2>2. ASSUME Cardinality(T) < Cardinality(S) PROVE \E x, y \in S : x # y /\ g[x] = g[y]
    BY ONLY <1>2, <2>1, <2>2, FS_PigeonHole, Zenon
  <2> QED
    BY <1>5, <2>2
<1> QED
  BY <1>1, <1>3, <1>4, <1>6, Disk

(* ".." leads one step back along the path.                                *)
LEMMA PathParent ==
    ASSUME NEW X, NEW R, NEW q, NEW n, Shape(fat, dir, X, R, q, n, NoSlot, 0, NoSlot),
           NEW i \in 1..n, i # 1
    PROVE  /\ q[i] \notin R /\ q[i] # Root /\ Parent(q[i]) = q[i - 1]
           /\ dir[q[i]][1].clus = q[i - 1]
<1>0. /\ Areas(fat, X, R) /\ Layout(dir, X, R) /\ Kinds(dir, X, R, NoSlot)
      /\ Path(fat, dir, X, R, q, n)
  BY DEF Shape
<1> PICK c : c = q[i]
  OBVIOUS
<1>1. n \in Nat /\ 1 \in 1..n /\ i - 1 \in 1..n /\ i - 1 # n /\ (i - 1) + 1 = i
  BY <1>0 DEF Path
<1>2. c # Root
  BY <1>0, <1>1 DEF Path
<1>3. c \in X /\ c \notin R
  BY <1>0, <1>2 DEF Path
<1>4. PICK r : /\ Leads(fat, dir, R, q[i - 1], r) /\ Rec(dir, r).dir
               /\ Rec(dir, r).clus = q[(i - 1) + 1]
  BY <1>0, <1>1 DEF Path
<1>5. r \in LiveIn(dir) /\ Home(R, r[1]) = q[i - 1] /\ Rec(dir, r).clus = c
  BY <1>1, <1>4 DEF Leads
<1>6. r # NoSlot
  BY <1>5, Disk DEF LiveIn, Slots, NoSlot
<1>7. dir[c][1].clus = q[i - 1]
  BY <1>0, <1>4, <1>5, <1>6 DEF Kinds
<1>8. q[i - 1] # 0
  BY <1>0, <1>1, Disk DEF Path
<1>9. /\ dir[c][0].name = "." /\ dir[c][1].name = ".."
      /\ \A j \in SlotIx : j # 0 /\ j # 1 => dir[c][j].name \notin Dots
  BY <1>0, <1>3 DEF Layout
<1> PICK up : up = {j \in SlotIx : dir[c][j].name = ".."}
  OBVIOUS
<1>10. up = {1}
  BY <1>9, NameFacts, Disk
<1> DEFINE first == CHOOSE x \in up : \A y \in up : x <= y
<1>11. first = 1
  BY <1>10
<1>12. Parent(c) = IF up = {} \/ dir[c][first].clus = 0 THEN Root ELSE dir[c][first].clus
  BY DEF Parent
<1>13. Parent(c) = q[i - 1]
  BY <1>7, <1>8, <1>10, <1>11, <1>12
<1> QED
  BY <1>2, <1>3, <1>7, <1>13

(* The entry whose name is printed leads down again.                       *)
LEMMA PathEntry ==
    ASSUME NEW X, NEW R, NEW q, NEW n, Shape(fat, dir, X, R, q, n, NoSlot, 0, NoSlot),
           NEW i \in 1..n, i # n
    PROVE  /\ EntryFor(q[i], q[i + 1]) # NoSlot
           /\ ChangeDirTo(q[i], At(EntryFor(q[i], q[i + 1])).name) = q[i + 1]
<1>0. /\ Typed(fat, dir) /\ Areas(fat, X, R) /\ Layout(dir, X, R) /\ Single(fat, dir)
      /\ Kinds(dir, X, R, NoSlot) /\ Path(fat, dir, X, R, q, n)
  BY DEF Shape
<1> PICK d : d = q[i]
  OBVIOUS
<1> PICK c : c = q[i + 1]
  OBVIOUS
<1>1. i + 1 \in 1..n /\ i \in Nat /\ i + 1 # i /\ i - 1 # i + 1
  BY <1>0 DEF Path
<1>2. d \in X /\ (d \in R => d = Root) /\ c \in Clusters /\ c # 0 /\ c # d
  BY <1>0, <1>1, Disk DEF Path, Areas
<1>3. PICK r : Leads(fat, dir, R, d, r) /\ Rec(dir, r).dir /\ Rec(dir, r).clus = c
  BY <1>0 DEF Path
<1>4. /\ r \in LiveIn(dir) /\ Home(R, r[1]) = d
      /\ FirstIn(fat, d, NamedIn(dir, {Rec(dir, r).name, Unused}), r)
  BY <1>3 DEF Leads
<1>5. r \in Slots /\ r[1] \in X /\ Rec(dir, r).name \in Names /\ r # NoSlot
  BY <1>0, <1>4, Disk DEF Layout, LiveIn, Slots, NoSlot
<1> PICK P : P = {p \in Slots : At(p).name \notin {Unused, Deleted} /\ At(p).clus = c}
  OBVIOUS
<1> PICK s : s = Search(d, P)
  OBVIOUS
<1>6. s = EntryFor(d, c)
  BY DEF EntryFor
<1>7. P \subseteq Slots /\ r \in P
  BY <1>3, <1>5, NamedSame, NameFacts
<1>8. FirstIn(fat, d, P, s) /\ (s # NoSlot => s \in P /\ InDir(X, R, d, s))
  BY <1>0, <1>2, <1>7, DirSearch
<1>9. s # NoSlot
  <2> PICK w : w = Walk(d)
    OBVIOUS
  <2>1. Visits(fat, d, w, Last - 2)
    BY WalkVisits
  <2>2. PICK k \in 0..(Last - 2) : w[k] = r[1]
    BY <1>0, <1>2, <1>4, <1>5, <2>1, SectorsOf
  <2>3. r = <<r[1], r[2]>> /\ r[2] \in SlotIx
    BY <1>5 DEF Slots
  <2>4. <<k, r[2]>> \in Hits(w, P)
    BY <1>7, <2>2, <2>3 DEF Hits
  <2>5. Found(w, P, s)
    BY <1>8, <2>1 DEF FirstIn
  <2> QED
    BY <1>7, <2>4, <2>5, FoundIn
<1>10. s = r
  <2>1. /\ s \in Slots /\ s[1] \in X /\ Home(R, s[1]) = d /\ Rec(dir, s).clus = c
        /\ Rec(dir, s).name \notin {Unused, Deleted}
    BY <1>8, <1>9, NamedSame DEF InDir
  <2>2. Rec(dir, s) \in EntrySet /\ s[1] \in Clusters /\ s[2] \in SlotIx
    BY <1>0, <2>1, RecTyped DEF Slots
  <2>3. Rec(dir, s).name \in Names \cup Dots
    BY <2>1, <2>2 DEF EntrySet, AllNames
  <2>4. CASE Rec(dir, s).name \in Names
    <3>1. s \in LiveIn(dir)
      BY <2>1, <2>4 DEF LiveIn
    <3> QED
      BY <1>0, <1>2, <1>3, <1>4, <2>1, <3>1 DEF Single
  <2>5. CASE Rec(dir, s).name \in Dots
    <3>1. s[1] \notin R
      BY <1>0, <2>1, <2>2, <2>5 DEF Layout, Rec
    <3>2. s[1] = d /\ d \notin R
      BY <2>1, <3>1 DEF Home
    <3>3. /\ dir[d][0].clus = d
          /\ \A j \in SlotIx : j # 0 /\ j # 1 => dir[d][j].name \notin Dots
      BY <1>0, <1>2, <3>2 DEF Layout
    <3>4. s[2] = 0 \/ s[2] = 1
      BY <2>2, <2>5, <3>2, <3>3 DEF Rec
    <3>5. s[2] # 0
      BY <1>2, <2>1, <3>2, <3>3 DEF Rec
    <3>6. dir[d][1].clus = c
      BY <2>1, <3>2, <3>4, <3>5 DEF Rec
    <3>7. i # 1
      BY <1>0, <3>2 DEF Path, Areas
    <3>8. dir[d][1].clus = q[i - 1]
      BY <3>7, PathParent
    <3>9. i - 1 \in 1..n
      <4>1. n \in Nat
        BY <1>0 DEF Path
      <4> QED
        BY <3>7, <1>1, <4>1
    <3> QED
      BY <1>0, <1>1, <3>6, <3>8, <3>9 DEF Path
  <2> QED
    BY <2>3, <2>4, <2>5
<1> PICK nm : nm = Rec(dir, r).name
  OBVIOUS
<1> PICK p : p = find_entry(d, nm)
  OBVIOUS
<1>11. p = r
  <2>1. CASE p # NoSlot
    <3>1. FirstIn(fat, d, NamedIn(dir, {nm, Unused}), p)
      BY <1>0, <1>2, <2>1, FindSome
    <3> QED
      BY <1>4, <3>1, SameFirst
  <2>2. CASE p = NoSlot
    <3>1. Absent(fat, dir, d, nm)
      BY <1>0, <1>2, <2>2, FindNone
    <3>2. PICK x : /\ FirstIn(fat, d, NamedIn(dir, {nm, Unused}), x)
                   /\ x = NoSlot \/ Rec(dir, x).name # nm
      BY <3>1 DEF Absent
    <3>3. x = r
      BY <1>4, <3>2, SameFirst
    <3> QED
      BY <1>5, <3>2, <3>3
  <2> QED
    BY <2>1, <2>2
<1>12. ChangeDirTo(d, nm) = IF p = NoSlot \/ ~ Rec(dir, p).dir THEN d
                            ELSE IF Rec(dir, p).clus = 0 THEN Root ELSE Rec(dir, p).clus
  BY NamedSame DEF ChangeDirTo
<1>13. ChangeDirTo(d, nm) = c
  BY <1>2, <1>3, <1>5, <1>11, <1>12
<1>14. At(s).name = nm
  BY <1>10, NamedSame
<1> QED
  BY <1>6, <1>9, <1>13, <1>14

(* g is what the loop over the parents visits.                             *)
Ascends(g) ==
    g = [k \in 0..Last |-> IF k = 0 THEN cwd
                           ELSE IF g[k - 1] = Root THEN Root ELSE Parent(g[k - 1])]

LEMMA ClimbPath ==
    ASSUME NEW X, NEW R, NEW q, NEW n, Shape(fat, dir, X, R, q, n, NoSlot, 0, NoSlot), cwd = q[n]
    PROVE  \A k \in 0..Last : Climb[k] = IF k < n THEN q[n - k] ELSE Root
<1>0. Path(fat, dir, X, R, q, n)
  BY DEF Shape
<1>1. n \in Nat /\ n # 0 /\ n <= Last /\ q[1] = Root /\ Last \in Nat
  <2>1. q[1] = Root
    BY <1>0 DEF Path
  <2> QED
    BY <1>0, <2>1, PathShort, Disk
<1> PICK g : g = [k \in 0..Last |-> IF k < n THEN q[n - k] ELSE Root]
  OBVIOUS
<1>2. ASSUME NEW k \in 0..Last
      PROVE  g[k] = IF k = 0 THEN cwd ELSE IF g[k - 1] = Root THEN Root ELSE Parent(g[k - 1])
  <2>1. CASE k = 0
    <3>1. g[0] = q[n - 0] /\ n - 0 = n
      BY <1>1
    <3> QED
      BY <2>1, <3>1
  <2>2. CASE k # 0 /\ k < n
    <3> PICK i : i = n - (k - 1)
      OBVIOUS
    <3>1. i \in 1..n /\ i # 1 /\ i - 1 = n - k /\ k - 1 \in 0..Last /\ k - 1 < n
      BY <1>1, <1>2, <2>2
    <3>2. g[k] = q[i - 1] /\ g[k - 1] = q[i]
      BY <1>2, <2>2, <3>1
    <3>3. q[i] # Root /\ Parent(q[i]) = q[i - 1]
      BY <3>1, PathParent
    <3> QED
      BY <2>2, <3>2, <3>3
  <2>3. CASE k # 0 /\ ~ (k < n)
    <3>1. g[k] = Root /\ k - 1 \in 0..Last
      BY <1>1, <1>2, <2>3
    <3>2. CASE k - 1 < n
      <4>1. n - (k - 1) = 1
        BY <1>1, <1>2, <2>3, <3>2
      <4>2. g[k - 1] = q[n - (k - 1)]
        BY <3>1, <3>2
      <4> QED
        BY <1>1, <2>3, <3>1, <4>1, <4>2
    <3>3. CASE ~ (k - 1 < n)
      <4>1. g[k - 1] = Root
        BY <3>1, <3>3
      <4> QED
        BY <2>3, <3>1, <4>1
    <3> QED
      BY <3>2, <3>3
  <2> QED
    BY <2>1, <2>2, <2>3
<1>3. Ascends(g)
  BY <1>2 DEF Ascends
<1>4. Ascends(Climb)
  <2>1. Climb = CHOOSE h : Ascends(h)
    BY DEF Climb, Ascends
  <2> QED
    BY <1>3, <2>1
<1> PICK f : f = Climb
  OBVIOUS
<1>5. ASSUME NEW k \in 0..Last
      PROVE  f[k] = IF k = 0 THEN cwd ELSE IF f[k - 1] = Root THEN Root ELSE Parent(f[k - 1])
  BY <1>4 DEF Ascends
<1> DEFINE Bad == {k \in 0..Last : f[k] # g[k]}
<1>6. ASSUME Bad # {} PROVE FALSE
  <2>0. Bad \subseteq Nat
    BY <1>1
  <2>1. PICK m \in Bad : \A y \in Bad : m <= y
    BY <1>6, <2>0, LeastNat
  <2>2. m # 0
    BY <1>2, <1>5, <2>1
  <2>3. m - 1 \in 0..Last /\ f[m - 1] = g[m - 1]
    BY <1>1, <2>1, <2>2
  <2> QED
    BY <1>2, <1>5, <2>1, <2>2, <2>3
<1> QED
  BY <1>6

(* Between operations going up by ".." reaches the root, and the names     *)
(* that fat32_get_cwd_name prints lead back from there to the current      *)
(* directory, where they are printed whole, however often directories were *)
(* renamed, deleted and made again, up to the depth that it has room for.  *)
THEOREM PathIsRight == Spec => []PathRight
<1>1. Inv => PathRight
  <2>1. SUFFICES ASSUME NEW X, NEW R, NEW q, NEW n, NEW e, Good(X, R, q, n, e), pc = "idle"
                 PROVE  /\ Climb[Last] = Root
                        /\ \A k \in 1..Last : Climb[k - 1] # Root =>
                             /\ EntryFor(Climb[k], Climb[k - 1]) # NoSlot
                             /\ ChangeDirTo(Climb[k], At(EntryFor(Climb[k], Climb[k - 1])).name)
                                  = Climb[k - 1]
    BY DEF Inv, PathRight, Printed, Idle
  <2>2. Shape(fat, dir, X, R, q, n, NoSlot, 0, NoSlot)
    BY <2>1, IdleShape
  <2>3. n \in Nat /\ n # 0 /\ n <= Last /\ Last \in Nat /\ q[1] = Root
    <3>1. Path(fat, dir, X, R, q, n)
      BY <2>2 DEF Shape
    <3>2. q[1] = Root
      BY <3>1 DEF Path
    <3> QED
      BY <3>1, <3>2, PathShort, Disk
  <2>4. \A k \in 0..Last : Climb[k] = IF k < n THEN q[n - k] ELSE Root
    BY <2>1, <2>2, Here, ClimbPath
  <2>5. Climb[Last] = Root
    BY <2>3, <2>4
  <2>6. ASSUME NEW k \in 1..Last, Climb[k - 1] # Root
        PROVE  /\ EntryFor(Climb[k], Climb[k - 1]) # NoSlot
               /\ ChangeDirTo(Climb[k], At(EntryFor(Climb[k], Climb[k - 1])).name) = Climb[k - 1]
    <3>1. k - 1 \in 0..Last /\ k \in 0..Last
      BY <2>3, <2>6
    <3>2. k - 1 < n /\ Climb[k - 1] = q[n - (k - 1)]
      BY <2>4, <2>6, <3>1
    <3>3. n - (k - 1) # 1
      BY <2>3, <2>6, <3>2
    <3> PICK i : i = n - k
      OBVIOUS
    <3>4. k < n /\ i \in 1..n /\ i # n /\ i + 1 = n - (k - 1)
      BY <2>3, <2>6, <3>2, <3>3
    <3>5. Climb[k] = q[i] /\ Climb[k - 1] = q[i + 1]
      BY <2>4, <3>1, <3>2, <3>4
    <3>6. /\ EntryFor(q[i], q[i + 1]) # NoSlot
          /\ ChangeDirTo(q[i], At(EntryFor(q[i], q[i + 1])).name) = q[i + 1]
      BY <2>2, <3>4, PathEntry
    <3> QED
      BY <3>5, <3>6
  <2> QED
    BY <2>5, <2>6
<1>2. misused => PathRight
  BY DEF PathRight
<1> QED
  BY <1>1, <1>2, DiskInvariant, PTL

-----------------------------------------------------------------------------
(* The clusters of a file, one after the other                             *)

LEMMA Times ==
    ASSUME NEW s \in Nat, NEW k \in Nat, NEW j \in Nat, k < j
    PROVE  s * k + s <= s * j
<1>1. PICK d \in Nat : j = k + 1 + d
  <2>1. j - k - 1 \in Nat /\ j = k + 1 + (j - k - 1)
    OBVIOUS
  <2> QED
    BY <2>1
<1>2. s * d \in Nat
  OBVIOUS
<1>3. s * j = s * k + s + s * d
  BY <1>1
<1> QED
  BY <1>2, <1>3

LEMMA Division ==
    ASSUME NEW a \in Nat, NEW s \in Nat, s > 0
    PROVE  /\ a \div s \in Nat /\ a % s \in 0 .. s - 1 /\ a = s * (a \div s) + (a % s)
OBVIOUS

(* g[0], ..., g[j] are clusters that are linked one to the next, from c on. *)
Steps(F, c, g, j) ==
    /\ j \in Nat /\ g \in [0..j -> Clusters] /\ g[0] = c
    /\ \A k \in 0..j : k # 0 => F[g[k - 1]] = g[k]

(* A link to a cluster is never changed again.                             *)
LinksKept(F, F1) == \A x \in Clusters : F[x] \in Clusters => F1[x] = F[x]

OneLink(F)     == \A x, y \in Clusters : F[x] \in Clusters /\ F[x] = F[y] => x = y
Unlinked(F, c) == \A x \in Clusters : F[x] # c

LEMMA StepsFacts ==
    ASSUME NEW F, NEW c, NEW g, NEW j, Steps(F, c, g, j)
    PROVE  /\ j \in Nat /\ g[0] = c /\ c \in Clusters /\ j \in 0..j
           /\ \A k \in 0..j : g[k] \in Clusters
           /\ \A k \in 0..j : k # 0 => k - 1 \in 0..j /\ F[g[k - 1]] = g[k]
BY DEF Steps

LEMMA StepsKept ==
    ASSUME NEW F, NEW F1, NEW c, NEW g, NEW j, Steps(F, c, g, j), LinksKept(F, F1)
    PROVE  Steps(F1, c, g, j)
<1>1. ASSUME NEW k \in 0..j, k # 0 PROVE F1[g[k - 1]] = g[k]
  <2>1. k - 1 \in 0..j /\ F[g[k - 1]] = g[k] /\ g[k] \in Clusters /\ g[k - 1] \in Clusters
    BY <1>1, StepsFacts
  <2> QED
    BY <2>1 DEF LinksKept
<1> QED
  BY <1>1 DEF Steps

LEMMA StepsStart ==
    ASSUME NEW F, NEW c \in Clusters, NEW g, g = [k \in 0..0 |-> c]
    PROVE  Steps(F, c, g, 0) /\ g[0] = c
BY DEF Steps

(* h is g with cluster y behind it.                                        *)
Longer(h, g, j, y) == h = [k \in 0..(j + 1) |-> IF k = j + 1 THEN y ELSE g[k]]

LEMMA StepsMore ==
    ASSUME NEW F, NEW c, NEW g, NEW j, Steps(F, c, g, j), NEW y \in Clusters, F[g[j]] = y,
           NEW h, Longer(h, g, j, y)
    PROVE  Steps(F, c, h, j + 1) /\ h[j + 1] = y /\ \A k \in 0..j : h[k] = g[k]
<1>1. j \in Nat /\ g[0] = c /\ \A k \in 0..j : g[k] \in Clusters
  BY StepsFacts
<1>2. h[j + 1] = y /\ \A k \in 0..j : h[k] = g[k]
  BY <1>1 DEF Longer
<1>3. h \in [0..(j + 1) -> Clusters]
  <2>1. \A k \in 0..(j + 1) : k # j + 1 => k \in 0..j
    BY <1>1
  <2> QED
    BY <1>1, <2>1 DEF Longer
<1>4. ASSUME NEW k \in 0..(j + 1), k # 0 PROVE F[h[k - 1]] = h[k]
  <2>1. CASE k = j + 1
    <3>1. k - 1 = j /\ j \in 0..j
      BY <1>1, <2>1
    <3> QED
      BY <1>2, <2>1, <3>1
  <2>2. CASE k # j + 1
    <3>1. k \in 0..j /\ k - 1 \in 0..j
      BY <1>1, <1>4, <2>2
    <3> QED
      BY <1>2, <1>4, <3>1, StepsFacts
  <2> QED
    BY <2>1, <2>2
<1>5. j + 1 \in Nat /\ h[0] = c
  BY <1>1, <1>2
<1> QED
  BY <1>2, <1>3, <1>4, <1>5 DEF Steps

(* Two such paths that meet have met from their first clusters on.         *)
LEMMA StepsMeet ==
    ASSUME NEW F, OneLink(F), NEW c, NEW g, NEW j, Steps(F, c, g, j), Unlinked(F, c),
           NEW d, NEW h, NEW i, Steps(F, d, h, i), Unlinked(F, d),
           NEW k \in 0..j, NEW l \in 0..i, g[k] = h[l]
    PROVE  c = d /\ k = l
<1> DEFINE Bad == {a \in 0..j : \E b \in 0..i : g[a] = h[b] /\ ~ (c = d /\ a = b)}
<1>0. j \in Nat /\ i \in Nat
  BY StepsFacts
<1>1. ASSUME Bad # {} PROVE FALSE
  <2>0. Bad \subseteq Nat
    BY <1>0
  <2>1. PICK a \in Bad : \A y \in Bad : a <= y
    BY <1>1, <2>0, LeastNat
  <2>2. PICK b \in 0..i : g[a] = h[b] /\ ~ (c = d /\ a = b)
    BY <2>1
  <2>3. a \in 0..j /\ a \in Nat /\ b \in Nat
    BY <1>0, <2>1
  <2>4. a # 0
    <3>1. ASSUME a = 0 PROVE FALSE
      <4>1. g[a] = c
        BY <3>1, StepsFacts
      <4>2. b # 0
        BY <2>2, <3>1, <4>1, StepsFacts
      <4>3. h[b - 1] \in Clusters /\ F[h[b - 1]] = h[b]
        BY <4>2, StepsFacts
      <4> QED
        BY <2>2, <4>1, <4>3 DEF Unlinked
    <3> QED
      BY <3>1
  <2>5. b # 0
    <3>1. ASSUME b = 0 PROVE FALSE
      <4>1. h[b] = d
        BY <3>1, StepsFacts
      <4>3. g[a - 1] \in Clusters /\ F[g[a - 1]] = g[a]
        BY <2>3, <2>4, StepsFacts
      <4> QED
        BY <2>2, <4>1, <4>3 DEF Unlinked
    <3> QED
      BY <3>1
  <2>6. /\ a - 1 \in 0..j /\ b - 1 \in 0..i /\ g[a - 1] \in Clusters /\ h[b - 1] \in Clusters
        /\ F[g[a - 1]] = g[a] /\ F[h[b - 1]] = h[b] /\ g[a] \in Clusters
    BY <2>3, <2>4, <2>5, StepsFacts
  <2>7. g[a - 1] = h[b - 1]
    BY <2>2, <2>6 DEF OneLink
  <2>8. ~ (c = d /\ a - 1 = b - 1)
    BY <2>2, <2>3
  <2>9. a - 1 \in Bad
    BY <2>6, <2>7, <2>8
  <2> QED
    BY <2>1, <2>3, <2>9
<1> QED
  BY <1>1

LEMMA StepsShort ==
    ASSUME NEW F, OneLink(F), NEW c, NEW g, NEW j, Steps(F, c, g, j), Unlinked(F, c)
    PROVE  j <= Last - 2
<1>1. j \in Nat /\ \A k \in 0..j : g[k] \in Clusters
  BY StepsFacts
<1> PICK S : S = 0..j
  OBVIOUS
<1> PICK T : T = 2..Last
  OBVIOUS
<1>2. g \in [S -> T]
  BY Disk DEF Steps
<1>3. IsFiniteSet(S) /\ Cardinality(S) = j + 1
  BY <1>1, FS_Interval
<1>4. IsFiniteSet(T) /\ Cardinality(T) = Last - 1
  BY Disk, FS_Interval
<1>5. ~ \E x, y \in S : x # y /\ g[x] = g[y]
  BY StepsMeet
<1>6. ~ (Cardinality(T) < Cardinality(S))
  <2>1. IsFiniteSet(S) /\ IsFiniteSet(T)
    BY <1>3, <1>4
  <2>2. ASSUME Cardinality(T) < Cardinality(S) PROVE \E x, y \in S : x # y /\ g[x] = g[y]
    BY ONLY <1>2, <2>1, <2>2, FS_PigeonHole, Zenon
  <2> QED
    BY <1>5, <2>2
<1> QED
  BY <1>1, <1>3, <1>4, <1>6, Disk

(* The loop over the chain visits them.                                    *)
LEMMA StepsVisited ==
    ASSUME NEW F, NEW c, NEW g, NEW j, Steps(F, c, g, j), NEW w, Visits(F, c, w, Last - 2)
    PROVE  \A k \in 0..j : k <= Last - 2 => w[k] = g[k]
<1> DEFINE Bad == {k \in 0..j : k <= Last - 2 /\ w[k] # g[k]}
<1>0. j \in Nat /\ Last - 2 \in Nat
  BY StepsFacts, Disk
<1>1. ASSUME Bad # {} PROVE FALSE
  <2>0. Bad \subseteq Nat
    BY <1>0
  <2>1. PICK a \in Bad : \A y \in Bad : a <= y
    BY <1>1, <2>0, LeastNat
  <2>2. a \in 0..j /\ a <= Last - 2 /\ w[a] # g[a] /\ a \in 0..(Last - 2)
    BY <1>0, <2>1
  <2>3. a # 0
    BY <1>0, <2>2, StepsFacts, VisitsStep
  <2>4. a - 1 \in 0..j /\ F[g[a - 1]] = g[a] /\ g[a - 1] \in Clusters
    BY <2>2, <2>3, StepsFacts
  <2>5. w[a] = IF w[a - 1] \in Clusters THEN F[w[a - 1]] ELSE w[a - 1]
    BY <1>0, <2>2, <2>3, VisitsStep
  <2>6. a - 1 \notin Bad
    BY <1>0, <2>1, <2>2
  <2>7. w[a - 1] = g[a - 1]
    BY <1>0, <2>2, <2>4, <2>6
  <2> QED
    BY <2>2, <2>4, <2>5, <2>7
<1> QED
  BY <1>1

(* The length of a chain.                                                  *)
LengthOf(w) == Cardinality({k \in 0..(Last - 2) : w[k] \in Clusters})

LEMMA StepsLength ==
    ASSUME NEW F, NEW c, NEW g, NEW j, Steps(F, c, g, j), j <= Last - 2, NEW w, Visits(F, c, w, Last - 2)
    PROVE  LengthOf(w) \in Nat /\ j < LengthOf(w)
<1>0. j \in Nat /\ Last - 2 \in Nat
  BY StepsFacts, Disk
<1> PICK A : A = 0..(Last - 2)
  OBVIOUS
<1> PICK B : B = {k \in 0..(Last - 2) : w[k] \in Clusters}
  OBVIOUS
<1> PICK C : C = 0..j
  OBVIOUS
<1>1. IsFiniteSet(A)
  BY <1>0, FS_Interval
<1>2. IsFiniteSet(B)
  <2>1. B \in SUBSET A
    OBVIOUS
  <2> QED
    BY <1>1, <2>1, FS_Subset
<1>3. C \in SUBSET B
  BY <1>0, StepsVisited, StepsFacts
<1>4. Cardinality(C) <= Cardinality(B) /\ Cardinality(B) \in Nat
  BY <1>2, <1>3, FS_Subset, FS_CardinalityType
<1>5. Cardinality(C) = j + 1
  BY <1>0, FS_Interval
<1>6. LengthOf(w) = Cardinality(B)
  BY DEF LengthOf
<1> QED
  BY <1>0, <1>4, <1>5, <1>6

-----------------------------------------------------------------------------
(* The sizes of files and what is in their clusters                        *)

(* The chain from c has room for n bytes.                                  *)
Covered(F, c, n) == n = 0 \/ \E g, j : Steps(F, c, g, j) /\ n <= SectorSize * (j + 1)

(* ... also that of a deleted entry.                                       *)
Sized(F, D) ==
    \A p \in Slots : ~ Rec(D, p).dir => Covered(F, Rec(D, p).clus, Rec(D, p).size)

(* The first o bytes of b are in the clusters of g.                        *)
Holds(A, g, j, b, o) ==
    \A k \in 0..j, r \in 0..(SectorSize - 1) :
      SectorSize * k + r < o => A[g[k]][r] = b[SectorSize * k + r + 1]

(* write_chain is at the j-th cluster of the chain, and all of the buffer  *)
(* before that is stored.                                                  *)
WritesAt(g, j) ==
    /\ Steps(fat, job.first, g, j) /\ g[j] = job.cur
    /\ job.off \in Nat /\ job.off <= Len(job.buf)
    /\ pc = "data" => job.off = SectorSize * j /\ job.off < Len(job.buf)
    /\ pc \in {"link", "mark"} => job.off = SectorSize * (j + 1) /\ job.off < Len(job.buf)
    /\ pc = "entry" => job.off = Len(job.buf) /\ job.off <= SectorSize * (j + 1)
    /\ Holds(data, g, j, job.buf, job.off)

IsData(A) == A = [c \in Clusters |-> A[c]]

Held ==
    /\ Sized(fat, dir) /\ IsData(data)
    /\ pc \in Writing => \E g, j : WritesAt(g, j)

(* What is needed of the shape of the disk.                                *)
Basic(F, D, X, R) ==
    /\ Typed(F, D) /\ Areas(F, X, R) /\ Layout(D, X, R) /\ Single(F, D)
    /\ \A p \in LiveIn(D) : ~ Rec(D, p).dir =>
         Rec(D, p).clus = 0 \/ (Rec(D, p).clus \in Clusters /\ Rec(D, p).clus \notin X)

LEMMA GoodBasic ==
    ASSUME NEW X, NEW R, NEW q, NEW n, NEW e, Good(X, R, q, n, e)
    PROVE  Basic(fat, dir, X, R)
BY DEF Good, Shape, Kinds, Basic

LEMMA SingleLinks ==
    ASSUME NEW F, NEW D, Single(F, D)
    PROVE  OneLink(F)
BY DEF Single, OneLink

(* The chain of a file.                                                    *)
LEMMA FileChain ==
    ASSUME NEW F, NEW D, NEW X, NEW R, Basic(F, D, X, R),
           NEW p \in LiveIn(D), ~ Rec(D, p).dir, NEW g, NEW j, Steps(F, Rec(D, p).clus, g, j)
    PROVE  /\ OneLink(F) /\ Unlinked(F, Rec(D, p).clus)
           /\ Rec(D, p).clus \in Clusters /\ Rec(D, p).clus \notin X
<1>1. Rec(D, p).clus \in Clusters
  BY StepsFacts
<1>2. Rec(D, p).clus \notin X
  BY <1>1, Disk DEF Basic
<1>3. Unlinked(F, Rec(D, p).clus)
  BY <1>1 DEF Basic, Single, Unlinked
<1> QED
  BY <1>1, <1>2, <1>3, SingleLinks DEF Basic

(* It stays outside the directories.                                       *)
LEMMA ChainOutside ==
    ASSUME NEW F, NEW X, NEW R, Areas(F, X, R), NEW c, c \notin X, NEW g, NEW j, Steps(F, c, g, j)
    PROVE  \A k \in 0..j : g[k] \notin X
<1> DEFINE Bad == {k \in 0..j : g[k] \in X}
<1>0. j \in Nat
  BY StepsFacts
<1>1. ASSUME Bad # {} PROVE FALSE
  <2>0. Bad \subseteq Nat
    BY <1>0
  <2>1. PICK a \in Bad : \A y \in Bad : a <= y
    BY <1>1, <2>0, LeastNat
  <2>2. a # 0
    BY <2>1, StepsFacts
  <2>3. a - 1 \in 0..j /\ F[g[a - 1]] = g[a] /\ g[a - 1] \in Clusters
    BY <2>1, <2>2, StepsFacts
  <2>4. g[a - 1] \notin X
    <3>1. a - 1 \notin Bad
      BY <1>0, <2>1, <2>2
    <3> QED
      BY <2>3, <3>1
  <2> QED
    BY <2>1, <2>3, <2>4 DEF Areas
<1> QED
  BY <1>1

LEMMA CoveredKept ==
    ASSUME NEW F, NEW F1, LinksKept(F, F1), NEW c, NEW n, Covered(F, c, n)
    PROVE  Covered(F1, c, n)
<1>1. CASE n = 0
  BY <1>1 DEF Covered
<1>2. CASE n # 0
  <2>1. PICK g, j : Steps(F, c, g, j) /\ n <= SectorSize * (j + 1)
    BY <1>2 DEF Covered
  <2>2. Steps(F1, c, g, j)
    BY <2>1, StepsKept
  <2> QED
    BY <2>1, <2>2 DEF Covered
<1> QED
  BY <1>1, <1>2

LEMMA SizedKept ==
    ASSUME NEW F, NEW F1, LinksKept(F, F1), NEW D, Sized(F, D)
    PROVE  Sized(F1, D)
BY CoveredKept DEF Sized

(* Of every file but the one at ex, the entry and the clusters stay the    *)
(* same.                                                                   *)
SameFile(D, D1, p) == Rec(D1, p).clus = Rec(D, p).clus /\ Rec(D1, p).size = Rec(D, p).size

SameBytes(F, c, A, A1) ==
    \A g, j : Steps(F, c, g, j) => \A k \in 0..j : A1[g[k]] = A[g[k]]

Gentle(F, D, A, D1, A1, ex) ==
    \A p \in LiveIn(D) : p \in LiveIn(D1) /\ ~ Rec(D, p).dir /\ ~ Rec(D1, p).dir /\ p # ex
       => SameFile(D, D1, p) /\ SameBytes(F, Rec(D, p).clus, A, A1)

LEMMA GentleSame ==
    ASSUME NEW F, NEW D, NEW A, NEW ex
    PROVE  Gentle(F, D, A, D, A, ex)
BY DEF Gentle, SameFile, SameBytes

SameRec(old, en) == ~ old.dir /\ en.clus = old.clus /\ en.size = old.size

(* An entry with room for its size may replace that at v, which is of no   *)
(* file, or of the one at ex; any other keeps its clusters and its size.   *)
Replaces(F, D, v, en, ex) ==
    /\ en.dir \/ SameRec(Rec(D, v), en) \/ Covered(F, en.clus, en.size)
    /\ \/ v = ex \/ Rec(D, v).name \notin Names \/ en.name \notin Names
       \/ Rec(D, v).dir \/ SameRec(Rec(D, v), en)

SlotStored(D, A, D1, A1, v, en) ==
    D1 = [D EXCEPT ![v[1]][v[2]] = en] /\ A1 = [A EXCEPT ![v[1]] = Zeros]

(* One slot of a directory is written.                                     *)
LEMMA SlotHeld ==
    ASSUME NEW F, NEW D, NEW X, NEW R, Basic(F, D, X, R), Sized(F, D), NEW A, IsData(A),
           NEW v \in Slots, v[1] \in X, NEW en \in EntrySet, NEW ex,
           Replaces(F, D, v, en, ex),
           NEW D1, NEW A1, SlotStored(D, A, D1, A1, v, en)
    PROVE  Sized(F, D1) /\ IsData(A1) /\ Gentle(F, D, A, D1, A1, ex)
<1>0. Typed(F, D) /\ Areas(F, X, R) /\ v[1] \in Clusters
  BY DEF Basic, Areas
<1>1. \A p \in Slots : Rec(D1, p) = IF p = v THEN en ELSE Rec(D, p)
  <2>1. D \in [Clusters -> [SlotIx -> EntrySet]]
    BY <1>0 DEF Typed
  <2>2. Written(D, D1, v, en)
    <3>1. D1 = [D EXCEPT ![v[1]][v[2]] = en]
      BY DEF SlotStored
    <3> QED
      BY <2>1, <3>1, SlotWritten
  <2> QED
    BY <2>2 DEF Written
<1>2. Sized(F, D1)
  <2>1. ASSUME NEW p \in Slots, ~ Rec(D1, p).dir PROVE Covered(F, Rec(D1, p).clus, Rec(D1, p).size)
    <3>1. CASE p = v
      <4>1. Rec(D1, p) = en /\ ~ en.dir
        BY <1>1, <2>1, <3>1
      <4>2. CASE SameRec(Rec(D, v), en)
        BY <4>1, <4>2 DEF SameRec, Sized
      <4>3. CASE Covered(F, en.clus, en.size)
        BY <4>1, <4>3
      <4> QED
        BY <4>1, <4>2, <4>3 DEF Replaces
    <3>2. CASE p # v
      BY <1>1, <2>1, <3>2 DEF Sized
    <3> QED
      BY <3>1, <3>2
  <2> QED
    BY <2>1 DEF Sized
<1>3. IsData(A1) /\ \A x \in Clusters : x # v[1] => A1[x] = A[x]
  BY <1>0 DEF IsData, SlotStored
<1>4. ASSUME NEW p \in LiveIn(D), p \in LiveIn(D1), ~ Rec(D, p).dir, ~ Rec(D1, p).dir, p # ex
      PROVE  SameFile(D, D1, p) /\ SameBytes(F, Rec(D, p).clus, A, A1)
  <2>0. p \in Slots /\ Rec(D, p).name \in Names /\ Rec(D1, p).name \in Names
    BY <1>4 DEF LiveIn
  <2>1. SameFile(D, D1, p)
    <3>1. CASE p = v
      <4>1. Rec(D1, p) = en
        BY <1>1, <2>0, <3>1
      <4> QED
        BY <1>4, <2>0, <3>1, <4>1 DEF Replaces, SameRec, SameFile
    <3>2. CASE p # v
      BY <1>1, <2>0, <3>2 DEF SameFile
    <3> QED
      BY <3>1, <3>2
  <2>2. ASSUME NEW g, NEW j, Steps(F, Rec(D, p).clus, g, j), NEW k \in 0..j PROVE A1[g[k]] = A[g[k]]
    <3>1. Rec(D, p).clus \notin X
      BY <1>4, <2>2, FileChain
    <3>2. g[k] \notin X /\ g[k] \in Clusters
      BY <1>0, <2>2, <3>1, ChainOutside, StepsFacts
    <3> QED
      BY <1>3, <3>2
  <2> QED
    BY <2>1, <2>2 DEF SameBytes
<1> QED
  BY <1>2, <1>3, <1>4 DEF Gentle

(* Sector s is not in the chain of a file, except for the one at ex.       *)
Elsewhere(F, D, s, ex) ==
    \A p \in LiveIn(D) : ~ Rec(D, p).dir /\ p # ex =>
      \A g, j : Steps(F, Rec(D, p).clus, g, j) => \A k \in 0..j : g[k] # s

SectorStored(D, A, D1, A1, s, B, Z) == D1 = [D EXCEPT ![s] = B] /\ A1 = [A EXCEPT ![s] = Z]

(* A whole sector is written, outside the directories.                     *)
LEMMA SectorHeld ==
    ASSUME NEW F, NEW D, NEW X, NEW R, Basic(F, D, X, R), Sized(F, D), NEW A, IsData(A),
           NEW s \in Clusters, s \notin X, NEW B, \A i \in SlotIx : B[i].size = 0, NEW Z, NEW ex,
           Elsewhere(F, D, s, ex),
           NEW D1, NEW A1, SectorStored(D, A, D1, A1, s, B, Z)
    PROVE  Sized(F, D1) /\ IsData(A1) /\ Gentle(F, D, A, D1, A1, ex)
<1>0. Typed(F, D) /\ Layout(D, X, R)
  BY DEF Basic
<1>1. D1[s] = B /\ \A x \in Clusters : x # s => D1[x] = D[x]
  BY <1>0 DEF Typed, SectorStored
<1>2. Sized(F, D1)
  <2>1. ASSUME NEW p \in Slots, ~ Rec(D1, p).dir PROVE Covered(F, Rec(D1, p).clus, Rec(D1, p).size)
    <3>0. p[1] \in Clusters /\ p[2] \in SlotIx
      BY DEF Slots
    <3>1. CASE p[1] = s
      BY <1>1, <3>0, <3>1 DEF Rec, Covered
    <3>2. CASE p[1] # s
      <4>1. Rec(D1, p) = Rec(D, p)
        BY <1>1, <3>0, <3>2 DEF Rec
      <4> QED
        BY <2>1, <4>1 DEF Sized
    <3> QED
      BY <3>1, <3>2
  <2> QED
    BY <2>1 DEF Sized
<1>3. IsData(A1) /\ \A x \in Clusters : x # s => A1[x] = A[x]
  BY DEF IsData, SectorStored
<1>4. ASSUME NEW p \in LiveIn(D), ~ Rec(D, p).dir, p # ex
      PROVE  SameFile(D, D1, p) /\ SameBytes(F, Rec(D, p).clus, A, A1)
  <2>1. p[1] \in Clusters /\ p[1] # s
    BY <1>0 DEF Layout, LiveIn, Slots
  <2>2. SameFile(D, D1, p)
    BY <1>1, <2>1 DEF SameFile, Rec
  <2>3. ASSUME NEW g, NEW j, Steps(F, Rec(D, p).clus, g, j), NEW k \in 0..j PROVE A1[g[k]] = A[g[k]]
    <3>1. g[k] # s /\ g[k] \in Clusters
      <4>1. g[k] # s
        BY <1>4, <2>3 DEF Elsewhere
      <4> QED
        BY <2>3, <4>1, StepsFacts
    <3> QED
      BY <1>3, <3>1
  <2> QED
    BY <2>2, <2>3 DEF SameBytes
<1> QED
  BY <1>2, <1>3, <1>4 DEF Gentle

-----------------------------------------------------------------------------
(* Every step again                                                        *)

(* What a step keeps, for files other than the one at ex.                  *)
Fine(ex) ==
    /\ Held' /\ LinksKept(fat, fat')
    /\ Gentle(fat, dir, data, dir', data', ex)

LEMMA HeldFacts == Held => Sized(fat, dir) /\ IsData(data)
BY DEF Held

LEMMA NotWriting == \A x \in {"idle"} \cup Making \cup Removing : x \notin Writing
BY DEF Writing, Making, Removing

(* A step that writes only in the FAT.                                     *)
LEMMA FatFine ==
    ASSUME Held, LinksKept(fat, fat'), dir' = dir, data' = data, NEW ex,
           pc' \in Writing => (\E g, j : WritesAt(g, j))'
    PROVE  Fine(ex)
<1>1. Sized(fat', dir) /\ IsData(data)
  BY HeldFacts, SizedKept
<1>2. Gentle(fat, dir, data, dir', data', ex)
  BY GentleSame
<1>3. Held'
  BY <1>1 DEF Held
<1> QED
  BY <1>2, <1>3 DEF Fine

LEMMA SameLinksKept ==
    ASSUME NEW F
    PROVE  LinksKept(F, F)
BY DEF LinksKept

LEMMA QuietFine ==
    ASSUME Held, fat' = fat, dir' = dir, data' = data, pc' \notin Writing, NEW ex
    PROVE  Fine(ex)
<1>1. LinksKept(fat, fat')
  BY SameLinksKept
<1> QED
  BY <1>1, FatFine

(* A step that writes an entry.                                            *)
LEMMA SlotFine ==
    ASSUME NEW X, NEW R, NEW q, NEW n, NEW e, Good(X, R, q, n, e), Held, fat' = fat, pc' \notin Writing,
           NEW v \in Slots, v[1] \in X, NEW en \in EntrySet, NEW ex,
           Replaces(fat, dir, v, en, ex),
           dir' = [dir EXCEPT ![v[1]][v[2]] = en], data' = [data EXCEPT ![v[1]] = Zeros]
    PROVE  Fine(ex)
<1>1. Basic(fat, dir, X, R) /\ Sized(fat, dir) /\ IsData(data)
  BY GoodBasic, HeldFacts
<1>2. Sized(fat, dir') /\ IsData(data') /\ Gentle(fat, dir, data, dir', data', ex)
  <2>1. SlotStored(dir, data, dir', data', v, en)
    BY DEF SlotStored
  <2> QED
    BY <1>1, <2>1, SlotHeld
<1>3. Held'
  BY <1>2 DEF Held
<1>4. LinksKept(fat, fat')
  BY SameLinksKept
<1> QED
  BY <1>2, <1>3, <1>4 DEF Fine

LEMMA CreateFine ==
    ASSUME NEW X, NEW R, NEW q, NEW n, NEW e, Good(X, R, q, n, e), Held,
           NEW nm \in Names, NEW isdir \in BOOLEAN, create_entry_at(cwd, nm, isdir),
           fat' = fat, pc' \notin Writing, NEW ex
    PROVE  Fine(ex)
<1> PICK v : v = VacantSlot(cwd)
  OBVIOUS
<1> PICK en : en = NewEntry(nm, isdir)
  OBVIOUS
<1>0. cwd \in X /\ (cwd \in R => cwd = Root) /\ Areas(fat, X, R)
  BY Here
<1>1. /\ v # NoSlot /\ dir' = [dir EXCEPT ![v[1]][v[2]] = en]
      /\ data' = [data EXCEPT ![v[1]] = Zeros]
  BY DEF create_entry_at, WriteSlot
<1>2. /\ Rec(dir, v).name \in {Unused, Deleted} /\ InDir(X, R, cwd, v)
  BY <1>0, <1>1, VacantSearch
<1>3. en \in EntrySet /\ Covered(fat, en.clus, en.size)
  BY DEF NewEntry, EntrySet, AllNames, Covered
<1>4. v \in Slots /\ v[1] \in X /\ Rec(dir, v).name \notin Names
  BY <1>2, NameFacts DEF InDir
<1>5. Replaces(fat, dir, v, en, ex)
  BY <1>3, <1>4 DEF Replaces
<1> QED
  BY <1>1, <1>3, <1>4, <1>5, SlotFine

(* An entry gets another name, of a live one or the mark of a deleted one. *)
LEMMA NameFine ==
    ASSUME NEW X, NEW R, NEW q, NEW n, NEW e, Good(X, R, q, n, e), Held,
           NEW v \in Slots, v[1] \in X, NEW nm \in AllNames,
           NEW en, en = [Rec(dir, v) EXCEPT !.name = nm],
           dir' = [dir EXCEPT ![v[1]][v[2]] = en], data' = [data EXCEPT ![v[1]] = Zeros],
           fat' = fat, pc' \notin Writing, NEW ex
    PROVE  Fine(ex)
<1>0. Rec(dir, v) \in EntrySet
  BY Here, RecTyped
<1>1. en \in EntrySet /\ en.clus = Rec(dir, v).clus /\ en.size = Rec(dir, v).size
  BY <1>0 DEF EntrySet
<1>2. en.dir = Rec(dir, v).dir
  BY <1>0 DEF EntrySet
<1>3. Rec(dir, v).dir \/ SameRec(Rec(dir, v), en)
  BY <1>1 DEF SameRec
<1>4. en.dir \/ SameRec(Rec(dir, v), en)
  BY <1>2, <1>3
<1>5. Replaces(fat, dir, v, en, ex)
  BY <1>3, <1>4 DEF Replaces
<1> QED
  BY <1>1, <1>5, SlotFine

LEMMA DeleteFine ==
    ASSUME NEW X, NEW R, NEW q, NEW n, NEW e, Good(X, R, q, n, e), Held,
           NEW nm \in Names, fat32_delete_file(nm), NEW ex
    PROVE  Fine(ex)
<1> PICK v : v = find_entry(cwd, nm)
  OBVIOUS
<1> PICK en : en = [Rec(dir, v) EXCEPT !.name = Deleted]
  OBVIOUS
<1>0. cwd \in X /\ (cwd \in R => cwd = Root) /\ Areas(fat, X, R) /\ Typed(fat, dir)
  BY Here
<1>1. /\ pc = "idle" /\ v # NoSlot /\ dir' = [dir EXCEPT ![v[1]][v[2]] = en]
      /\ data' = [data EXCEPT ![v[1]] = Zeros] /\ fat' = fat /\ pc' = pc
  BY NamedSame DEF fat32_delete_file, delete_entry_at, WriteSlot, Erase, Idle
<1>2. Rec(dir, v).name = nm /\ InDir(X, R, cwd, v)
  BY <1>0, <1>1, FindSearch
<1>3. v \in Slots /\ v[1] \in X /\ Deleted \in AllNames /\ pc' \notin Writing
  BY <1>1, <1>2, NotWriting DEF InDir, AllNames
<1> QED
  BY <1>1, <1>3, NameFine

LEMMA RenameFine ==
    ASSUME NEW X, NEW R, NEW q, NEW n, NEW e, Good(X, R, q, n, e), Held,
           NEW old \in Names, NEW new \in Names, fat32_rename(old, new), NEW ex
    PROVE  Fine(ex)
<1> PICK v : v = EntryNamed(cwd, old)
  OBVIOUS
<1> PICK en : en = [Rec(dir, v) EXCEPT !.name = new]
  OBVIOUS
<1>0. cwd \in X /\ (cwd \in R => cwd = Root) /\ Areas(fat, X, R) /\ Typed(fat, dir)
  BY Here
<1>1. /\ pc = "idle" /\ v # NoSlot /\ dir' = [dir EXCEPT ![v[1]][v[2]] = en]
      /\ data' = [data EXCEPT ![v[1]] = Zeros] /\ fat' = fat /\ pc' = pc
  BY NamedSame DEF fat32_rename, WriteSlot, Idle
<1>2. Rec(dir, v).name = old /\ InDir(X, R, cwd, v)
  BY <1>0, <1>1, EntrySearch
<1>3. v \in Slots /\ v[1] \in X /\ new \in AllNames /\ pc' \notin Writing
  BY <1>1, <1>2, NotWriting DEF InDir, AllNames
<1> QED
  BY <1>1, <1>3, NameFine

LEMMA RmdirEraseFine ==
    ASSUME NEW X, NEW R, NEW q, NEW n, NEW e, Good(X, R, q, n, e), Held, RmdirErase, NEW ex
    PROVE  Fine(ex)
<1> PICK en : en = [Rec(dir, e) EXCEPT !.name = Deleted]
  OBVIOUS
<1>1. pc = "erase"
  BY DEF RmdirErase
<1>2. Odd(e) = e /\ Dead(e) = e /\ Unmarked = 0 /\ pc \in Removing
  BY <1>1 DEF Odd, Dead, Unmarked, Removing
<1>3. Shape(fat, dir, X, R, q, n, e, 0, e) /\ RemoveJob(X, R, q, n, e)
  BY <1>2 DEF Good
<1>4. job.slot = e /\ e \in LiveIn(dir)
  BY <1>3 DEF RemoveJob
<1>5. /\ dir' = [dir EXCEPT ![e[1]][e[2]] = en] /\ data' = [data EXCEPT ![e[1]] = Zeros]
      /\ fat' = fat /\ pc' = "idle"
  BY <1>4, NamedSame DEF RmdirErase, WriteSlot, Erase, Return
<1>6. e \in Slots /\ e[1] \in X /\ Deleted \in AllNames /\ pc' \notin Writing
  BY <1>3, <1>4, <1>5, NotWriting DEF Shape, Layout, LiveIn, AllNames
<1> QED
  BY <1>5, <1>6, NameFine

(* A cluster without a link to another one gets a new value.               *)
LEMMA LinksUpdated ==
    ASSUME NEW F, NEW D, Typed(F, D), NEW c, F[c] \notin Clusters, NEW b, NEW F1, F1 = [F EXCEPT ![c] = b]
    PROVE  LinksKept(F, F1)
BY DEF LinksKept, Typed

LEMMA RmdirFreeFine ==
    ASSUME NEW X, NEW R, NEW q, NEW n, NEW e, Good(X, R, q, n, e), Held, RmdirFree(fat[job.cur]), NEW ex
    PROVE  Fine(ex)
<1> PICK c : c = job.cur
  OBVIOUS
<1>0. Areas(fat, X, R) /\ Typed(fat, dir)
  BY Here
<1>1. /\ pc = "free" /\ fat' = [fat EXCEPT ![c] = 0] /\ pc' \in {"free", "erase"}
      /\ dir' = dir /\ data' = data
  BY DEF RmdirFree, fat_write_entry
<1>2. pc \in Removing /\ pc' \notin Writing
  BY <1>1 DEF Removing, Writing
<1>3. RemoveJob(X, R, q, n, e)
  BY <1>2 DEF Good
<1>4. c \in X /\ c \notin R
  BY <1>1, <1>3 DEF RemoveJob
<1>5. fat[c] \notin Clusters
  BY <1>0, <1>4, Disk DEF Areas
<1>6. LinksKept(fat, fat')
  BY <1>0, <1>1, <1>5, LinksUpdated
<1> QED
  BY <1>1, <1>2, <1>6, FatFine

LEMMA MkdirMarkFine ==
    ASSUME NEW X, NEW R, NEW q, NEW n, NEW e, Good(X, R, q, n, e), Held, MkdirMark, NEW ex
    PROVE  Fine(ex)
<1> PICK f : f = job.new
  OBVIOUS
<1>0. Typed(fat, dir)
  BY Here
<1>1. /\ pc = "mkmark" /\ fat' = [fat EXCEPT ![f] = EOC] /\ dir' = dir /\ data' = data /\ pc' = "mkinit"
  BY DEF MkdirMark, fat_write_entry
<1>2. pc \in Making /\ pc' \notin Writing
  BY <1>1 DEF Making, Writing
<1>3. MakeJob(X, R, e)
  BY <1>2 DEF Good
<1>4. fat[f] \notin Clusters
  BY <1>1, <1>3, Disk DEF MakeJob
<1>5. LinksKept(fat, fat')
  BY <1>0, <1>1, <1>4, LinksUpdated
<1> QED
  BY <1>1, <1>2, <1>5, FatFine

LEMMA MkdirSetFine ==
    ASSUME NEW X, NEW R, NEW q, NEW n, NEW e, Good(X, R, q, n, e), Held, MkdirSet, NEW ex
    PROVE  Fine(ex)
<1> PICK p : p = DirNamed(cwd, job.name)
  OBVIOUS
<1> PICK f : f = job.new
  OBVIOUS
<1> PICK en : en = [Rec(dir, p) EXCEPT !.clus = f]
  OBVIOUS
<1>0. cwd \in X /\ (cwd \in R => cwd = Root) /\ Areas(fat, X, R) /\ Typed(fat, dir)
  BY Here
<1>1. /\ pc = "mkset" /\ dir' = [dir EXCEPT ![p[1]][p[2]] = en] /\ data' = [data EXCEPT ![p[1]] = Zeros]
      /\ fat' = fat /\ pc' = "mkmark"
  BY NamedSame DEF MkdirSet, WriteSlot
<1>2. Odd(e) = e /\ Dead(e) = NoSlot /\ Unmarked = 0 /\ pc \in Making /\ pc' \notin Writing
  BY <1>1 DEF Odd, Dead, Unmarked, Making, Writing
<1>3. Shape(fat, dir, X, R, q, n, e, 0, NoSlot) /\ MakeJob(X, R, e)
  BY <1>2 DEF Good
<1>4. /\ f \in Clusters /\ fat[f] = 0
      /\ e \in LiveIn(dir) /\ Rec(dir, e).dir
      /\ FirstIn(fat, cwd, DirsIn(dir, job.name), e)
  BY <1>1, <1>3 DEF MakeJob
<1>5. p = e
  <2>1. FirstIn(fat, cwd, DirsIn(dir, job.name), p)
    BY <1>0, DirNamedSearch
  <2> QED
    BY <1>4, <2>1, SameFirst
<1>6. e \in Slots /\ e[1] \in X
  BY <1>3, <1>4 DEF Shape, Layout, LiveIn
<1>7. Rec(dir, e) \in EntrySet /\ f \in Nat
  BY <1>0, <1>4, <1>6, RecTyped, Disk
<1>8. en \in EntrySet
  BY <1>5, <1>7 DEF EntrySet
<1>9. en.dir
  BY <1>4, <1>5, <1>7 DEF EntrySet
<1>10. Replaces(fat, dir, e, en, ex)
  BY <1>4, <1>9 DEF Replaces
<1> QED
  BY <1>1, <1>2, <1>5, <1>6, <1>8, <1>10, SlotFine

(* The chain that an entry leads to, or that only the entry at e may lead  *)
(* to, has nothing in common with those of other files.                    *)
LEMMA ChainElsewhere ==
    ASSUME NEW F, NEW D, NEW X, NEW R, Basic(F, D, X, R), NEW c, NEW e, Unshared(F, D, c, e),
           NEW g, NEW j, Steps(F, c, g, j), NEW k \in 0..j, NEW s, s = g[k]
    PROVE  Elsewhere(F, D, s, e)
<1>1. SUFFICES ASSUME NEW p \in LiveIn(D), ~ Rec(D, p).dir, p # e,
                      NEW h, NEW i, Steps(F, Rec(D, p).clus, h, i), NEW l \in 0..i, h[l] = s
               PROVE  FALSE
  BY DEF Elsewhere
<1>2. OneLink(F) /\ Unlinked(F, Rec(D, p).clus)
  BY <1>1, FileChain
<1>3. Unlinked(F, c)
  BY DEF Unshared, Unlinked
<1>4. c = Rec(D, p).clus
  <2>1. g[k] = h[l]
    BY <1>1
  <2> QED
    BY <1>1, <1>2, <1>3, <2>1, StepsMeet
<1> QED
  BY <1>1, <1>4 DEF Unshared

LEMMA MkdirInitFine ==
    ASSUME NEW X, NEW R, NEW q, NEW n, NEW e, Good(X, R, q, n, e), Held, MkdirInit, NEW ex
    PROVE  Fine(ex)
<1> PICK f : f = job.new
  OBVIOUS
<1> PICK B : B = DotEntries(f, cwd)
  OBVIOUS
<1>1. /\ pc = "mkinit" /\ dir' = [dir EXCEPT ![f] = B] /\ data' = [data EXCEPT ![f] = Zeros]
      /\ fat' = fat /\ pc' = "idle"
  BY DEF MkdirInit, Return
<1>2. pc \in Making /\ pc' \notin Writing
  BY <1>1 DEF Making, Writing
<1>3. MakeJob(X, R, e)
  BY <1>2 DEF Good
<1>4. /\ f \in Clusters /\ f \notin X /\ e \in LiveIn(dir) /\ Rec(dir, e).dir /\ Rec(dir, e).clus = f
  BY <1>1, <1>3 DEF MakeJob
<1>5. Basic(fat, dir, X, R) /\ Sized(fat, dir) /\ IsData(data)
  BY GoodBasic, HeldFacts
<1>6. Elsewhere(fat, dir, f, e)
  <2>1. Unshared(fat, dir, f, e)
    BY <1>4, <1>5, UnsharedOwn DEF Basic
  <2> PICK g : g = [k \in 0..0 |-> f]
    OBVIOUS
  <2>2. Steps(fat, f, g, 0) /\ g[0] = f
    BY <1>4, StepsStart
  <2>3. 0 \in 0..0
    OBVIOUS
  <2> QED
    BY <1>5, <2>1, <2>2, <2>3, ChainElsewhere
<1>7. Elsewhere(fat, dir, f, ex)
  BY <1>4, <1>6 DEF Elsewhere
<1>8. \A i \in SlotIx : B[i].size = 0
  BY Disk DEF DotEntries, NewEntry, Blank
<1>9. SectorStored(dir, data, dir', data', f, B, Zeros)
  BY <1>1 DEF SectorStored
<1>10. Sized(fat, dir') /\ IsData(data') /\ Gentle(fat, dir, data, dir', data', ex)
  BY <1>4, <1>5, <1>7, <1>8, <1>9, SectorHeld
<1>11. Held'
  BY <1>1, <1>2, <1>10 DEF Held
<1> QED
  BY <1>1, <1>10, <1>11, SameLinksKept DEF Fine

LEMMA WriteFileFine ==
    ASSUME NEW X, NEW R, NEW q, NEW n, NEW e, Good(X, R, q, n, e), Held,
           NEW nm \in FileNames, NEW b \in Buffers, fat32_write_file(nm, b, FindFree), NEW ex
    PROVE  Fine(ex)
<1> PICK p : p = find_entry(cwd, nm)
  OBVIOUS
<1> PICK f : f = FindFree
  OBVIOUS
<1> PICK c : c = Rec(dir, p).clus
  OBVIOUS
<1> PICK first : first = IF c = 0 THEN f ELSE c
  OBVIOUS
<1>0. cwd \in X /\ cwd = q[n] /\ (cwd \in R => cwd = Root) /\ Areas(fat, X, R) /\ Typed(fat, dir)
  BY Here
<1>1. /\ pc = "idle" /\ p # NoSlot /\ first # 0
      /\ fat' = IF c = 0 THEN [fat EXCEPT ![f] = EOC] ELSE fat
      /\ pc' = IF b = <<>> THEN "entry" ELSE "data"
      /\ job' = [NoJob EXCEPT !.name = nm, !.buf = b, !.first = first, !.cur = first]
      /\ dir' = dir /\ data' = data
  BY NamedSame DEF fat32_write_file, fat_write_entry, Idle
<1>2. Shape(fat, dir, X, R, q, n, NoSlot, 0, NoSlot)
  BY <1>1, IdleShape
<1>a. /\ Layout(dir, X, R) /\ Kinds(dir, X, R, NoSlot)
  BY <1>2 DEF Shape
<1>3. p \in NamedIn(dir, {nm}) /\ InDir(X, R, cwd, p)
  BY <1>0, <1>1, FindSome
<1>4. p \in LiveIn(dir) /\ Rec(dir, p).name = nm
  BY <1>3, NameFacts DEF NamedIn, LiveIn, InDir
<1>5. ~ Rec(dir, p).dir
  BY <1>a, <1>4, NameFacts DEF Layout
<1>6. c = 0 \/ c \in Clusters
  BY <1>a, <1>4, <1>5 DEF Kinds
<1>7. c = 0 => f \in Clusters /\ fat[f] = 0
  BY <1>1, FreeCluster
<1>8. first \in Clusters
  BY <1>6, <1>7
<1>9. LinksKept(fat, fat')
  <2>1. CASE c = 0
    <3>1. fat[f] \notin Clusters /\ fat' = [fat EXCEPT ![f] = EOC]
      BY <1>1, <1>7, <2>1, Disk
    <3> QED
      BY <1>0, <3>1, LinksUpdated
  <2>2. CASE c # 0
    <3>1. fat' = fat
      BY <1>1, <2>2
    <3> QED
      BY <3>1, SameLinksKept
  <2> QED
    BY <2>1, <2>2
<1>10. job'.first = first /\ job'.cur = first /\ job'.buf = b /\ job'.off = 0
  BY <1>1 DEF NoJob
<1>11. Len(b) \in Nat /\ SectorSize \in Nat /\ SectorSize > 0 /\ (b # <<>> => 0 < Len(b)) /\ (b = <<>> => Len(b) = 0)
  <2>1. b \in Seq(Byte)
    BY DiskAssumption
  <2> QED
    BY <2>1, DiskAssumption
<1> PICK g : g = [k \in 0..0 |-> first]
  OBVIOUS
<1>12. Steps(fat', first, g, 0) /\ g[0] = first
  BY <1>8, StepsStart
<1>13. Holds(data', g, 0, b, 0)
  <2>1. \A k \in 0..0, r \in 0..(SectorSize - 1) : ~ (SectorSize * k + r < 0)
    BY <1>11
  <2> QED
    BY <2>1 DEF Holds
<1>14. WritesAt(g, 0)'
  <2>1. pc' = "data" => 0 = SectorSize * 0 /\ 0 < Len(b)
    BY <1>1, <1>11
  <2>2. pc' \notin {"link", "mark"}
    BY <1>1
  <2>3. pc' = "entry" => 0 = Len(b) /\ 0 <= SectorSize * (0 + 1)
    BY <1>1, <1>11
  <2> QED
    BY <1>10, <1>11, <1>12, <1>13, <2>1, <2>2, <2>3 DEF WritesAt
<1>15. (\E h, i : WritesAt(h, i))'
  BY <1>14
<1> QED
  BY <1>1, <1>9, <1>15, FatFine

LEMMA WriteHeld ==
    ASSUME Held, pc \in Writing
    PROVE  \E g, j : WritesAt(g, j)
BY DEF Held

LEMMA WriteLinkFine ==
    ASSUME NEW X, NEW R, NEW q, NEW n, NEW e, Good(X, R, q, n, e), Held, WriteLink(FindFree), NEW ex
    PROVE  Fine(ex)
<1> PICK f : f = FindFree
  OBVIOUS
<1> PICK cur : cur = job.cur
  OBVIOUS
<1>0. Typed(fat, dir)
  BY Here
<1>1. /\ pc = "link" /\ f # 0 /\ fat' = [fat EXCEPT ![cur] = f] /\ pc' = "mark"
      /\ job' = [job EXCEPT !.new = f] /\ dir' = dir /\ data' = data
  BY DEF WriteLink, fat_write_entry
<1>2. pc \in Writing
  BY <1>1 DEF Writing
<1>3. WriteJob(X, R, e) /\ job \in JobSet
  BY <1>2, WriteShape
<1>4. fat[cur] \notin Clusters
  BY <1>1, <1>3, Disk DEF WriteJob
<1>5. LinksKept(fat, fat')
  BY <1>0, <1>1, <1>4, LinksUpdated
<1>6. PICK g, j : WritesAt(g, j)
  BY <1>2, WriteHeld
<1>7. job'.first = job.first /\ job'.cur = job.cur /\ job'.buf = job.buf /\ job'.off = job.off
  BY <1>1, <1>3 DEF JobSet
<1>8. /\ Steps(fat, job.first, g, j) /\ g[j] = job.cur
      /\ job.off \in Nat /\ job.off <= Len(job.buf)
      /\ job.off = SectorSize * (j + 1) /\ job.off < Len(job.buf)
      /\ Holds(data, g, j, job.buf, job.off)
  BY <1>1, <1>6 DEF WritesAt
<1>9. Steps(fat', job.first, g, j)
  BY <1>5, <1>8, StepsKept
<1>10. WritesAt(g, j)'
  BY <1>1, <1>7, <1>8, <1>9 DEF WritesAt
<1>11. (\E h, i : WritesAt(h, i))'
  BY <1>10
<1> QED
  BY <1>1, <1>5, <1>11, FatFine

(* The next cluster of the chain has none of the buffer yet.               *)
LEMMA HoldsMore ==
    ASSUME NEW A, NEW g, NEW j \in Nat, NEW b, Holds(A, g, j, b, SectorSize * (j + 1)),
           NEW h, \A k \in 0..j : h[k] = g[k]
    PROVE  Holds(A, h, j + 1, b, SectorSize * (j + 1))
<1>1. SUFFICES ASSUME NEW k \in 0..(j + 1), NEW r \in 0..(SectorSize - 1),
                      SectorSize * k + r < SectorSize * (j + 1)
               PROVE  A[h[k]][r] = b[SectorSize * k + r + 1]
  BY DEF Holds
<1>2. k # j + 1
  <2>1. SectorSize \in Nat /\ SectorSize * (j + 1) \in Nat /\ r \in Nat
    BY DiskAssumption
  <2> QED
    BY <1>1, <2>1
<1>3. k \in 0..j
  BY <1>2
<1> QED
  BY <1>1, <1>3 DEF Holds

LEMMA WriteMarkFine ==
    ASSUME NEW X, NEW R, NEW q, NEW n, NEW e, Good(X, R, q, n, e), Held, WriteMark, NEW ex
    PROVE  Fine(ex)
<1> PICK f : f = job.new
  OBVIOUS
<1> PICK cur : cur = job.cur
  OBVIOUS
<1>0. Typed(fat, dir)
  BY Here
<1>1. /\ pc = "mark" /\ fat' = [fat EXCEPT ![f] = EOC] /\ pc' = "data"
      /\ job' = [job EXCEPT !.cur = f, !.new = 0] /\ dir' = dir /\ data' = data
  BY DEF WriteMark, fat_write_entry
<1>2. pc \in Writing
  BY <1>1 DEF Writing
<1>3. WriteJob(X, R, e) /\ job \in JobSet
  BY <1>2, WriteShape
<1>4. f \in Clusters /\ fat[f] = 0 /\ fat[cur] = f /\ cur \in Clusters /\ 0 \notin Clusters
  BY <1>1, <1>3, Disk DEF WriteJob
<1>5. LinksKept(fat, fat')
  BY <1>0, <1>1, <1>4, LinksUpdated
<1>6. PICK g, j : WritesAt(g, j)
  BY <1>2, WriteHeld
<1>7. job'.first = job.first /\ job'.cur = f /\ job'.buf = job.buf /\ job'.off = job.off
  BY <1>1, <1>3 DEF JobSet
<1>8. /\ Steps(fat, job.first, g, j) /\ g[j] = cur
      /\ job.off \in Nat /\ job.off <= Len(job.buf)
      /\ job.off = SectorSize * (j + 1) /\ job.off < Len(job.buf)
      /\ Holds(data, g, j, job.buf, job.off)
  BY <1>1, <1>6 DEF WritesAt
<1>9. Steps(fat', job.first, g, j) /\ fat'[g[j]] = f
  BY <1>4, <1>5, <1>8, StepsKept DEF LinksKept
<1>a. PICK h : Longer(h, g, j, f)
  BY DEF Longer
<1>10. Steps(fat', job.first, h, j + 1) /\ h[j + 1] = f /\ \A k \in 0..j : h[k] = g[k]
  BY <1>4, <1>9, <1>a, StepsMore
<1>11. Holds(data, h, j + 1, job.buf, job.off)
  <2>1. j \in Nat
    BY <1>8, StepsFacts
  <2>2. Holds(data, g, j, job.buf, SectorSize * (j + 1))
    BY <1>8
  <2>3. Holds(data, h, j + 1, job.buf, SectorSize * (j + 1))
    BY <1>10, <2>1, <2>2, HoldsMore
  <2> QED
    BY <1>8, <2>3
<1>12. WritesAt(h, j + 1)'
  BY <1>1, <1>7, <1>8, <1>10, <1>11 DEF WritesAt
<1>13. (\E x, i : WritesAt(x, i))'
  BY <1>12
<1> QED
  BY <1>1, <1>5, <1>13, FatFine

LEMMA WriteNoSpaceFine ==
    ASSUME Held, NEW f, WriteNoSpace(f), NEW ex
    PROVE  Fine(ex)
<1>1. pc' = "idle" /\ fat' = fat /\ dir' = dir /\ data' = data
  BY DEF WriteNoSpace, Return
<1>2. pc' \notin Writing
  BY <1>1, NotWriting
<1> QED
  BY <1>1, <1>2, QuietFine

(* The entry that the operation under way looks up is the one at e.        *)
LEMMA WriteTarget ==
    ASSUME NEW X, NEW R, NEW q, NEW n, NEW e, Good(X, R, q, n, e), pc \in Writing
    PROVE  EntryNamed(cwd, job.name) = e
<1> PICK p : p = EntryNamed(cwd, job.name)
  OBVIOUS
<1>1. cwd \in X /\ (cwd \in R => cwd = Root) /\ Areas(fat, X, R)
  BY Here
<1>2. FirstIn(fat, cwd, NamedIn(dir, {job.name}), p)
  BY <1>1, EntrySearch
<1>3. WriteJob(X, R, e)
  BY WriteShape
<1>4. FirstIn(fat, cwd, NamedIn(dir, {job.name}), e)
  BY <1>3 DEF WriteJob
<1> QED
  BY <1>2, <1>4, SameFirst

LEMMA WriteEntryFine ==
    ASSUME NEW X, NEW R, NEW q, NEW n, NEW e, Good(X, R, q, n, e), Held, WriteEntry
    PROVE  Fine(e)
<1> PICK en : en = [Rec(dir, e) EXCEPT !.size = Len(job.buf), !.clus = job.first]
  OBVIOUS
<1>0. Typed(fat, dir)
  BY Here
<1>1. pc = "entry" /\ fat' = fat /\ pc' = "idle"
  BY DEF WriteEntry, Return
<1>2. pc \in Writing /\ pc' \notin Writing
  BY <1>1, NotWriting DEF Writing
<1>3. EntryNamed(cwd, job.name) = e
  BY <1>2, WriteTarget
<1>5. WriteJob(X, R, e) /\ job \in JobSet /\ Layout(dir, X, R)
  BY <1>2, WriteShape DEF Shape
<1>6. e \in Slots /\ e[1] \in X /\ e # NoSlot
  BY <1>5, Disk DEF WriteJob, Layout, LiveIn, Slots, NoSlot
<1>4. dir' = [dir EXCEPT ![e[1]][e[2]] = en] /\ data' = [data EXCEPT ![e[1]] = Zeros]
  BY <1>3, <1>6, NamedSame DEF WriteEntry, WriteSlot
<1>7. Rec(dir, e) \in EntrySet /\ Len(job.buf) \in Nat /\ job.first \in Nat
  BY <1>0, <1>5, <1>6, RecTyped DEF JobSet
<1>8. en \in EntrySet /\ en.size = Len(job.buf) /\ en.clus = job.first
  BY <1>7 DEF EntrySet
<1>9. PICK g, j : WritesAt(g, j)
  BY <1>2, WriteHeld
<1>10. Steps(fat, job.first, g, j) /\ Len(job.buf) <= SectorSize * (j + 1)
  BY <1>1, <1>9 DEF WritesAt
<1>11. Covered(fat, en.clus, en.size)
  BY <1>8, <1>10 DEF Covered
<1>12. Replaces(fat, dir, e, en, e)
  BY <1>11 DEF Replaces
<1> QED
  BY <1>1, <1>2, <1>4, <1>6, <1>8, <1>12, SlotFine

(* One turn of the loop stores the next k bytes, at the j-th cluster.      *)
LEMMA HoldsStored ==
    ASSUME NEW F, OneLink(F), NEW c, Unlinked(F, c), NEW g, NEW j, Steps(F, c, g, j),
           NEW A, IsData(A), NEW b, Holds(A, g, j, b, SectorSize * j), NEW m \in Nat, m <= SectorSize,
           NEW Z, \A r \in 0..(SectorSize - 1) : r < m => Z[r] = b[SectorSize * j + r + 1],
           NEW s, s = g[j], NEW A1, A1 = [A EXCEPT ![s] = Z]
    PROVE  Holds(A1, g, j, b, SectorSize * j + m)
<1>0. /\ j \in Nat /\ j \in 0..j /\ SectorSize \in Nat /\ \A k \in 0..j : g[k] \in Clusters
  BY StepsFacts, DiskAssumption
<1>1. A1[s] = Z /\ \A x \in Clusters : x # s => A1[x] = A[x]
  BY <1>0 DEF IsData
<1>2. SUFFICES ASSUME NEW k \in 0..j, NEW r \in 0..(SectorSize - 1),
                      SectorSize * k + r < SectorSize * j + m
               PROVE  A1[g[k]][r] = b[SectorSize * k + r + 1]
  BY DEF Holds
<1>3. CASE k = j
  <2>1. SectorSize * j \in Nat /\ r \in Nat
    BY <1>0
  <2>2. r < m
    BY <1>2, <1>3, <2>1
  <2> QED
    BY <1>1, <1>3, <2>2
<1>4. CASE k # j
  <2>1. g[k] # s
    BY <1>0, <1>4, StepsMeet
  <2>2. k < j /\ k \in Nat
    BY <1>0, <1>4
  <2>3. SectorSize * k + SectorSize <= SectorSize * j
    BY <1>0, <2>2, Times
  <2>4. SectorSize * k \in Nat /\ SectorSize * j \in Nat /\ r \in Nat /\ r < SectorSize
    BY <1>0, <2>2
  <2>5. SectorSize * k + r < SectorSize * j
    BY <1>0, <2>3, <2>4
  <2>6. A[g[k]][r] = b[SectorSize * k + r + 1]
    BY <2>5 DEF Holds
  <2> QED
    BY <1>0, <1>1, <2>1, <2>6
<1> QED
  BY <1>3, <1>4

LEMMA WriteDataFine ==
    ASSUME NEW X, NEW R, NEW q, NEW n, NEW e, Good(X, R, q, n, e), Held, WriteData(fat[job.cur])
    PROVE  Fine(e)
<1> PICK cur : cur = job.cur
  OBVIOUS
<1> PICK next : next = fat[cur]
  OBVIOUS
<1> PICK k : k = ToWrite(Len(job.buf) - job.off)
  OBVIOUS
<1> PICK Z : Z = Stored(k)
  OBVIOUS
<1> DEFINE done == job.off + k = Len(job.buf)
<1>0. Areas(fat, X, R) /\ Typed(fat, dir)
  BY Here
<1>1. /\ pc = "data" /\ dir' = [dir EXCEPT ![cur] = Blank] /\ data' = [data EXCEPT ![cur] = Z]
      /\ fat' = fat
      /\ pc' = IF done THEN "entry" ELSE IF next \in {0, EOC} THEN "link" ELSE "data"
      /\ job' = [job EXCEPT !.off = @ + k, !.cur = IF done \/ next \in {0, EOC} THEN @ ELSE next]
  BY DEF WriteData, WriteBytes
<1> HIDE DEF done
<1>2. pc \in Writing
  BY <1>1 DEF Writing
<1>3. /\ WriteJob(X, R, e) /\ job \in JobSet /\ Basic(fat, dir, X, R) /\ Sized(fat, dir) /\ IsData(data)
  BY <1>2, WriteShape, GoodBasic, HeldFacts
<1>4. /\ job.first \in Clusters /\ cur \in Clusters /\ cur \notin X /\ e \in LiveIn(dir)
      /\ Unshared(fat, dir, job.first, e) /\ OneLink(fat) /\ Unlinked(fat, job.first)
  <2>1. /\ job.first \in Clusters /\ cur \in Clusters /\ cur \notin X /\ e \in LiveIn(dir)
        /\ Rec(dir, e).clus = job.first \/ Unshared(fat, dir, job.first, e)
    BY <1>3 DEF WriteJob
  <2>2. Single(fat, dir)
    BY <1>3 DEF Basic
  <2>3. Unshared(fat, dir, job.first, e)
    BY <2>1, <2>2, UnsharedOwn
  <2> QED
    BY <2>1, <2>2, <2>3, SingleLinks DEF Unshared, Unlinked
<1>5. PICK g, j : WritesAt(g, j)
  BY <1>2, WriteHeld
<1>6. /\ Steps(fat, job.first, g, j) /\ g[j] = cur
      /\ job.off \in Nat /\ job.off = SectorSize * j /\ job.off < Len(job.buf)
      /\ Holds(data, g, j, job.buf, job.off)
  BY <1>1, <1>5 DEF WritesAt
<1>7. j \in Nat /\ j \in 0..j
  BY <1>6, StepsFacts
<1>8. /\ Sized(fat, dir') /\ IsData(data') /\ Gentle(fat, dir, data, dir', data', e)
  <2>1. Elsewhere(fat, dir, cur, e)
    BY <1>3, <1>4, <1>6, <1>7, ChainElsewhere
  <2>2. \A i \in SlotIx : Blank[i].size = 0
    BY DEF Blank
  <2>3. SectorStored(dir, data, dir', data', cur, Blank, Z)
    BY <1>1 DEF SectorStored
  <2> QED
    BY <1>3, <1>4, <2>1, <2>2, <2>3, SectorHeld
<1>9. /\ k \in Nat /\ k <= SectorSize /\ job.off + k <= Len(job.buf) /\ Len(job.buf) \in Nat
      /\ ~ done => k = SectorSize /\ job.off + k < Len(job.buf)
  <2>1. Len(job.buf) \in Nat /\ SectorSize \in Nat
    BY <1>3, DiskAssumption DEF JobSet
  <2> QED
    BY <2>1, <1>6 DEF ToWrite, done
<1>10. Holds(data', g, j, job.buf, job.off + k)
  <2>1. \A r \in 0..(SectorSize - 1) : r < k => Z[r] = job.buf[SectorSize * j + r + 1]
    BY <1>6 DEF Stored
  <2>2. Holds(data, g, j, job.buf, SectorSize * j) /\ cur = g[j] /\ data' = [data EXCEPT ![cur] = Z]
    BY <1>1, <1>6
  <2>3. Holds(data', g, j, job.buf, SectorSize * j + k)
    BY <1>3, <1>4, <1>6, <1>9, <2>1, <2>2, HoldsStored
  <2> QED
    BY <1>6, <2>3
<1>11. job'.first = job.first /\ job'.buf = job.buf /\ job'.off = job.off + k
  BY <1>1, <1>3 DEF JobSet
<1>12. job'.cur = IF done \/ next \in {0, EOC} THEN cur ELSE next
  BY <1>1, <1>3 DEF JobSet
<1>13. SectorSize * j \in Nat /\ SectorSize * (j + 1) = SectorSize * j + SectorSize /\ job.off + k \in Nat
  <2>1. SectorSize \in Nat /\ j \in Nat
    BY <1>7, DiskAssumption
  <2>2. SectorSize * j \in Nat /\ SectorSize * (j + 1) = SectorSize * j + SectorSize
    BY ONLY <2>1, SMT
  <2> QED
    BY <1>6, <1>9, <2>2
<1>14. CASE done
  <2>1. pc' = "entry" /\ job'.cur = cur
    BY <1>1, <1>12, <1>14
  <2>2. job'.off = Len(job.buf) /\ job'.off <= SectorSize * (j + 1)
    <3>1. job'.off = Len(job.buf)
      BY <1>11, <1>14 DEF done
    <3> QED
      BY <1>6, <1>9, <1>11, <1>13, <3>1, DiskAssumption
  <2>3. WritesAt(g, j)'
    BY <1>1, <1>6, <1>9, <1>10, <1>11, <1>13, <2>1, <2>2 DEF WritesAt
  <2>4. Held'
    BY <1>1, <1>8, <2>3 DEF Held
  <2> QED
    BY <1>1, <1>8, <2>4, SameLinksKept DEF Fine
<1>15. ASSUME ~ done PROVE job.off + k = SectorSize * (j + 1) /\ job.off + k < Len(job.buf)
  BY <1>6, <1>9, <1>13, <1>15
<1>16. CASE ~ done /\ next \in {0, EOC}
  <2>1. pc' = "link" /\ job'.cur = cur
    BY <1>1, <1>12, <1>16
  <2>2. WritesAt(g, j)'
    BY <1>1, <1>6, <1>9, <1>10, <1>11, <1>13, <1>15, <1>16, <2>1 DEF WritesAt
  <2>3. Held'
    BY <1>1, <1>8, <2>2 DEF Held
  <2> QED
    BY <1>1, <1>8, <2>3, SameLinksKept DEF Fine
<1>17. CASE ~ done /\ next \notin {0, EOC}
  <2>1. pc' = "data" /\ job'.cur = next
    BY <1>1, <1>12, <1>17
  <2>2. next \in Clusters /\ fat[g[j]] = next
    BY <1>0, <1>4, <1>6, <1>17 DEF Typed
  <2>a. PICK h : Longer(h, g, j, next)
    BY DEF Longer
  <2>3. Steps(fat, job.first, h, j + 1) /\ h[j + 1] = next /\ \A i \in 0..j : h[i] = g[i]
    BY <1>6, <2>2, <2>a, StepsMore
  <2>4. Holds(data', g, j, job.buf, SectorSize * (j + 1))
    BY <1>10, <1>15, <1>17
  <2>5. Holds(data', h, j + 1, job.buf, SectorSize * (j + 1))
    BY <1>7, <2>3, <2>4, HoldsMore
  <2>6. WritesAt(h, j + 1)'
    BY <1>1, <1>9, <1>11, <1>13, <1>15, <1>17, <2>1, <2>3, <2>5 DEF WritesAt
  <2>7. Held'
    BY <1>1, <1>8, <2>6 DEF Held
  <2> QED
    BY <1>1, <1>8, <2>7, SameLinksKept DEF Fine
<1> QED
  BY <1>14, <1>16, <1>17

-----------------------------------------------------------------------------

(* The file whose content a step may change.                               *)
Target(e) == IF pc \in {"data", "entry"} THEN e ELSE NoSlot

LEMMA CallFine ==
    ASSUME NEW X, NEW R, NEW q, NEW n, NEW e, Good(X, R, q, n, e), Held, Call, NEW ex
    PROVE  Fine(ex)
<1>1. ASSUME NEW nm \in FileNames, fat32_create_file(nm) PROVE Fine(ex)
  <2>1. pc' = "idle" /\ fat' = fat /\ create_entry_at(cwd, nm, FALSE)
    BY <1>1 DEF fat32_create_file, Idle
  <2>2. pc' \notin Writing /\ nm \in Names
    BY <2>1, NotWriting, NameFacts
  <2>3. FALSE \in BOOLEAN
    OBVIOUS
  <2> QED
    BY <2>1, <2>2, <2>3, CreateFine
<1>2. ASSUME NEW nm \in Names, fat32_delete_file(nm) PROVE Fine(ex)
  BY <1>2, DeleteFine
<1>3. ASSUME NEW o \in Names, NEW nm \in Names, fat32_rename(o, nm) PROVE Fine(ex)
  BY <1>3, RenameFine
<1>4. ASSUME NEW nm, NEW a, fat32_change_dir(nm, a) PROVE Fine(ex)
  <2>1. pc' = "idle" /\ fat' = fat /\ dir' = dir /\ data' = data
    BY <1>4 DEF fat32_change_dir, Idle
  <2>2. pc' \notin Writing
    BY <2>1, NotWriting
  <2> QED
    BY <2>1, <2>2, QuietFine
<1>5. ASSUME NEW nm \in FileNames, NEW b \in Buffers, fat32_write_file(nm, b, FindFree) PROVE Fine(ex)
  BY <1>5, WriteFileFine
<1>6. ASSUME NEW nm \in DirNames, fat32_mkdir(nm, FindFree) PROVE Fine(ex)
  <2>1. pc' = "mkset" /\ fat' = fat /\ create_entry_at(cwd, nm, TRUE)
    BY <1>6 DEF fat32_mkdir
  <2>2. pc' \notin Writing /\ nm \in Names
    BY <2>1, NameFacts DEF Writing
  <2>3. TRUE \in BOOLEAN
    OBVIOUS
  <2> QED
    BY <2>1, <2>2, <2>3, CreateFine
<1>7. ASSUME NEW nm, fat32_rmdir(nm) PROVE Fine(ex)
  <2>1. pc' \in {"free", "erase"} /\ fat' = fat /\ dir' = dir /\ data' = data
    BY <1>7 DEF fat32_rmdir
  <2>2. pc' \notin Writing
    BY <2>1 DEF Writing
  <2> QED
    BY <2>1, <2>2, QuietFine
<1> QED
  BY <1>1, <1>2, <1>3, <1>4, <1>5, <1>6, <1>7 DEF Call, Names

LEMMA StepFine ==
    ASSUME NEW X, NEW R, NEW q, NEW n, NEW e, Good(X, R, q, n, e), Held, Step
    PROVE  Fine(Target(e))
<1>1. CASE WriteData(fat[job.cur])
  <2>1. Target(e) = e
    BY <1>1 DEF WriteData, Target
  <2> QED
    BY <1>1, <2>1, WriteDataFine
<1>2. CASE WriteLink(FindFree)
  BY <1>2, WriteLinkFine
<1>3. CASE WriteMark
  BY <1>3, WriteMarkFine
<1>4. CASE WriteNoSpace(FindFree)
  BY <1>4, WriteNoSpaceFine
<1>5. CASE WriteEntry
  <2>1. Target(e) = e
    BY <1>5 DEF WriteEntry, Target
  <2> QED
    BY <1>5, <2>1, WriteEntryFine
<1>6. CASE MkdirSet
  BY <1>6, MkdirSetFine
<1>7. CASE MkdirMark
  BY <1>7, MkdirMarkFine
<1>8. CASE MkdirInit
  BY <1>8, MkdirInitFine
<1>9. CASE RmdirFree(fat[job.cur])
  BY <1>9, RmdirFreeFine
<1>10. CASE RmdirErase
  BY <1>10, RmdirEraseFine
<1> QED
  BY <1>1, <1>2, <1>3, <1>4, <1>5, <1>6, <1>7, <1>8, <1>9, <1>10 DEF Step

LEMMA ProperFine ==
    ASSUME NEW X, NEW R, NEW q, NEW n, NEW e, Good(X, R, q, n, e), Held, [Proper]_disk
    PROVE  Fine(Target(e))
<1>1. CASE Call
  BY <1>1, CallFine
<1>2. CASE Step
  BY <1>2, StepFine
<1>3. CASE Restart
  <2>1. pc' = "idle" /\ fat' = fat /\ dir' = dir /\ data' = data
    BY <1>3 DEF Restart, fat32_init, Return
  <2>2. pc' \notin Writing
    BY <2>1, NotWriting
  <2> QED
    BY <2>1, <2>2, QuietFine
<1>4. CASE UNCHANGED disk
  <2>1. fat' = fat /\ dir' = dir /\ data' = data /\ pc' = pc /\ job' = job
    BY <1>4 DEF disk
  <2>2. Held'
    BY <2>1 DEF Held, WritesAt
  <2> QED
    BY <2>1, <2>2, SameLinksKept, GentleSame DEF Fine
<1> QED
  BY <1>1, <1>2, <1>3, <1>4 DEF Proper

LEMMA InitHeld == Init => Held
<1>1. SUFFICES ASSUME Init PROVE Held
  OBVIOUS
<1>2. dir = [c \in Clusters |-> Blank] /\ data = [c \in Clusters |-> Zeros] /\ pc = "idle"
  BY <1>1 DEF Init
<1>3. Sized(fat, dir)
  BY <1>2 DEF Sized, Covered, Rec, Slots, Blank
<1>4. IsData(data)
  BY <1>2 DEF IsData
<1> QED
  BY <1>2, <1>3, <1>4 DEF Held, Writing

(* The shape of the disk as in DiskInvariant, and besides: every entry of  *)
(* a file, also a deleted one, has a chain with room for its size, and     *)
(* while fat32_write_file runs its cluster is in the chain from job.first, *)
(* which holds the buffer up to job.off.                                   *)
THEOREM ContentInvariant == Spec => [](misused \/ (Inv /\ Held))
<1>1. Init => misused \/ (Inv /\ Held)
  BY InitGood, InitHeld
<1>2. (misused \/ (Inv /\ Held)) /\ [Next]_vars => (misused \/ (Inv /\ Held))'
  <2>1. SUFFICES ASSUME Inv, Held, [Proper]_disk PROVE Held'
    BY ProperGood, NotMisused
  <2>2. PICK X, R, q, n, e : Good(X, R, q, n, e)
    BY <2>1 DEF Inv
  <2>3. Fine(Target(e))
    BY <2>1, <2>2, ProperFine
  <2> QED
    BY <2>3 DEF Fine
<1> QED
  BY <1>1, <1>2, PTL DEF Spec

(* The loops over the chain of a file visit all of it.                     *)
LEMMA FileWalk ==
    ASSUME NEW X, NEW R, Basic(fat, dir, X, R), NEW p \in LiveIn(dir), ~ Rec(dir, p).dir,
           NEW c, c = Rec(dir, p).clus, NEW g, NEW j, Steps(fat, c, g, j)
    PROVE  j < ChainLength(c) /\ \A k \in 0..j : Walk(c)[k] = g[k]
<1>1. OneLink(fat) /\ Unlinked(fat, c)
  BY FileChain
<1>2. j <= Last - 2
  BY <1>1, StepsShort
<1> PICK w : w = Walk(c)
  OBVIOUS
<1>3. Visits(fat, c, w, Last - 2)
  BY WalkVisits
<1>4. j < LengthOf(w)
  BY <1>2, <1>3, StepsLength
<1>5. ChainLength(c) = LengthOf(w)
  BY DEF ChainLength, LengthOf
<1>6. \A k \in 0..j : k <= Last - 2 => w[k] = g[k]
  BY <1>3, StepsVisited
<1>7. \A k \in 0..j : k <= Last - 2
  <2>1. j \in Nat /\ Last - 2 \in Nat
    BY StepsFacts, Disk
  <2> QED
    BY <1>2, <2>1
<1> QED
  BY <1>4, <1>5, <1>6, <1>7

(* The chain of a file has room for its size.                              *)
LEMMA FileRoom ==
    ASSUME NEW F, NEW D, Typed(F, D), Sized(F, D), NEW p \in LiveIn(D), ~ Rec(D, p).dir,
           NEW c, c = Rec(D, p).clus, NEW m, m = Rec(D, p).size
    PROVE  m \in Nat /\ (m # 0 => \E g, j : Steps(F, c, g, j) /\ m <= SectorSize * (j + 1))
<1>1. p \in Slots
  BY DEF LiveIn
<1>2. m \in Nat
  BY <1>1, RecTyped DEF EntrySet
<1> QED
  BY <1>1, <1>2 DEF Sized, Covered

LEMMA ChainNat ==
    ASSUME NEW c
    PROVE  ChainLength(c) \in Nat
<1> PICK A : A = 0..(Last - 2)
  OBVIOUS
<1> PICK B : B = {k \in 0..(Last - 2) : Walk(c)[k] \in Clusters}
  OBVIOUS
<1>1. IsFiniteSet(A) /\ B \in SUBSET A
  BY Disk, FS_Interval
<1>2. IsFiniteSet(B)
  BY <1>1, FS_Subset
<1>3. ChainLength(c) = Cardinality(B)
  BY DEF ChainLength
<1> QED
  BY <1>2, <1>3, FS_CardinalityType

(* The same, as a bound on the size.                                       *)
LEMMA RoomLength ==
    ASSUME NEW X, NEW R, Basic(fat, dir, X, R), Sized(fat, dir), NEW p \in Files
    PROVE  At(p).size \in Nat /\ At(p).size <= SectorSize * ChainLength(At(p).clus)
<1> PICK c : c = Rec(dir, p).clus
  OBVIOUS
<1> PICK m : m = Rec(dir, p).size
  OBVIOUS
<1> PICK l : l = ChainLength(c)
  OBVIOUS
<1>0. p \in LiveIn(dir) /\ ~ Rec(dir, p).dir /\ At(p) = Rec(dir, p)
  BY NamedSame DEF Files
<1>1. m \in Nat /\ (m # 0 => \E g, j : Steps(fat, c, g, j) /\ m <= SectorSize * (j + 1))
  BY <1>0, FileRoom DEF Basic
<1>2. l \in Nat /\ SectorSize \in Nat
  BY ChainNat, DiskAssumption
<1>3. CASE m = 0
  <2>1. SectorSize * l \in Nat
    BY <1>2
  <2> QED
    BY <1>0, <1>3, <2>1
<1>4. CASE m # 0
  <2>1. PICK g, j : Steps(fat, c, g, j) /\ m <= SectorSize * (j + 1)
    BY <1>1, <1>4
  <2>2. j < l /\ j \in Nat
    BY <1>0, <2>1, FileWalk, StepsFacts
  <2>3. SectorSize * j + SectorSize <= SectorSize * l
    BY <1>2, <2>2, Times
  <2>4. /\ SectorSize * (j + 1) = SectorSize * j + SectorSize
        /\ SectorSize * j \in Nat /\ SectorSize * l \in Nat
    BY ONLY <1>2, <2>2, SMT
  <2>5. m <= SectorSize * l
    BY <1>1, <1>2, <2>1, <2>3, <2>4
  <2> QED
    BY <1>0, <1>1, <2>5
<1> QED
  BY <1>3, <1>4

(* The chain of a file is long enough for its size, at every write of      *)
(* every operation, also after writes that ran out of space.               *)
THEOREM SizesAreCovered == Spec => []SizeCovered
<1>1. Inv /\ Held => SizeCovered
  <2>1. SUFFICES ASSUME Inv, Held PROVE SizeCovered
    OBVIOUS
  <2>2. PICK X, R, q, n, e : Good(X, R, q, n, e)
    BY <2>1 DEF Inv
  <2>3. Basic(fat, dir, X, R) /\ Sized(fat, dir)
    BY <2>1, <2>2, GoodBasic, HeldFacts
  <2> QED
    BY <2>3, RoomLength DEF SizeCovered
<1>2. misused => SizeCovered
  BY DEF SizeCovered
<1> QED
  BY <1>1, <1>2, ContentInvariant, PTL

-----------------------------------------------------------------------------
(* What is read back from a file                                           *)

(* The first m bytes in the clusters of g.                                 *)
Bytes(A, g, m) ==
    [i \in 1..m |-> A[g[(i - 1) \div SectorSize]][(i - 1) % SectorSize]]

(* b is what the chain from c holds in its first m bytes.                  *)
Reads(F, A, c, m, b) ==
    /\ m = 0 => b = <<>>
    /\ \A g, j : Steps(F, c, g, j) /\ m <= SectorSize * (j + 1) => b = Bytes(A, g, m)

(* Where byte i of a file is.                                              *)
LEMMA Place ==
    ASSUME NEW j \in Nat, NEW m \in Nat, m <= SectorSize * (j + 1), NEW i \in 1..m
    PROVE  /\ (i - 1) \div SectorSize \in 0..j /\ (i - 1) % SectorSize \in 0..(SectorSize - 1)
           /\ i = SectorSize * ((i - 1) \div SectorSize) + ((i - 1) % SectorSize) + 1
<1>1. SectorSize \in Nat /\ SectorSize > 0 /\ i - 1 \in Nat
  BY DiskAssumption
<1> PICK a : a = i - 1
  OBVIOUS
<1> PICK k : k = a \div SectorSize
  OBVIOUS
<1> PICK r : r = (a % SectorSize)
  OBVIOUS
<1>2. k \in Nat /\ r \in 0..(SectorSize - 1) /\ a = SectorSize * k + r
  BY <1>1, Division
<1>3. k <= j
  <2>1. ASSUME j < k PROVE FALSE
    <3>1. SectorSize * j + SectorSize <= SectorSize * k
      BY <1>1, <1>2, <2>1, Times
    <3>2. /\ SectorSize * (j + 1) = SectorSize * j + SectorSize
          /\ SectorSize * j \in Nat /\ SectorSize * k \in Nat
      BY ONLY <1>1, <1>2, j \in Nat, SMT
    <3> QED
      BY <1>1, <1>2, <3>1, <3>2
  <2> QED
    BY <1>2, <2>1
<1>4. SectorSize * k \in Nat /\ i = SectorSize * k + r + 1
  BY <1>1, <1>2
<1> QED
  BY <1>2, <1>3, <1>4

LEMMA BytesSame ==
    ASSUME NEW A, NEW A1, NEW g, NEW h, NEW j \in Nat, NEW m \in Nat, m <= SectorSize * (j + 1),
           \A k \in 0..j : A1[h[k]] = A[g[k]]
    PROVE  Bytes(A1, h, m) = Bytes(A, g, m)
<1>1. \A i \in 1..m : (i - 1) \div SectorSize \in 0..j
  BY Place
<1> QED
  BY <1>1 DEF Bytes

LEMMA FileReads ==
    ASSUME NEW X, NEW R, Basic(fat, dir, X, R), Sized(fat, dir), NEW p \in Files
    PROVE  Reads(fat, data, Rec(dir, p).clus, Rec(dir, p).size, Content(p))
<1> PICK c : c = Rec(dir, p).clus
  OBVIOUS
<1> PICK m : m = Rec(dir, p).size
  OBVIOUS
<1> PICK w : w = Walk(c)
  OBVIOUS
<1> DEFINE most == SectorSize * ChainLength(c)
           len  == IF m < most THEN m ELSE most
<1>0. p \in LiveIn(dir) /\ ~ Rec(dir, p).dir /\ At(p) = Rec(dir, p)
  BY NamedSame DEF Files
<1>1. /\ m \in Nat /\ (m # 0 => \E g, j : Steps(fat, c, g, j) /\ m <= SectorSize * (j + 1))
      /\ \A g, j : Steps(fat, c, g, j) => \A k \in 0..j : w[k] = g[k]
  <2>1. m \in Nat /\ (m # 0 => \E g, j : Steps(fat, c, g, j) /\ m <= SectorSize * (j + 1))
    BY <1>0, FileRoom DEF Basic
  <2>2. ASSUME NEW g, NEW j, Steps(fat, c, g, j), NEW k \in 0..j PROVE w[k] = g[k]
    BY <1>0, <2>2, FileWalk
  <2> QED
    BY <2>1, <2>2
<1>2. Content(p) = Bytes(data, w, len)
  BY <1>0 DEF Content, Bytes
<1>3. len = m
  <2>1. m <= most
    BY <1>0, RoomLength
  <2>2. ~ (m < most) => m = most
    <3>1. SectorSize \in Nat /\ ChainLength(c) \in Nat
      BY ChainNat, DiskAssumption
    <3>2. most \in Nat
      BY ONLY <3>1, SMT
    <3> QED
      BY <1>1, <2>1, <3>2
  <2> QED
    BY <2>2
<1>4. Content(p) = Bytes(data, w, m)
  BY <1>2, <1>3
<1>5. m = 0 => Content(p) = <<>>
  BY <1>4 DEF Bytes
<1>6. ASSUME NEW g, NEW j, Steps(fat, c, g, j), m <= SectorSize * (j + 1)
      PROVE  Content(p) = Bytes(data, g, m)
  <2>1. j \in Nat /\ \A k \in 0..j : data[w[k]] = data[g[k]]
    BY <1>1, <1>6, StepsFacts
  <2>2. Bytes(data, w, m) = Bytes(data, g, m)
    BY <1>1, <1>6, <2>1, BytesSame
  <2> QED
    BY <1>4, <2>2
<1> QED
  BY <1>5, <1>6 DEF Reads

(* Everything that fat32_read_file returns.                                *)
AllRead == \A p \in Files : Reads(fat, data, Rec(dir, p).clus, Rec(dir, p).size, Content(p))

LEMMA InvReads == Inv /\ Held => AllRead
<1>1. SUFFICES ASSUME Inv, Held PROVE AllRead
  OBVIOUS
<1>2. PICK X, R, q, n, e : Good(X, R, q, n, e)
  BY <1>1 DEF Inv
<1>3. Basic(fat, dir, X, R) /\ Sized(fat, dir)
  BY <1>1, <1>2, GoodBasic, HeldFacts
<1> QED
  BY <1>3, FileReads DEF AllRead

LEMMA FilesLive ==
    /\ \A p \in Files : p \in LiveIn(dir) /\ ~ Rec(dir, p).dir
    /\ \A p \in Files' : p \in LiveIn(dir') /\ ~ Rec(dir', p).dir
    /\ \A p \in LiveIn(dir') : ~ Rec(dir', p).dir => p \in Files'
BY DEF Files, Entries, Live, At, LiveIn, Rec

(* A write changes what is read back from the file it was called for and   *)
(* from no other one, even of the same name; no other operation changes    *)
(* the content of any file.                                                *)
THEOREM FilesAreIsolated == Spec => Isolation
<1> DEFINE Kept == \A p \in Files : ~ misused' /\ p \in Files' /\ ~(pc \in {"data", "entry"}
                                                                      /\ p = EntryNamed(cwd, job.name))
                     => Content(p)' = Content(p)
<1> DEFINE Ready == misused \/ (Inv /\ Held /\ AllRead)
<1>1. Ready /\ Ready' /\ [Next]_vars => Kept
  <2>1. SUFFICES ASSUME Inv, Held, AllRead, AllRead', [Proper]_disk, NEW p \in Files, p \in Files',
                        ~(pc \in {"data", "entry"} /\ p = EntryNamed(cwd, job.name))
                 PROVE  Content(p)' = Content(p)
    BY NotMisused
  <2>2. PICK X, R, q, n, e : Good(X, R, q, n, e)
    BY <2>1 DEF Inv
  <2>3. Fine(Target(e))
    BY <2>1, <2>2, ProperFine
  <2>4. p # Target(e)
    <3>1. CASE pc \in {"data", "entry"}
      <4>1. EntryNamed(cwd, job.name) = e
        BY <2>2, <3>1, WriteTarget DEF Writing
      <4> QED
        BY <2>1, <3>1, <4>1 DEF Target
    <3>2. CASE pc \notin {"data", "entry"}
      <4>1. p # NoSlot
        BY Disk, FilesLive DEF LiveIn, Slots, NoSlot
      <4> QED
        BY <3>2, <4>1 DEF Target
    <3> QED
      BY <3>1, <3>2
  <2> PICK c : c = Rec(dir, p).clus
    OBVIOUS
  <2> PICK m : m = Rec(dir, p).size
    OBVIOUS
  <2>5. p \in LiveIn(dir) /\ ~ Rec(dir, p).dir /\ p \in LiveIn(dir') /\ ~ Rec(dir', p).dir
    BY <2>1, FilesLive
  <2>6. Rec(dir', p).clus = c /\ Rec(dir', p).size = m /\ SameBytes(fat, c, data, data')
    BY <2>3, <2>4, <2>5 DEF Fine, Gentle, SameFile
  <2>7. Reads(fat, data, c, m, Content(p))
    BY <2>1 DEF AllRead
  <2>8. Reads(fat', data', c, m, Content(p)')
    BY <2>1, <2>6 DEF AllRead
  <2>9. m \in Nat /\ (m # 0 => \E g, j : Steps(fat, c, g, j) /\ m <= SectorSize * (j + 1))
    BY <2>1, <2>2, <2>5, Here, HeldFacts, FileRoom
  <2>10. CASE m = 0
    BY <2>7, <2>8, <2>10 DEF Reads
  <2>11. CASE m # 0
    <3>1. PICK g, j : Steps(fat, c, g, j) /\ m <= SectorSize * (j + 1)
      BY <2>9, <2>11
    <3>2. Steps(fat', c, g, j)
      BY <2>3, <3>1, StepsKept DEF Fine
    <3>3. Content(p) = Bytes(data, g, m)
      BY <2>7, <3>1 DEF Reads
    <3>4. Content(p)' = Bytes(data', g, m)
      BY <2>8, <3>1, <3>2 DEF Reads
    <3>5. j \in Nat /\ \A k \in 0..j : data'[g[k]] = data[g[k]]
      BY <2>6, <3>1, StepsFacts DEF SameBytes
    <3>6. Bytes(data', g, m) = Bytes(data, g, m)
      BY <2>9, <3>1, <3>5, BytesSame
    <3> QED
      BY <3>3, <3>4, <3>6
  <2> QED
    BY <2>10, <2>11
<1>2. Kept => [Kept]_vars
  OBVIOUS
<1>a. misused \/ (Inv /\ Held) => Ready
  BY InvReads
<1> HIDE DEF Kept, Ready
<1>3. Spec => [][Kept]_vars
  BY <1>1, <1>2, <1>a, ContentInvariant, PTL DEF Spec
<1> QED
  BY <1>3 DEF Isolation, Kept

(* A sequence is the function of its elements.                             *)
LEMMA SeqElements ==
    ASSUME NEW b \in Seq(Byte), NEW f, f = [i \in 1..Len(b) |-> b[i]]
    PROVE  f = b
OBVIOUS

LEMMA OnlyWriteEntry ==
    ASSUME [Proper]_disk, pc = "entry", pc' = "idle"
    PROVE  WriteEntry
<1>1. ~ UNCHANGED disk
  BY DEF disk
<1>2. ~ Call
  BY DEF Call, fat32_create_file, fat32_delete_file, fat32_rename, fat32_change_dir,
         fat32_write_file, fat32_mkdir, fat32_rmdir, Idle
<1>3. ~ Restart
  BY DEF Restart, Idle
<1> QED
  BY <1>1, <1>2, <1>3 DEF Proper, Step, WriteData, WriteLink, WriteMark, WriteNoSpace,
       MkdirSet, MkdirMark, MkdirInit, RmdirFree, RmdirErase

(* What the chain holds is the buffer.                                     *)
LEMMA BytesHeld ==
    ASSUME NEW A, NEW g, NEW j \in Nat, NEW b \in Seq(Byte), Holds(A, g, j, b, Len(b)),
           Len(b) <= SectorSize * (j + 1)
    PROVE  Bytes(A, g, Len(b)) = b
<1>1. ASSUME NEW i \in 1..Len(b)
      PROVE  A[g[(i - 1) \div SectorSize]][(i - 1) % SectorSize] = b[i]
  <2> PICK k : k = (i - 1) \div SectorSize
    OBVIOUS
  <2> PICK r : r = ((i - 1) % SectorSize)
    OBVIOUS
  <2>1. k \in 0..j /\ r \in 0..(SectorSize - 1) /\ i = SectorSize * k + r + 1
    BY Place
  <2>2. SectorSize * k + r < Len(b)
    <3>1. SectorSize * k \in Nat /\ r \in Nat /\ Len(b) \in Nat
      BY <2>1, DiskAssumption
    <3> QED
      BY <2>1, <3>1
  <2> QED
    BY <2>1, <2>2 DEF Holds
<1>2. Bytes(A, g, Len(b)) = [i \in 1..Len(b) |-> b[i]]
  BY <1>1 DEF Bytes
<1> QED
  BY <1>2, SeqElements

(* When fat32_write_file succeeds the file reads back as the buffer,       *)
(* whatever the lengths of the buffer and of the chain that it had.        *)
THEOREM WritesReadBack == Spec => ReadBack
<1> DEFINE Back == \A p \in Slots : /\ ~ misused' /\ pc = "entry" /\ pc' = "idle"
                                    /\ p = EntryNamed(cwd, job.name)
                      => Content(p)' = job.buf
<1> DEFINE Ready == misused \/ (Inv /\ Held /\ AllRead)
<1>1. Ready /\ Ready' /\ [Next]_vars => Back
  <2>1. SUFFICES ASSUME Inv, Held, AllRead', [Proper]_disk, NEW p \in Slots, pc = "entry", pc' = "idle",
                        p = EntryNamed(cwd, job.name)
                 PROVE  Content(p)' = job.buf
    BY NotMisused
  <2>2. PICK X, R, q, n, e : Good(X, R, q, n, e)
    BY <2>1 DEF Inv
  <2>3. pc \in Writing /\ WriteEntry
    BY <2>1, OnlyWriteEntry DEF Writing
  <2>4. p = e
    BY <2>1, <2>2, <2>3, WriteTarget
  <2> PICK en : en = [Rec(dir, p) EXCEPT !.size = Len(job.buf), !.clus = job.first]
    OBVIOUS
  <2>5. /\ dir' = [dir EXCEPT ![p[1]][p[2]] = en] /\ data' = [data EXCEPT ![p[1]] = Zeros]
        /\ fat' = fat
    <3>1. p # NoSlot
      BY <2>1, Disk DEF Slots, NoSlot
    <3> QED
      BY <2>1, <2>3, <3>1, NamedSame DEF WriteEntry, WriteSlot
  <2>6. /\ WriteJob(X, R, p) /\ job \in JobSet /\ Layout(dir, X, R) /\ Areas(fat, X, R)
        /\ Typed(fat, dir)
    BY <2>2, <2>3, <2>4, WriteShape DEF Shape
  <2>7. /\ p \in LiveIn(dir) /\ p[1] \in X /\ job.first \in Clusters /\ job.first \notin X
    BY <2>6 DEF WriteJob, Layout
  <2>a. ~ Rec(dir, p).dir
    BY <2>6 DEF WriteJob
  <2>8. /\ Rec(dir, p) \in EntrySet /\ Len(job.buf) \in Nat /\ job.first \in Nat
        /\ job.buf \in Seq(Byte)
    BY <2>6, RecTyped DEF JobSet
  <2>9. /\ en \in EntrySet /\ en.size = Len(job.buf) /\ en.clus = job.first
        /\ en.name = Rec(dir, p).name
    BY <2>8 DEF EntrySet
  <2>b. ~ en.dir
    BY <2>8, <2>a DEF EntrySet
  <2>10. Rec(dir', p) = en
    <3>1. Written(dir, dir', p, en)
      BY <2>5, <2>6, <2>9, SlotWritten DEF Typed
    <3> QED
      BY <3>1 DEF Written
  <2>11. p \in Files'
    <3>1. p \in LiveIn(dir')
      BY <2>7, <2>9, <2>10 DEF LiveIn
    <3> QED
      BY <2>10, <2>b, <3>1, FilesLive
  <2>12. Reads(fat, data', job.first, Len(job.buf), Content(p)')
    <3>1. Reads(fat', data', Rec(dir', p).clus, Rec(dir', p).size, Content(p)')
      BY <2>1, <2>11 DEF AllRead
    <3> QED
      BY <2>5, <2>9, <2>10, <3>1
  <2>13. PICK g, j : WritesAt(g, j)
    BY <2>1, <2>3, WriteHeld
  <2>14. /\ Steps(fat, job.first, g, j) /\ Len(job.buf) <= SectorSize * (j + 1)
         /\ Holds(data, g, j, job.buf, Len(job.buf))
    BY <2>1, <2>13 DEF WritesAt
  <2>15. Content(p)' = Bytes(data', g, Len(job.buf))
    BY <2>12, <2>14 DEF Reads
  <2>16. j \in Nat /\ \A k \in 0..j : data'[g[k]] = data[g[k]]
    <3>1. j \in Nat /\ \A k \in 0..j : g[k] \in Clusters
      BY <2>14, StepsFacts
    <3>2. \A k \in 0..j : g[k] \notin X
      BY <2>6, <2>7, <2>14, ChainOutside
    <3>3. \A x \in Clusters : x # p[1] => data'[x] = data[x]
      BY <2>1, <2>5, HeldFacts DEF IsData
    <3> QED
      BY <2>7, <3>1, <3>2, <3>3
  <2>17. Bytes(data', g, Len(job.buf)) = Bytes(data, g, Len(job.buf))
    <3>1. Len(job.buf) \in Nat /\ Len(job.buf) <= SectorSize * (j + 1)
      BY <2>8, <2>14
    <3> QED
      BY ONLY <2>16, <3>1, BytesSame
  <2>18. Bytes(data, g, Len(job.buf)) = job.buf
    BY <2>8, <2>14, <2>16, BytesHeld
  <2> QED
    BY <2>15, <2>17, <2>18
<1>2. Back => [Back]_vars
  OBVIOUS
<1>a. misused \/ (Inv /\ Held) => Ready
  BY InvReads
<1> HIDE DEF Back, Ready
<1>3. Spec => [][Back]_vars
  BY <1>1, <1>2, <1>a, ContentInvariant, PTL DEF Spec
<1> QED
  BY <1>3 DEF ReadBack, Back
=============================================================================
