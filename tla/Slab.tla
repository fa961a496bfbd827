-------------------------------- MODULE Slab --------------------------------
(***************************************************************************)
(* kmalloc, kcalloc and kfree of kernel/memory.c: the slab caches on top   *)
(* of the buddy allocator.  slab_alloc and slab_free take no lock of their *)
(* own; they call buddy_alloc and buddy_free, which take memlock.  A slab  *)
(* is a page whose first words are its header; the free objects of the     *)
(* page are linked through their own first word.                           *)
(***************************************************************************)
EXTENDS Buddy, FiniteSets

CONSTANT Caches     \* the object sizes of kmalloc_caches that are used

FRAME_SIZE == 4096
SLAB_HEADER == 48   \* sizeof(slab_t)

(* Objects that fit in a slab after its header.                            *)
Per(k) == (FRAME_SIZE - SLAB_HEADER) \div k

Slots == UNION {1 .. Per(k) : k \in Caches}

(* An object is smaller than the page and at least one of them fits.       *)
ASSUME CacheAssumption == Caches \subseteq 1 .. (FRAME_SIZE - SLAB_HEADER)

NULL == 0

VARIABLES
    hdr,    \* the words at the start of a page, where slab_t keeps its fields
    link,   \* link[p][n]: the first word of the n-th object of page p
    slabs,  \* slabs[k]: the list of slabs of cache k
    sub,    \* where each context is in slab_alloc
    loc,    \* its locals there: s or page, obj, *obj and the cache
    objs    \* ghost: the objects each context has from kmalloc

slabvars == <<hdr, link, slabs, sub, loc, objs>>

NoHeader == [magic |-> FALSE, in_use |-> 0, freelist |-> NULL, cache |-> NULL]
NoLinks == [n \in Slots |-> NULL]
NoLocals == [s |-> 0, obj |-> NULL, next |-> NULL, cache |-> NULL]

SlabInit ==
    /\ Init
    /\ hdr = [f \in Frames |-> NoHeader]
    /\ link = [f \in Frames |-> NoLinks]
    /\ slabs = [k \in Caches |-> <<>>]
    /\ sub = [c \in Ctx |-> "none"]
    /\ loc = [c \in Ctx |-> NoLocals]
    /\ objs = [c \in Ctx |-> {}]

Ready(c) == pc[c] = "idle" /\ sub[c] = "none"

-----------------------------------------------------------------------------
(* slab_alloc                                                              *)

(* The slabs of a cache that still have a free object, in list order.      *)
First(k, j) ==
    /\ j \in DOMAIN slabs[k]
    /\ hdr[slabs[k][j]].freelist # NULL
    /\ \A i \in 1 .. (j - 1) : hdr[slabs[k][i]].freelist = NULL

(* The walk finds a slab: its first free object and the link in it are     *)
(* read.                                                                   *)
SlabFind(c, k) ==
    /\ Ready(c)
    /\ \E j \in DOMAIN slabs[k] :
          /\ First(k, j)
          /\ LET p == slabs[k][j]
             IN  loc' = [loc EXCEPT ![c] = [s |-> p, obj |-> hdr[p].freelist,
                              next |-> link[p][hdr[p].freelist], cache |-> k]]
    /\ sub' = [sub EXCEPT ![c] = "take"]
    /\ UNCHANGED <<vars, hdr, link, slabs, objs>>

(* Mutant: in_use is not counted up.                                       *)
PoppedUncounted(h, next) == [h EXCEPT !.freelist = next]

Popped(h, next) == [h EXCEPT !.freelist = next, !.in_use = @ + 1]

(* ... then written back, and the object is returned.                      *)
SlabTake(c) ==
    /\ sub[c] = "take"
    /\ hdr' = [hdr EXCEPT ![loc[c].s] = Popped(@, loc[c].next)]
    /\ objs' = [objs EXCEPT ![c] = @ \union {<<loc[c].s, loc[c].obj>>}]
    /\ sub' = [sub EXCEPT ![c] = "none"]
    /\ loc' = [loc EXCEPT ![c] = NoLocals]
    /\ UNCHANGED <<vars, link, slabs>>

(* No slab has a free object: a page is asked of buddy_alloc.              *)
SlabGrow(c, k) ==
    /\ Ready(c)
    /\ \A j \in DOMAIN slabs[k] : ~ First(k, j)
    /\ AllocCall(c, 0, FALSE)
    /\ sub' = [sub EXCEPT ![c] = "page"]
    /\ loc' = [loc EXCEPT ![c].cache = k]
    /\ UNCHANGED <<hdr, link, slabs, objs>>

(* buddy_alloc returns NULL, and so does slab_alloc.                       *)
SlabNull(c) ==
    /\ sub[c] = "page"
    /\ AllocNull(c)
    /\ sub' = [sub EXCEPT ![c] = "none"]
    /\ loc' = [loc EXCEPT ![c] = NoLocals]
    /\ UNCHANGED <<hdr, link, slabs, objs>>

SlabPage(c) ==
    /\ sub[c] = "page"
    /\ AllocDone(c)
    /\ sub' = [sub EXCEPT ![c] = "build"]
    /\ loc' = [loc EXCEPT ![c].s = blk[c]]
    /\ UNCHANGED <<hdr, link, slabs, objs>>

(* The page becomes a slab at the head of the cache's list, its objects    *)
(* are linked from the last to the first, and the last is returned.        *)
SlabBuild(c) ==
    /\ sub[c] = "build"
    /\ LET p == loc[c].s
           k == loc[c].cache
           n == Per(k)
       IN  /\ hdr' = [hdr EXCEPT ![p] =
                         [magic |-> TRUE, in_use |-> 1, freelist |-> n - 1, cache |-> k]]
           /\ link' = [link EXCEPT ![p] = [i \in Slots |-> IF i <= n THEN i - 1 ELSE NULL]]
           /\ slabs' = [slabs EXCEPT ![k] = list_add(@, p)]
           /\ objs' = [objs EXCEPT ![c] = @ \union {<<p, n>>}]
    /\ sub' = [sub EXCEPT ![c] = "none"]
    /\ loc' = [loc EXCEPT ![c] = NoLocals]
    /\ UNCHANGED vars

(* kcalloc clears what kmalloc has returned, up to the size of the cache.  *)
(* (A block that is no slab has nothing there that is kept.)               *)
kcalloc(c, p, n) ==
    /\ Ready(c)
    /\ <<p, n>> \in objs[c]
    /\ link' = [link EXCEPT ![p][n] = NULL]
    /\ UNCHANGED <<vars, hdr, slabs, sub, loc, objs>>

-----------------------------------------------------------------------------
(* kfree                                                                   *)

Pushed(h, n) == [h EXCEPT !.freelist = n, !.in_use = @ - 1]

(* The object goes back on the freelist of its page.                       *)
SlabFree(c, p, n) ==
    /\ Ready(c)
    /\ <<p, n>> \in objs[c]
    /\ hdr[p].magic
    /\ Pushed(hdr[p], n).in_use # 0
    /\ hdr' = [hdr EXCEPT ![p] = Pushed(@, n)]
    /\ link' = [link EXCEPT ![p][n] = hdr[p].freelist]
    /\ objs' = [objs EXCEPT ![c] = @ \ {<<p, n>>}]
    /\ UNCHANGED <<vars, slabs, sub, loc>>

(* Mutant: the empty slab stays on the list of its cache.                  *)
UnlinkedKept(s, p) == s

Unlinked(s, p) == list_remove(s, p)

(* The last object of a slab: the slab leaves its list and buddy_free is   *)
(* called with its page.  The words of the header stay in the page (only   *)
(* the magic number is ever looked at again; the rest is cleared here).    *)
SlabRelease(c, p, n) ==
    /\ Ready(c)
    /\ <<p, n>> \in objs[c]
    /\ hdr[p].magic
    /\ Pushed(hdr[p], n).in_use = 0
    /\ hdr' = [hdr EXCEPT ![p] = [NoHeader EXCEPT !.magic = TRUE]]
    /\ link' = [link EXCEPT ![p] = NoLinks]
    /\ slabs' = [slabs EXCEPT ![hdr[p].cache] = Unlinked(@, p)]
    /\ objs' = [objs EXCEPT ![c] = @ \ {<<p, n>>}]
    /\ live' = live \ {<<p, 0>>}
    /\ blk' = [blk EXCEPT ![c] = p]
    /\ ord' = [ord EXCEPT ![c] = 0]
    /\ pc' = [pc EXCEPT ![c] = "f_lock"]
    /\ UNCHANGED <<frames, free_area, memlock, req, usr, sub, loc>>

SlabPages == UNION {{slabs[k][j] : j \in DOMAIN slabs[k]} : k \in Caches}
Building == {loc[c].s : c \in {d \in Ctx : sub[d] = "build"}}

(* A block that is no slab: the word where a slab has its magic number is  *)
(* a caller's data (never that number) or what the allocator left there.   *)
(* The two conditions on i are the caller's, not the code's: kfree gets an *)
(* address from kmalloc, and munmap_user, which does not look at the magic *)
(* number, one that mmap_user returned and never a page of a slab.         *)
BlockFree(c, i) ==
    /\ Ready(c)
    /\ i \notin SlabPages \union Building
    /\ ~ hdr[i].magic
    /\ FreeCall(c, i)
    /\ UNCHANGED slabvars

-----------------------------------------------------------------------------
(* buddy_alloc and buddy_free, with what list_add does to the page: the    *)
(* links take the place of the first words.                                *)

(* Mutant: the links are kept elsewhere.                                   *)
OverwrittenElsewhere(h, i) == h

Overwritten(h, i) == [h EXCEPT ![i].magic = FALSE]

BuddySplit(c) ==
    /\ AllocSplit(c)
    /\ hdr' = Overwritten(hdr, Buddy(blk[c], ord[c] - 1))
    /\ UNCHANGED <<link, slabs, sub, loc, objs>>

BuddyFreeDone(c) ==
    /\ FreeDone(c)
    /\ hdr' = Overwritten(hdr, blk[c])
    /\ UNCHANGED <<link, slabs, sub, loc, objs>>

BuddyQuiet(c) ==
    /\ \/ AllocLock(c) \/ AllocFind(c) \/ FreeLock(c) \/ FreeMerge(c)
       \/ sub[c] = "none" /\ (AllocNull(c) \/ AllocDone(c))
    /\ UNCHANGED slabvars

(* kmalloc of a large block, mmap_user and page_alloc.                     *)
BlockAlloc(c, o, u) ==
    /\ Ready(c)
    /\ AllocCall(c, o, u)
    /\ UNCHANGED slabvars

SlabNext ==
    \E c \in Ctx :
       \/ \E k \in Caches : SlabFind(c, k) \/ SlabGrow(c, k)
       \/ SlabTake(c) \/ SlabNull(c) \/ SlabPage(c) \/ SlabBuild(c)
       \/ \E p \in Frames, n \in Slots :
             SlabFree(c, p, n) \/ SlabRelease(c, p, n) \/ kcalloc(c, p, n)
       \/ \E o \in Orders : BlockAlloc(c, o, FALSE)
       \/ \E i \in Frames : BlockFree(c, i)
       \/ BuddySplit(c) \/ BuddyFreeDone(c) \/ BuddyQuiet(c)

-----------------------------------------------------------------------------
(* Properties                                                              *)

AllObjs == UNION {objs[c] : c \in Ctx}

(* The objects met from freelist on, after n links.                        *)
Chain(p) ==
    LET at[n \in 0 .. Cardinality(Slots)] ==
            IF n = 0 THEN hdr[p].freelist
            ELSE IF at[n - 1] = NULL THEN NULL ELSE link[p][at[n - 1]]
    IN  at

(* In every slab the free list and the callers share out the objects:      *)
(* in_use counts the callers' objects and is never 0 on a list, the links  *)
(* lead through each of the others once and end.                           *)
SlabExact ==
    \A k \in Caches : \A j \in DOMAIN slabs[k] :
       LET p == slabs[k][j]
           used == {n \in Slots : <<p, n>> \in AllObjs}
           chain == Chain(p)
           met == {n \in DOMAIN chain : chain[n] # NULL}
       IN  /\ hdr[p].cache = k
           /\ hdr[p].in_use = Cardinality(used)
           /\ used # {}
           /\ {chain[n] : n \in met} = (1 .. Per(k)) \ used
           /\ Cardinality(met) = Per(k) - hdr[p].in_use

(* An object that a caller holds lies in a page that the slab layer still  *)
(* has from the buddy allocator, on one list of one cache.                 *)
ObjectsBacked ==
    /\ \A x \in AllObjs : x[1] \in SlabPages
    /\ \A p \in SlabPages : <<p, 0>> \in live
    /\ \A k, m \in Caches : \A i \in DOMAIN slabs[k], j \in DOMAIN slabs[m] :
          slabs[k][i] = slabs[m][j] => k = m /\ i = j

(* The magic number tells slabs from blocks: every slab has it, and no     *)
(* block that kmalloc or mmap_user returns starts with one left over from  *)
(* a slab that lay there before, so kfree takes the right path.            *)
MagicExact ==
    /\ \A p \in SlabPages : hdr[p].magic
    /\ \A b \in live : b[1] \notin SlabPages \union Building => ~ hdr[b[1]].magic

=============================================================================
