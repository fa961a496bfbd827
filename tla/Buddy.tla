------------------------------- MODULE Buddy -------------------------------
(***************************************************************************)
(* The page allocator of kernel/memory.c: buddy_alloc and buddy_free under *)
(* the spinlock memlock, and the calls that reach them (kmalloc of 2048    *)
(* bytes or more, mmap_user, page_alloc; kfree, munmap_user, page_free).   *)
(* A context is a process in the kernel: int 0x80 is a trap gate, so the   *)
(* timer may preempt it between any two steps, inside the lock too.  The   *)
(* code under the lock is split at each iteration of its loops, because    *)
(* kfree and munmap_user read frames[] without taking the lock.            *)
(***************************************************************************)
EXTENDS Integers, Sequences

CONSTANTS
    Ctx,        \* contexts that call the allocator
    MAX_ORDER,  \* the order of the whole heap (14 in the code)
    Size        \* Size[o] = 1UL << o, the frames of a block of order o

Orders == 0 .. MAX_ORDER

ASSUME OrderAssumption == MAX_ORDER \in Nat

(* What 1UL << o satisfies on the orders of the heap.                      *)
ASSUME SizeAssumption ==
    /\ Size \in [Orders -> Nat \ {0}]
    /\ Size[0] = 1
    /\ \A o \in 0 .. (MAX_ORDER - 1) : Size[o + 1] = 2 * Size[o]
    /\ \A o, p \in Orders : o <= p => 
          \E k \in 1 .. Size[MAX_ORDER] : Size[p] = k * Size[o]

Frames == 0 .. (Size[MAX_ORDER] - 1)

Aligned(i, o) == \E q \in Frames : i = q * Size[o]

(* A block is the frame it starts at and its order.                        *)
Blocks == {b \in Frames \X Orders : Aligned(b[1], b[2])}

Span(b) == b[1] .. (b[1] + Size[b[2]] - 1)

Disjoint(a, b) == 
    \/ a[1] + Size[a[2]] <= b[1]
    \/ b[1] + Size[b[2]] <= a[1]

(* idx ^ (1UL << o), for an idx aligned to o and o < MAX_ORDER.            *)
Buddy(i, o) == IF Aligned(i, o + 1) THEN i + Size[o] ELSE i - Size[o]

(* A byte of frames[]: FRAME_ORDER, FRAME_ALLOC and FRAME_USER.            *)
Entry(o, a, u) == [order |-> o, alloc |-> a, user |-> u]
Entries == [order : Orders, alloc : BOOLEAN, user : BOOLEAN]

VARIABLES
    frames,     \* frames[]: one entry per frame
    free_area,  \* free_area[o]: the frames at which free blocks of order o start
    memlock,    \* the spinlock
    pc,         \* where each context is
    req,        \* its arguments of buddy_alloc: the order asked for
    usr,        \*   and the user flag
    blk,        \* the block in its hands: block_idx, idx
    ord,        \*   and its order: o, order
    live        \* ghost: the blocks that callers own

vars == <<frames, free_area, memlock, pc, req, usr, blk, ord, live>>

(* Where a context can be: outside, in buddy_alloc, in buddy_free, and in  *)
(* munmap_all_user (BuddyReap), whose loop joins blocks like buddy_free.   *)
Labels == {"idle", "a_lock", "a_find", "a_split", "f_lock", "f_merge",
           "r_lock", "r_scan", "r_merge"}

Merging == {"f_merge", "r_merge"}
Locked == {"a_find", "a_split", "r_scan"} \union Merging

Init ==
    /\ frames = [i \in Frames |-> Entry(IF i = 0 THEN MAX_ORDER ELSE 0, FALSE, FALSE)]
    /\ free_area = [o \in Orders |-> IF o = MAX_ORDER THEN <<0>> ELSE <<>>]
    /\ memlock = 0
    /\ pc = [c \in Ctx |-> "idle"]
    /\ req = [c \in Ctx |-> 0]
    /\ usr = [c \in Ctx |-> FALSE]
    /\ blk = [c \in Ctx |-> 0]
    /\ ord = [c \in Ctx |-> 0]
    /\ live = {}

-----------------------------------------------------------------------------
(* The free lists: list_add puts a block in front, list_remove unlinks one *)
(* from anywhere.  The links live in the free blocks themselves; here a    *)
(* list is the sequence they spell.                                        *)

(* Mutant: blk->next is not set, the old list is lost.                     *)
ListAddDropsTail(s, i) == <<i>>

list_add(s, i) == <<i>> \o s

(* s without its k-th element                                              *)
Unlink(s, k) == [j \in 1 .. (Len(s) - 1) |-> s[IF j < k THEN j ELSE j + 1]]

(* A block that is on no list would have arbitrary links; FlagsExact       *)
(* shows that list_remove never meets one.                                 *)
list_remove(s, i) ==
    IF \E k \in DOMAIN s : s[k] = i THEN Unlink(s, CHOOSE k \in DOMAIN s : s[k] = i) ELSE s

-----------------------------------------------------------------------------
(* Mutant: the lock is still held on return.                               *)
ReturnLocked(c) ==
    /\ pc' = [pc EXCEPT ![c] = "idle"]
    /\ UNCHANGED memlock
    /\ req' = [req EXCEPT ![c] = 0]
    /\ usr' = [usr EXCEPT ![c] = FALSE]
    /\ blk' = [blk EXCEPT ![c] = 0]
    /\ ord' = [ord EXCEPT ![c] = 0]

(* mem_unlock and return: the locals of the call go out of scope.          *)
Return(c) ==
    /\ memlock' = 0
    /\ pc' = [pc EXCEPT ![c] = "idle"]
    /\ req' = [req EXCEPT ![c] = 0]
    /\ usr' = [usr EXCEPT ![c] = FALSE]
    /\ blk' = [blk EXCEPT ![c] = 0]
    /\ ord' = [ord EXCEPT ![c] = 0]

-----------------------------------------------------------------------------
(* buddy_alloc                                                             *)

(* A caller asks for a block: mmap_user with the user flag, the others     *)
(* without.  Orders out of range return NULL before the lock.              *)
AllocCall(c, o, u) ==
    /\ pc[c] = "idle"
    /\ pc' = [pc EXCEPT ![c] = "a_lock"]
    /\ req' = [req EXCEPT ![c] = o]
    /\ usr' = [usr EXCEPT ![c] = u]
    /\ UNCHANGED <<frames, free_area, memlock, blk, ord, live>>

(* mem_lock: the test-and-set that finds the lock free; the spinning       *)
(* before it changes nothing.                                              *)
AllocLock(c) ==
    /\ pc[c] = "a_lock"
    /\ memlock = 0
    /\ memlock' = 1
    /\ pc' = [pc EXCEPT ![c] = "a_find"]
    /\ UNCHANGED <<frames, free_area, req, usr, blk, ord, live>>

(* The first nonempty list from the requested order up.                    *)
FirstFit(o, found) ==
    /\ found \in o .. MAX_ORDER
    /\ free_area[found] # <<>>
    /\ \A p \in o .. (found - 1) : free_area[p] = <<>>

AllocFind(c) ==
    /\ pc[c] = "a_find"
    /\ \E found \in Orders :
          /\ FirstFit(req[c], found)
          /\ blk' = [blk EXCEPT ![c] = Head(free_area[found])]
          /\ ord' = [ord EXCEPT ![c] = found]
          /\ free_area' = [free_area EXCEPT ![found] = Tail(@)]
    /\ pc' = [pc EXCEPT ![c] = "a_split"]
    /\ UNCHANGED <<frames, memlock, req, usr, live>>

(* No list holds a block large enough: unlock and return NULL.             *)
AllocNull(c) ==
    /\ pc[c] = "a_find"
    /\ \A o \in req[c] .. MAX_ORDER : free_area[o] = <<>>
    /\ Return(c)
    /\ UNCHANGED <<frames, free_area, live>>

(* One iteration of the loop that halves the block, freeing the upper half.*)
AllocSplit(c) ==
    /\ pc[c] = "a_split"
    /\ ord[c] > req[c]
    /\ LET o == ord[c] - 1
           buddy_idx == Buddy(blk[c], o)
       IN  /\ frames' = [frames EXCEPT ![buddy_idx] = Entry(o, FALSE, FALSE)]
           /\ free_area' = [free_area EXCEPT ![o] = list_add(@, buddy_idx)]
           /\ ord' = [ord EXCEPT ![c] = o]
    /\ UNCHANGED <<memlock, pc, req, usr, blk, live>>

(* The block has the requested order: mark it, unlock, return it.          *)
AllocDone(c) ==
    /\ pc[c] = "a_split"
    /\ ord[c] = req[c]
    /\ frames' = [frames EXCEPT ![blk[c]] = Entry(req[c], TRUE, usr[c])]
    /\ live' = live \union {<<blk[c], req[c]>>}
    /\ Return(c)
    /\ UNCHANGED free_area

-----------------------------------------------------------------------------
(* kfree, munmap_user and buddy_free                                       *)

(* A caller passes the address of frame i.  It owns the block there, or    *)
(* the pointer is stale (freed before, or never the start of a block); the *)
(* one thing a caller may not do is free a block while another free of it  *)
(* is under way.  frames[i] is read here, before the lock: without         *)
(* FRAME_ALLOC the call returns at once.                                   *)
FreeCall(c, i) ==
    /\ pc[c] = "idle"
    /\ \A d \in Ctx : pc[d] = "f_lock" => blk[d] # i
    /\ frames[i].alloc
    /\ live' = live \ {<<i, frames[i].order>>}
    /\ blk' = [blk EXCEPT ![c] = i]
    /\ ord' = [ord EXCEPT ![c] = frames[i].order]
    /\ pc' = [pc EXCEPT ![c] = "f_lock"]
    /\ UNCHANGED <<frames, free_area, memlock, req, usr>>

(* Mutant: FRAME_ALLOC is left set.                                        *)
FreeLockKeepsAlloc(c) ==
    /\ pc[c] = "f_lock"
    /\ memlock = 0
    /\ memlock' = 1
    /\ pc' = [pc EXCEPT ![c] = "f_merge"]
    /\ UNCHANGED <<frames, free_area, req, usr, blk, ord, live>>

(* mem_lock, and the entry loses its flags.                                *)
FreeLock(c) ==
    /\ pc[c] = "f_lock"
    /\ memlock = 0
    /\ memlock' = 1
    /\ frames' = [frames EXCEPT ![blk[c]] = Entry(ord[c], FALSE, FALSE)]
    /\ pc' = [pc EXCEPT ![c] = "f_merge"]
    /\ UNCHANGED <<free_area, req, usr, blk, ord, live>>

(* Mutants: FRAME_ALLOC is not tested; the loop stops one order early.     *)
MergeableIgnoresAlloc(i, o) == o < MAX_ORDER /\ frames[Buddy(i, o)].order = o
MergeableStopsEarly(i, o) ==
    /\ o < MAX_ORDER - 1
    /\ frames[Buddy(i, o)].order = o
    /\ ~ frames[Buddy(i, o)].alloc

(* The loop's test: the buddy's entry has this order and no FRAME_ALLOC.   *)
Mergeable(i, o) ==
    /\ o < MAX_ORDER
    /\ frames[Buddy(i, o)].order = o
    /\ ~ frames[Buddy(i, o)].alloc

(* Mutant: the buddy is always taken for the lower half.                   *)
LowerIsBuddy(i, j) == j

Lower(i, j) == IF i < j THEN i ELSE j

(* One iteration of the loop that joins the block with its buddy, and what *)
(* follows the loop: the block goes on its list.                           *)
Join(c) ==
    /\ Mergeable(blk[c], ord[c])
    /\ LET o == ord[c]
           buddy_idx == Buddy(blk[c], o)
           idx == Lower(blk[c], buddy_idx)
       IN  /\ free_area' = [free_area EXCEPT ![o] = list_remove(@, buddy_idx)]
           /\ frames' = [frames EXCEPT ![idx] = Entry(o + 1, FALSE, FALSE)]
           /\ blk' = [blk EXCEPT ![c] = idx]
           /\ ord' = [ord EXCEPT ![c] = o + 1]

PutBack(c) ==
    /\ ~ Mergeable(blk[c], ord[c])
    /\ free_area' = [free_area EXCEPT ![ord[c]] = list_add(@, blk[c])]

FreeMerge(c) ==
    /\ pc[c] = "f_merge"
    /\ Join(c)
    /\ UNCHANGED <<memlock, pc, req, usr, live>>

FreeDone(c) ==
    /\ pc[c] = "f_merge"
    /\ PutBack(c)
    /\ Return(c)
    /\ UNCHANGED <<frames, live>>

-----------------------------------------------------------------------------
(* What a context does once it is inside a call, and the calls it makes.   *)
Inside(c) ==
    \/ AllocLock(c) \/ AllocFind(c) \/ AllocNull(c) \/ AllocSplit(c) \/ AllocDone(c)
    \/ FreeLock(c) \/ FreeMerge(c) \/ FreeDone(c)

Call(c) ==
    \/ \E o \in Orders, u \in BOOLEAN : AllocCall(c, o, u)
    \/ \E i \in Frames : FreeCall(c, i)

Next == \E c \in Ctx : Call(c) \/ Inside(c)

Spec == Init /\ [][Next]_vars

(* The timer's round robin lets a preempted context go on; nothing makes a *)
(* context call, and nothing makes a spinning context win the lock.        *)
FairSpec == Spec /\ \A c \in Ctx : WF_vars(Inside(c))

-----------------------------------------------------------------------------
(* Properties                                                              *)

FreeBlocks == {b \in Frames \X Orders :
                  \E k \in DOMAIN free_area[b[2]] : free_area[b[2]][k] = b[1]}

(* The contexts with a block in their hands, and the block.                *)
Holding == {c \in Ctx : pc[c] \in {"a_split", "f_lock"} \union Merging}
Hand(c) == <<blk[c], ord[c]>>

(* The blocks whose memory is spoken for: owned by a caller, or by a free  *)
(* that still waits for the lock.                                          *)
Freeing == {Hand(c) : c \in {d \in Ctx : pc[d] = "f_lock"}}
Owned == live \union Freeing

Pieces == FreeBlocks \union live \union {Hand(c) : c \in Holding}

(* Every variable has its type; every block in a list, in a caller's or in *)
(* a context's hands is aligned to its order, as buddy_alloc and           *)
(* buddy_free must leave it for the index xor to name its buddy.           *)
TypeOK ==
    /\ frames \in [Frames -> Entries]
    /\ free_area \in [Orders -> Seq(Frames)]
    /\ memlock \in {0, 1}
    /\ pc \in [Ctx -> Labels]
    /\ req \in [Ctx -> Orders]
    /\ usr \in [Ctx -> BOOLEAN]
    /\ blk \in [Ctx -> Frames]
    /\ ord \in [Ctx -> Orders]
    /\ live \in SUBSET Blocks
    /\ Pieces \subseteq Blocks
    /\ \A c \in Ctx : pc[c] = "a_split" => req[c] <= ord[c]

(* memlock is held by one context at a time, the one whose code it covers. *)
Exclusive ==
    /\ memlock = 0 => \A c \in Ctx : pc[c] \notin Locked
    /\ \A c, d \in Ctx : pc[c] \in Locked /\ pc[d] \in Locked => c = d

(* No two blocks share a frame, whoever has them: two callers, a caller    *)
(* and a free list (whose links are written into the block), two entries   *)
(* of the lists, or a context in the middle of buddy_alloc or buddy_free.  *)
NoOverlap ==
    /\ \A a, b \in Pieces : a # b => Disjoint(a, b)
    /\ \A o \in Orders : \A k, m \in DOMAIN free_area[o] :
          free_area[o][k] = free_area[o][m] => k = m
    /\ FreeBlocks \cap live = {}
    /\ \A c \in Holding : Hand(c) \notin FreeBlocks \union live
    /\ \A c, d \in Holding : c # d => Hand(c) # Hand(d)

(* Splitting and merging lose no memory: every frame of the heap is in a   *)
(* free block, in a caller's, or in the hands of a call under way.         *)
NoLeak == \A f \in Frames : \E b \in Pieces : f \in Span(b)

(* frames[] tells the truth where the code reads it: the entry at the      *)
(* start of a free block has its order and no FRAME_ALLOC, the entry at    *)
(* the start of an owned block has its order and FRAME_ALLOC, and no other *)
(* entry, however old, has FRAME_ALLOC.  So a kfree or munmap_user of a    *)
(* pointer that is no longer live finds no flag and changes nothing.       *)
FlagsExact ==
    /\ \A b \in FreeBlocks : frames[b[1]].order = b[2] /\ ~ frames[b[1]].alloc
    /\ \A b \in Owned : frames[b[1]].order = b[2] /\ frames[b[1]].alloc
    /\ \A i \in Frames : frames[i].alloc => <<i, frames[i].order>> \in Owned

(* Buddies are never left apart: no two free blocks are the halves of one. *)
Coalesced ==
    \A b \in FreeBlocks : b[2] < MAX_ORDER => <<Buddy(b[1], b[2]), b[2]>> \notin FreeBlocks

(* buddy_alloc returns NULL only when it must: every aligned run of frames *)
(* of the requested order holds a frame that is owned.                     *)
NoFalseOOM ==
    [][\A c \in Ctx : pc[c] = "a_find" /\ pc'[c] = "idle" =>
          \A b \in Blocks : b[2] = req[c] => \E a \in Owned : ~ Disjoint(a, b)]_vars

(* What kfree and munmap_user read before they take the lock is not        *)
(* changed behind them: no step of any context touches the entry of a      *)
(* block that stays owned.                                                 *)
OwnedStable ==
    [][\A b \in Owned : b \in Owned' => frames'[b[1]] = frames[b[1]]]_vars

(* Whoever takes memlock gives it back.                                    *)
LockReleased == memlock = 1 ~> memlock = 0

(* The allocator implements HeapSpec: memory changes owner in two steps    *)
(* only, at the end of buddy_alloc and when buddy_free has the lock.       *)
Heap == INSTANCE HeapSpec WITH owned <- Owned
RefinesHeap == Heap!Spec

=============================================================================
