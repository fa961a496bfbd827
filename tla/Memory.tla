------------------------------- MODULE Memory -------------------------------
(***************************************************************************)
(* All of the allocator of kernel/memory.c as one context uses it:         *)
(* kmalloc, kcalloc and kfree with their slabs, mmap_user and munmap_user, *)
(* and munmap_all_user.  They all share frames[], the free lists and the   *)
(* first words of the pages.                                               *)
(***************************************************************************)
EXTENDS Slab, BuddyReap

CONSTANT MaxObjs    \* bound: objects asked for and held at a time

(* The slab layer has no lock: one context uses it.                        *)
ASSUME OneContext == \E c \in Ctx : Ctx = {c}

memvars == <<vars, slabvars, scan, adv>>

MemoryInit == SlabInit /\ ReapInit

(* list_add of munmap_all_user writes the first words of the block, too.   *)
Released(c) ==
    /\ ReapPut(c)
    /\ hdr' = Overwritten(hdr, blk[c])
    /\ UNCHANGED <<link, slabs, sub, loc, objs>>

munmap_all_user(c) ==
    \/ Ready(c) /\ ReapCall(c) /\ UNCHANGED slabvars
    \/ (ReapLock(c) \/ ReapSkip(c) \/ ReapTake(c) \/ ReapMerge(c) \/ ReapDone(c))
          /\ UNCHANGED slabvars
    \/ Released(c)

mmap_user(c, o) == BlockAlloc(c, o, TRUE) /\ UNCHANGED <<scan, adv>>

Demand == Cardinality(AllObjs) + Cardinality({c \in Ctx : sub[c] # "none"})

MemoryNext ==
    \/ SlabNext /\ Demand' <= MaxObjs /\ UNCHANGED <<scan, adv>>
    \/ \E c \in Ctx : munmap_all_user(c) \/ \E o \in Orders : mmap_user(c, o)

MemorySpec == MemoryInit /\ [][MemoryNext]_memvars

=============================================================================
