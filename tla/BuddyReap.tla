----------------------------- MODULE BuddyReap -----------------------------
(***************************************************************************)
(* munmap_all_user of kernel/memory.c, which gives back every block with   *)
(* FRAME_USER, beside the other operations of the allocator.  It holds     *)
(* memlock for the whole scan; no caller of it exists yet.                 *)
(***************************************************************************)
EXTENDS Buddy

VARIABLES
    scan,   \* i, the frame the scan is at
    adv     \* order, the order of the block it takes there

rvars == <<vars, scan, adv>>

ReapInit ==
    /\ Init
    /\ scan = [c \in Ctx |-> 0]
    /\ adv = [c \in Ctx |-> 0]

(* Mutant: FRAME_USER is not tested.                                       *)
IsUserAny(i) == frames[i].alloc

IsUser(i) == frames[i].alloc /\ frames[i].user

ReapCall(c) ==
    /\ pc[c] = "idle"
    /\ pc' = [pc EXCEPT ![c] = "r_lock"]
    /\ UNCHANGED <<frames, free_area, memlock, req, usr, blk, ord, live, scan, adv>>

ReapLock(c) ==
    /\ pc[c] = "r_lock"
    /\ memlock = 0
    /\ memlock' = 1
    /\ pc' = [pc EXCEPT ![c] = "r_scan"]
    /\ UNCHANGED <<frames, free_area, req, usr, blk, ord, live, scan, adv>>

ReapSkip(c) ==
    /\ pc[c] = "r_scan"
    /\ scan[c] \in Frames
    /\ ~ IsUser(scan[c])
    /\ scan' = [scan EXCEPT ![c] = @ + 1]
    /\ UNCHANGED <<frames, free_area, memlock, pc, req, usr, blk, ord, live, adv>>

(* A block of a user: its entry loses the flags and it is merged.          *)
ReapTake(c) ==
    /\ pc[c] = "r_scan"
    /\ scan[c] \in Frames
    /\ IsUser(scan[c])
    /\ LET order == frames[scan[c]].order
       IN  /\ live' = live \ {<<scan[c], order>>}
           /\ frames' = [frames EXCEPT ![scan[c]] = Entry(order, FALSE, FALSE)]
           /\ blk' = [blk EXCEPT ![c] = scan[c]]
           /\ ord' = [ord EXCEPT ![c] = order]
           /\ adv' = [adv EXCEPT ![c] = order]
    /\ pc' = [pc EXCEPT ![c] = "r_merge"]
    /\ UNCHANGED <<free_area, memlock, req, usr, scan>>

ReapMerge(c) ==
    /\ pc[c] = "r_merge"
    /\ Join(c)
    /\ UNCHANGED <<memlock, pc, req, usr, live, scan, adv>>

(* Mutant: the scan advances by the order of the merged block.             *)
NextScanMerged(c) == scan[c] + Size[ord[c]]

(* i += (1UL << order), with the order the block had before it was merged. *)
NextScan(c) == scan[c] + Size[adv[c]]

ReapPut(c) ==
    /\ pc[c] = "r_merge"
    /\ PutBack(c)
    /\ scan' = [scan EXCEPT ![c] = NextScan(c)]
    /\ pc' = [pc EXCEPT ![c] = "r_scan"]
    /\ UNCHANGED <<frames, memlock, req, usr, blk, ord, live, adv>>

ReapDone(c) ==
    /\ pc[c] = "r_scan"
    /\ scan[c] \notin Frames
    /\ Return(c)
    /\ scan' = [scan EXCEPT ![c] = 0]
    /\ adv' = [adv EXCEPT ![c] = 0]
    /\ UNCHANGED <<frames, free_area, live>>

-----------------------------------------------------------------------------
(* With munmap_all_user among the operations, no two blocks share a frame  *)
(* and every frame is in one: the locked section that memory.c's header    *)
(* says protects all the operations of the allocator.                      *)
ReapTiled == Pieces \subseteq Blocks /\ NoOverlap /\ NoLeak

(* The scan misses no block of a user, however the blocks it frees merge   *)
(* around it, and ends at the end of the heap.                             *)
ReapComplete ==
    \A c \in Ctx : pc[c] \in {"r_scan", "r_merge"} =>
       /\ scan[c] <= Size[MAX_ORDER]
       /\ \A i \in Frames : i < scan[c] => ~ IsUser(i)

(* The blocks that are not a user's stay where they are.                   *)
ReapSparesKernel ==
    [][\A c \in Ctx : pc[c] \in {"r_scan", "r_merge"} =>
          \A b \in live : ~ frames[b[1]].user => b \in live' /\ frames'[b[1]] = frames[b[1]]]_rvars

=============================================================================
