------------------------------ MODULE HeapSpec ------------------------------
(***************************************************************************)
(* What kernel/memory.h promises the rest of the kernel: an allocation     *)
(* hands out memory that nobody else owns, and the memory of a caller stays*)
(* its own until that caller gives it back.                                *)
(***************************************************************************)
CONSTANTS
    Blocks,          \* what can be handed out
    Disjoint(_, _)   \* two blocks share no memory

VARIABLE owned       \* the blocks handed out

Init == owned = {}

Alloc(b) ==
    /\ \A a \in owned : Disjoint(a, b)
    /\ owned' = owned \union {b}

Free(b) ==
    /\ b \in owned
    /\ owned' = owned \ {b}

Next == \E b \in Blocks : Alloc(b) \/ Free(b)

Spec == Init /\ [][Next]_owned

=============================================================================
