------------------------------ MODULE MCBuddy ------------------------------
(* Buddy for TLC.                                                          *)
EXTENDS Buddy, Bitwise

MCSize == [o \in 0 .. MAX_ORDER |-> 2 ^ o]

(* Buddy is the code's xor on every block that has a buddy.                *)
ASSUME BuddyIsXor ==
    \A b \in Blocks : b[2] < MAX_ORDER => Buddy(b[1], b[2]) = (b[1] ^^ Size[b[2]])

=============================================================================
