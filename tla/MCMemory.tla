------------------------------ MODULE MCMemory ------------------------------
(* Memory for TLC.                                                         *)
EXTENDS Memory

MCSize == [o \in 0 .. MAX_ORDER |-> 2 ^ o]

=============================================================================
