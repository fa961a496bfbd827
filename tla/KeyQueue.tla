------------------------------ MODULE KeyQueue ------------------------------
(***************************************************************************)
(* What the keyboard driver promises its reader: the characters of the     *)
(* keys come out in the order they went in, and what finds the queue full  *)
(* is dropped from its end.                                                *)
(***************************************************************************)
EXTENDS Integers, Sequences

CONSTANTS
    Strings,    \* what one key can put in
    Cap         \* how many characters wait at most

VARIABLES
    q,          \* the characters that wait
    out         \* the character last given to the reader

Room(n) == IF n <= Cap - Len(q) THEN n ELSE Cap - Len(q)

Init == q = <<>> /\ out = "none"

Put(s) == q' = q \o SubSeq(s, 1, Room(Len(s))) /\ UNCHANGED out

Get == q # <<>> /\ out' = Head(q) /\ q' = Tail(q)

Next == (\E s \in Strings : Put(s)) \/ Get

Spec == Init /\ [][Next]_<<q, out>>

=============================================================================
