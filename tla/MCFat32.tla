------------------------------ MODULE MCFat32 ------------------------------
(***************************************************************************)
(* Fat32 on a disk of a few clusters of two bytes each.                    *)
(***************************************************************************)
EXTENDS Fat32

\* An empty write, a part of a sector, and a sector and a half.
FewBuffers == {<<>>, <<1>>, <<2, 1, 2>>}

\* The last two of them.
TwoBuffers == {<<1>>, <<2, 1, 2>>}

\* "D.X" is printed as "D", which name_to_83 leaves as it is.
BaseName == [n \in Names |-> IF n = "D.X" THEN "D" ELSE n]

\* What follows a misuse is not explored.
Used == ~misused

=============================================================================
