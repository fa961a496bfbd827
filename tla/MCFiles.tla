------------------------------ MODULE MCFiles ------------------------------
(***************************************************************************)
(* Files over contents that differ in their first byte and end before, at  *)
(* and behind the end of tmp.                                              *)
(***************************************************************************)
EXTENDS Files, TLC

MCBuffers == {<<>>, <<1>>, <<2, 1>>, <<3, 1, 2>>}
Symmetry == Permutations(Names)

=============================================================================
