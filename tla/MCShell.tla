------------------------------ MODULE MCShell ------------------------------
(***************************************************************************)
(* The shell with three programs: one segment and LC_MAIN, as macho_pack.py*)
(* writes it; two segments, the second with zeros, and LC_UNIXTHREAD or    *)
(* LC_MAIN; and one without an entry point.  Addresses are those of the    *)
(* file.                                                                   *)
(***************************************************************************)
EXTENDS Shell

MCPrograms ==
    {pack("packed", 2, 1),
     [name |-> "linked", magic |-> TRUE,
      cmds |-> <<Segment(0, 4, 0, 0), Segment(5, 1, 2, 1), Segment(6, 3, 3, 1),
                 [cmd |-> "unixthread", rdi |-> 0]>>],
     [name |-> "modern", magic |-> TRUE,
      cmds |-> <<Segment(5, 2, 1, 1), Segment(7, 2, 2, 2), [cmd |-> "main", entryoff |-> 1]>>],
     [name |-> "library", magic |-> TRUE, cmds |-> <<Segment(5, 3, 0, 3)>>]}

=============================================================================
