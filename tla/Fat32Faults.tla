---------------------------- MODULE Fat32Faults ----------------------------
(***************************************************************************)
(* Fat32 on a machine that may lose power between two writes.              *)
(***************************************************************************)
EXTENDS MCFat32

\* Power is lost inside an operation; the disk keeps what was written.
PowerLoss == ~Idle /\ fat32_init /\ UNCHANGED misused

CrashSpec == Init /\ [][Next \/ PowerLoss]_vars
=============================================================================
