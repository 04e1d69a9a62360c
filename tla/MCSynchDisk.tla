----------------------------- MODULE MCSynchDisk -----------------------------
(* Small instances of SynchDisk for TLC.                                    *)
EXTENDS SynchDisk, TLC

CONSTANTS main, t1, t2, s1, s2, d1, d2

MCInitialValue == [s \in Semaphores |-> 0]
=============================================================================
