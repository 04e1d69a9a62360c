------------------------------- MODULE MCSynch -------------------------------
(* Small instances of Synch for TLC.                                        *)
EXTENDS Synch, TLC

CONSTANTS main, t1, t2, t3, sem, lock

MCInitialValue == [s \in Semaphores |-> 0]
=============================================================================
