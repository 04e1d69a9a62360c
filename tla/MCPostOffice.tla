----------------------------- MODULE MCPostOffice -----------------------------
(* Small instances of PostOffice for TLC.                                   *)
EXTENDS PostOffice

CONSTANTS m1, m2, t1, t2, t3, b1, b2

MCMachineOf == [t \in Threads |-> IF t = t3 THEN m2 ELSE m1]
=============================================================================
