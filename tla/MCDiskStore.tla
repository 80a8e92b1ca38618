----------------------------- MODULE MCDiskStore -----------------------------
(* DiskStore on one key; two calls at a time, in one process or in two.     *)
EXTENDS DiskStore

CONSTANTS p1, p2, r1, r2

OneProcess == [r \in Slot |-> p1]
TwoProcesses == [r \in Slot |-> IF r = r1 THEN p1 ELSE p2]
==============================================================================
