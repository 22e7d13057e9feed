----------------------------- MODULE MCRecords ------------------------------
(***************************************************************************)
(* Instances of Records for TLC.                                           *)
(***************************************************************************)
EXTENDS RecordsInv, TLC

CONSTANTS f1, f2, f3, t1, t2

\* The first two faxes are one correspondence.
TwoThreads == [f \in Fax |-> IF f \in {f1, f2} THEN t1 ELSE t2]
=============================================================================
