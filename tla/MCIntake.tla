------------------------------ MODULE MCIntake ------------------------------
(***************************************************************************)
(* Instances of Intake for TLC.                                            *)
(***************************************************************************)
EXTENDS IntakeInv, TLC

CONSTANTS f1, f2, f3, f4, e1, e2, e3, e4

\* One event for each fax; two events for the first one.
OneEach == [e \in Event |-> CASE e = e1 -> f1 [] e = e2 -> f2 [] e = e3 -> f3 [] OTHER -> f4]
TwoForFirst == [e \in Event |-> IF e \in {e1, e2} THEN f1 ELSE f2]

AllPdf == [f \in Fax |-> "pdf"]
Mixed == [f \in Fax |-> CASE f = f1 -> "pdf" [] f = f2 -> "bad" [] OTHER -> "none"]
=============================================================================
