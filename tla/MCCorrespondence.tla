-------------------------- MODULE MCCorrespondence --------------------------
(***************************************************************************)
(* Instance of Correspondence for TLC: nothing tells two numbers apart.    *)
(***************************************************************************)
EXTENDS CorrespondenceInv, TLC

Callers == Permutations(Caller)
=============================================================================
