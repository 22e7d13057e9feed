----------------------------- MODULE MCDelivery -----------------------------
(***************************************************************************)
(* Instances of Delivery for TLC.                                          *)
(***************************************************************************)
EXTENDS Delivery, TLC

CONSTANTS f1, f2, i1, i2, i3, i4, i5, t1

OneThread == [f \in Fax |-> t1]

\* One call reports one verdict; a failure may still be followed by a delivery.
Verdicts == {{"delivered"}, {"busy"}, {"voice"}}
MixedHistories == {{"busy"}, {"queued", "busy"}, {"busy", "delivered"}}

InOrder == {{"sending", "delivered"}, {"busy"}, {"voice"}}

Ids == Permutations(TelnyxId)
=============================================================================
