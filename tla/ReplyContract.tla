--------------------------- MODULE ReplyContract ----------------------------
(***************************************************************************)
(* What the service promises about the letters that answer one inbound     *)
(* fax, whatever crashes, retries and webhooks do: bounded at-least-once   *)
(* delivery (the comment at the head of delivery.send_reply).              *)
(*                                                                         *)
(*   - at most Limit letters are ever given to the carrier for one fax;    *)
(*   - a fax is closed as answered only after a letter was accepted;       *)
(*   - a fax closed is never reopened;                                     *)
(*   - a fax closed before any letter was accepted never gets one.         *)
(***************************************************************************)
EXTENDS Naturals

CONSTANTS Fax, Limit

VARIABLES letters, outcome
contract == <<letters, outcome>>

Outcomes == {"expected", "open", "answered", "unanswered"}

Init ==
    /\ letters = [f \in Fax |-> 0]
    /\ outcome = [f \in Fax |-> "expected"]

Receive(f) ==
    /\ outcome[f] = "expected"
    /\ outcome' = [outcome EXCEPT ![f] = "open"]
    /\ UNCHANGED letters

\* A first letter while the fax is open; any further one is a repetition.
Post(f) ==
    /\ outcome[f] = "open" \/ letters[f] > 0
    /\ letters[f] < Limit
    /\ letters' = [letters EXCEPT ![f] = @ + 1]
    /\ UNCHANGED outcome

Answer(f) ==
    /\ outcome[f] = "open"
    /\ letters[f] > 0
    /\ outcome' = [outcome EXCEPT ![f] = "answered"]
    /\ UNCHANGED letters

\* The stale sweep gives up on several faxes in one transaction.
GiveUp(given) ==
    /\ \A f \in given : outcome[f] = "open"
    /\ outcome' = [f \in Fax |-> IF f \in given THEN "unanswered" ELSE outcome[f]]
    /\ UNCHANGED letters

Next ==
    \/ \E f \in Fax : Receive(f) \/ Post(f) \/ Answer(f)
    \/ \E given \in SUBSET Fax : GiveUp(given)

Spec == Init /\ [][Next]_contract
=============================================================================
