------------------------------ MODULE Delivery ------------------------------
(***************************************************************************)
(* Worker, status webhook, database and Telnyx together: how the reply to  *)
(* an inbound fax is sent, followed and sent again.                        *)
(***************************************************************************)
EXTENDS DeliveryWorker, StatusWebhook

Init ==
    /\ inbound = [f \in Fax |-> [status |-> "absent", attempts |-> 0]]
    /\ outbound = [f \in Fax |-> NoRow]
    /\ outbound_attempts = {}
    /\ thread = [t \in Thread |-> "active"]
    /\ webhook_events = {}
    /\ calls = [id \in TelnyxId |-> NoCall]
    /\ letters = [f \in Fax |-> 0]
    /\ today = 0
    /\ over_budget = FALSE
    /\ worker = At("poll")
    /\ due_ids = {}
    /\ web = WebIdle
    /\ faults = 0

\* start.sh: when either process dies the task exits and both start again.
Crash ==
    /\ faults < MaxFaults
    /\ faults' = faults + 1
    /\ worker' = At("poll")
    /\ due_ids' = {}
    /\ web' = WebIdle
    /\ UNCHANGED <<tables, telnyx, today, over_budget>>

Next ==
    \/ WorkerStep \/ WorkerError
    \/ WebStep \/ WebError
    \/ \E f \in Fax : Arrive(f) \/ BackoffElapses(f)
    \/ NewDay
    \/ Crash

Spec == Init /\ [][Next]_vars

\* The loops of the two processes go on; events are delivered until they are
\* acknowledged; time passes, so that what is stale is eventually swept, what
\* is scheduled becomes due and a tripped breaker resets.
Fairness ==
    /\ WF_vars(WorkerStep)
    /\ SF_vars(RequeueStale(Processing))
    /\ SF_vars(RecoverStaleRetrying(Retrying))
    /\ WF_vars(WebStep)
    /\ \A f \in Fax : WF_vars(BackoffElapses(f))
    /\ WF_vars(NewDay)

FairSpec == Spec /\ Fairness

TypeOK ==
    /\ inbound \in [Fax -> InboundRow]
    /\ outbound \in [Fax -> OutboundRow]
    /\ outbound_attempts \subseteq TelnyxId
    /\ thread \in [Thread -> ThreadStatus]
    /\ webhook_events \subseteq TelnyxId \X Kinds
    /\ calls \in [TelnyxId -> [fax : Fax \cup {NoFax}, reports : SUBSET Kinds]]
    /\ letters \in [Fax -> Nat]
    /\ today \in Nat
    /\ over_budget \in BOOLEAN
    /\ worker \in WorkerState
    /\ due_ids \subseteq Fax
    /\ web \in WebState
    /\ faults \in Nat

(***************************************************************************)
(* Safety.                                                                 *)
(***************************************************************************)

\* One first send, one retry for each backoff, and one more that a failure
\* handler in mid-transaction can cause: it loaded the row before the claim.
AttemptLimit == Backoffs + 2
LetterLimit == MaxProcessAttempts + AttemptLimit - 1

\* "Bounded at-least-once": however often the worker crashes, loses an answer
\* of Telnyx or is told twice of one failure, a fax costs at most one letter
\* for each processing attempt and one for each retry
\* (delivery.send_reply, process_retries, pipeline.requeue_stale).
BoundedLetters == \A f \in Fax : letters[f] <= LetterLimit

\* The attempts a row spends are bounded whatever the order of failure
\* webhooks, stale sweeps, claims and crashes (delivery.handle_failure,
\* process_retries, _recover_stale_retrying).
BoundedAttempts == \A f \in Fax : outbound[f].attempts <= AttemptLimit

LoggedFor(f) == {id \in outbound_attempts : calls[id].fax = f}

\* Every id the outbound row ever carried is in outbound_attempts, for that
\* row, and the row never claims fewer sends than it logged: so a late webhook
\* for any recorded attempt finds its fax.
AttemptsTrail ==
    \A f \in Fax :
        /\ outbound[f].fax_id # NoId =>
              outbound[f].fax_id \in LoggedFor(f)
        /\ Cardinality(LoggedFor(f)) <= outbound[f].attempts

\* Telnyx reports kind of a letter recorded for f.
Told(f, kind) == \E id \in LoggedFor(f) : kind \in calls[id].reports

\* A row waiting for its retry has a retry date: none waits for ever.  Two races
\* of process_retries and the webhook take the date away, and only where a
\* recorded letter arrived all the same (the NULL of a superseded delivery
\* meets a refused retry), or where a failure was handled twice because its
\* event could not be recorded (the NULL of a retry meets the second handling).
ScheduledHasDate ==
    \A f \in Fax :
        outbound[f].status = "retry_scheduled" /\ outbound[f].next_retry_at = "null" =>
            Told(f, "delivered") \/ (faults > 0 /\ Told(f, "queued"))

\* pending_send means that no send was recorded, and nothing else means it: no
\* webhook, sweep or retry ever moves a row that carries no Telnyx id.
PendingIffUnsent ==
    \A f \in Fax : outbound[f].fax_id = NoId <=> outbound[f].status \in {"none", "pending_send"}

\* The breaker holds for what outbound_attempts records: retries cannot slip
\* past the daily cap.
CapHolds == OutboundFaxesToday <= DailyCap

\* "A recorded prior send is never repeated": the first phase (send_reply)
\* dials only for a row that carries no id, also when the fax is reprocessed.
FirstSendOnce ==
    [][\A f \in Fax : letters'[f] > letters[f] /\ outbound[f].fax_id # NoId =>
           worker.pc = "redial"]_vars

\* The status diagram of models.py 113-114 leads nowhere from "delivered": when
\* webhooks come in order and one verdict to a call, no repeated event, sweep,
\* crash or lost answer leads out of it.  The exception is a row with a failed
\* letter after a fault: its failure may be handled again when the next letter
\* is out, and the retry so scheduled writes over that letter's delivery
\* (telnyx_webhook's dedupe, _update_outbound_status, process_retries).
DeliveredIsFinal ==
    [][\A f \in Fax : outbound[f].status = "delivered" =>
           \/ outbound'[f].status = "delivered"
           \/ faults > 0 /\ Told(f, "busy")]_vars

(***************************************************************************)
(* The contract.                                                           *)
(***************************************************************************)
Outcome(status) ==
    CASE status = "absent" -> "expected"
      [] status \in {"received", "processing"} -> "open"
      [] status = "replied" -> "answered"
      [] OTHER -> "unanswered"

Contract == INSTANCE ReplyContract WITH
    Limit <- LetterLimit,
    outcome <- [f \in Fax |-> Outcome(inbound[f].status)]

\* Delivery implements the contract.
ImplementsContract == Contract!Spec

(***************************************************************************)
(* What the documentation says and the code does not do: each of these is  *)
(* violated, by the run of its name (see the README).                      *)
(***************************************************************************)

\* privacy.html 101-103: "you will receive one final letter": a STOP fax whose
\* reply was begun is not filed as ignored before a letter went out.
FarewellNotDropped ==
    \A f \in Fax : inbound[f].status = "ignored_optout" /\ outbound[f].status # "none" =>
                       letters[f] > 0

\* README "permanent silence": an opt-out, once stored, stays stored.
OptOutDurable ==
    [][\A t \in Thread : thread[t] = "opted_out" => thread'[t] = "opted_out"]_vars

(***************************************************************************)
(* Liveness.                                                               *)
(***************************************************************************)

\* Every fax received is eventually replied to, filed or given up.
EventuallyClosed ==
    \A f \in Fax : inbound[f].status = "received" ~>
                       inbound[f].status \notin {"received", "processing"}

\* A letter that was recorded is eventually delivered or given up: no row is
\* left behind in queued, sending, retry_scheduled or retrying.
EventuallySettled ==
    \A f \in Fax : outbound[f].fax_id # NoId ~>
                       outbound[f].status \in {"delivered", "failed_permanent"}
=============================================================================
