---------------------------- MODULE DeliveryInv -----------------------------
(***************************************************************************)
(* The inductive invariants of Delivery: IInv for what is sent, RetryInv   *)
(* for what the rows remember of it.  TLC checks them (run delivery);      *)
(* DeliveryProofs and DeliveryRetryProofs prove them and what follows.     *)
(***************************************************************************)
EXTENDS Delivery

FirstPhase == {"work", "dial", "accepted", "finish"}
RetryPhase == {"redial", "reaccepted", "refused"}

\* What the worker has in hand is consistent with the tables: a fax it works
\* on is claimed, a letter in the air is known to Telnyx, a row is dialled in
\* the first phase only while it carries no id and in a retry only afterwards,
\* and the copy of a row it took is current in the column only it writes.
WorkerInHand ==
    /\ worker.pc \in FirstPhase \cup RetryPhase => worker.fax \in Fax
    /\ worker.pc \in {"accepted", "reaccepted"} =>
          worker.id \in TelnyxId /\ calls[worker.id].fax = worker.fax
    /\ worker.pc \in FirstPhase => inbound[worker.fax].status = "processing"
    /\ worker.pc \in {"dial", "accepted"} => outbound[worker.fax].status = "pending_send"
    /\ worker.pc = "accepted" => letters[worker.fax] > 0
    /\ worker.pc \in {"finish"} \cup RetryPhase => outbound[worker.fax].fax_id # NoId
    /\ worker.pc \in {"reaccepted", "refused"} =>
          worker.row.attempts = outbound[worker.fax].attempts

\* The copy of a row the web process took is of a row that was sent.
WebInHand ==
    /\ web.pc # "idle" => web.id \in TelnyxId
    /\ web.pc = "commit" => web.fax \in Fax /\ outbound[web.fax].fax_id # NoId

\* A row carries an id exactly when a send was recorded, and then Telnyx holds
\* a letter for its fax under an id that is logged for it.
RowsSent ==
    \A f \in Fax :
        /\ outbound[f].fax_id = NoId =>
              outbound[f].status \in {"none", "pending_send"} /\ outbound[f].attempts = 0
        /\ outbound[f].fax_id # NoId =>
              /\ outbound[f].status \notin {"none", "pending_send"}
              /\ outbound[f].attempts > 0
              /\ outbound[f].fax_id \in outbound_attempts
              /\ calls[outbound[f].fax_id].fax = f
              /\ letters[f] > 0

LoggedSent ==
    \A id \in outbound_attempts :
        /\ calls[id].fax \in Fax
        /\ outbound[calls[id].fax].fax_id # NoId

\* A fax waiting in the queue has a processing attempt left.
TriesLeft ==
    \A f \in Fax :
        /\ inbound[f].attempts <= MaxProcessAttempts
        /\ inbound[f].status \in {"absent", "received"} =>
              inbound[f].attempts < MaxProcessAttempts

\* The worker may still give Telnyx one letter for the claim it holds.
Outstanding(f) ==
    IF worker.fax = f /\ worker.pc \in {"work", "dial", "redial"} THEN 1 ELSE 0

\* Every letter is paid for by a processing attempt or by a retry.
LettersPaid ==
    \A f \in Fax :
        letters[f] + Outstanding(f) <= inbound[f].attempts + RetriesUsed(outbound[f])

\* While a failure handler holds a copy from which it would schedule a retry,
\* the row has spent at most one attempt more than the code's limit allows it
\* to schedule with; only its late commit can reach AttemptLimit.
AttemptsSpent ==
    \A f \in Fax :
        /\ outbound[f].attempts <= Backoffs + 2
        /\ outbound[f].status = "retry_scheduled" => outbound[f].attempts <= Backoffs + 1
        /\ web.pc = "commit" /\ web.fax = f /\ web.row.attempts <= Backoffs =>
              /\ outbound[f].attempts <= Backoffs + 1
              /\ outbound[f].status = "retry_scheduled" => outbound[f].attempts <= Backoffs

\* The breaker was closed when the send now in hand was allowed.
CapKept ==
    /\ today <= DailyCap
    /\ worker.pc \in {"work", "dial", "accepted", "redial", "reaccepted"} =>
          today < DailyCap

IInv ==
    /\ TypeOK
    /\ WorkerInHand
    /\ WebInHand
    /\ RowsSent
    /\ LoggedSent
    /\ TriesLeft
    /\ LettersPaid
    /\ AttemptsSpent
    /\ CapKept

(***************************************************************************)
(* The log of attempts, the retry dates and the verdicts of Telnyx.        *)
(***************************************************************************)

InRetry(f) == worker.pc \in RetryPhase /\ worker.fax = f
Awaiting(f) == outbound[f].status \in {"retry_scheduled", "retrying"} \/ InRetry(f)
Loaded == worker.pc \in {"reaccepted", "refused"}

\* The log is no longer than the attempts; the attempt a retry has claimed is
\* not in it yet.
LogPaid ==
    /\ IsFiniteSet(outbound_attempts)
    /\ \A f \in Fax :
          /\ Cardinality(LoggedFor(f)) <= outbound[f].attempts
          /\ InRetry(f) => Cardinality(LoggedFor(f)) < outbound[f].attempts

\* Telnyx reported, of a letter it accepted, what the web process handles and
\* what it has recorded; what it handles is not recorded yet.
Reported(id, kind) == calls[id].fax \in Fax /\ kind \in calls[id].reports

EventInHand ==
    /\ \A event \in webhook_events : Reported(event[1], event[2])
    /\ web.pc # "idle" =>
          Reported(web.id, web.kind) /\ <<web.id, web.kind>> \notin webhook_events
    /\ web.pc = "commit" =>
          /\ web.id \in LoggedFor(web.fax)
          /\ ~web.latest => web.kind = "delivered"

\* A retry answers a failure.
RetryOfFailure == \A f \in Fax : Awaiting(f) => Told(f, "busy")

\* The event is recorded, or committed and about to be.
Heard(id, kind) ==
    \/ <<id, kind>> \in webhook_events
    \/ web.pc = "record" /\ web.id = id /\ web.kind = kind

\* As long as no transaction failed, it answers the failure of the newest
\* letter, and that failure is not handled again.
FailureOnce ==
    faults = 0 =>
        /\ \A f \in Fax : Awaiting(f) => Heard(outbound[f].fax_id, "busy")
        /\ web.pc = "commit" /\ web.kind = "busy" =>
              web.id = outbound[web.fax].fax_id
        /\ Loaded /\ worker.row.status = "queued" =>
              outbound[worker.fax].status \notin {"retry_scheduled", "retrying"}

\* A row is "queued" in the middle of a retry by a webhook only.
QueuedInRetry ==
    \A f \in Fax :
        /\ InRetry(f)
        /\ outbound[f].status = "queued" \/ (Loaded /\ worker.row.status = "queued")
        => Told(f, "queued")

\* A row that is given up in the middle of a retry is not scheduled by a
\* handler that loaded it before the retry was claimed.
GivenUpInRetry ==
    /\ \A f \in Fax :
          /\ InRetry(f) /\ web.pc = "commit" /\ web.fax = f
          /\ \/ outbound[f].status = "failed_permanent"
             \/ Loaded /\ worker.row.status = "failed_permanent"
          => web.row.attempts = outbound[f].attempts
    /\ Loaded /\ worker.row.status = "failed_permanent" /\ Exhausted(worker.row) =>
          outbound[worker.fax].status # "retry_scheduled"

CallsReport == \A id \in TelnyxId : calls[id].reports \in Histories \cup {{}}

\* Telnyx decides a call once.
OneVerdict == \A h \in Histories : "delivered" \in h => h \cap {"busy", "voice"} = {}

Clean(f) == faults = 0 \/ ~Told(f, "busy")

\* Whatever Telnyx reports of a call before kind is recorded.
UpTo(id, kind) ==
    \A k \in calls[id].reports : Rank[k] < Rank[kind] => <<id, k>> \in webhook_events

InOrderEvents == ~Reordering /\ web.pc # "idle" => UpTo(web.id, web.kind)

\* A delivered row was delivered by its newest letter, of which nothing else is
\* to come; all earlier letters failed, and no event of them is in hand.
DeliveredByNewest ==
    ~Reordering /\ OneVerdict =>
        \A f \in Fax : Clean(f) =>
            /\ outbound[f].status = "delivered" =>
                  /\ "delivered" \in calls[outbound[f].fax_id].reports
                  /\ UpTo(outbound[f].fax_id, "delivered")
            /\ \A id \in LoggedFor(f) :
                  id # outbound[f].fax_id => "busy" \in calls[id].reports
            /\ web.pc = "commit" /\ web.fax = f /\ outbound[f].status = "delivered" =>
                  web.id = outbound[f].fax_id

RetryInv ==
    /\ LogPaid
    /\ EventInHand
    /\ RetryOfFailure
    /\ FailureOnce
    /\ QueuedInRetry
    /\ GivenUpInRetry
    /\ ScheduledHasDate
    /\ CallsReport
    /\ InOrderEvents
    /\ DeliveredByNewest
=============================================================================
