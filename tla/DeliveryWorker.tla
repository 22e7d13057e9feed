--------------------------- MODULE DeliveryWorker ---------------------------
(***************************************************************************)
(* The worker process (app/worker/run.py): one thread of control that      *)
(* alternates process_pending (pipeline.py) and process_retries            *)
(* (delivery.py).  An action is the code between two database commits, or  *)
(* between a commit and the answer of Telnyx.  What is decided about a fax *)
(* before its reply is sent is reduced to its outcome.                     *)
(*                                                                         *)
(* worker.pc: poll -> pick (<-> work -> dial -> accepted -> finish)        *)
(*            -> retries -> batch (<-> redial -> reaccepted | refused)     *)
(***************************************************************************)
EXTENDS OutboundTables

PC == {"poll", "pick", "work", "dial", "accepted", "finish",
       "retries", "batch", "redial", "reaccepted", "refused"}

\* fax: in hand; id: the id Telnyx answered; stop: STOP was read on the fax and
\* is staged; row: the outbound row as the session loaded it.
WorkerState == [pc : PC, fax : Fax \cup {NoFax}, id : TelnyxId \cup {NoId},
                stop : BOOLEAN, row : OutboundRow]
At(pc) == [pc |-> pc, fax |-> NoFax, id |-> NoId, stop |-> FALSE, row |-> NoRow]
Goto(pc) == worker' = [worker EXCEPT !.pc = pc]

(***************************************************************************)
(* process_pending                                                         *)
(***************************************************************************)
Processing == {f \in Fax : inbound[f].status = "processing"}

\* Mutants of Requeued: > instead of >=; a fax out of attempts is left in
\* "processing".
RequeuedLate(row) ==
    [row EXCEPT !.status = IF row.attempts > MaxProcessAttempts
                           THEN "failed_processing" ELSE "received"]
RequeuedNever(row) ==
    IF row.attempts >= MaxProcessAttempts THEN row ELSE [row EXCEPT !.status = "received"]

Requeued(row) ==
    IF row.attempts >= MaxProcessAttempts
    THEN [row EXCEPT !.status = "failed_processing"]
    ELSE [row EXCEPT !.status = "received"]

\* stale: the rows claimed longer than stale_processing_seconds ago.
RequeueStale(stale) ==
    /\ worker.pc = "poll"
    /\ inbound' = [f \in Fax |-> IF f \in stale THEN Requeued(inbound[f]) ELSE inbound[f]]
    /\ Goto("pick")
    /\ UNCHANGED <<outbound, outbound_attempts, thread, webhook_events, telnyx,
                   today, over_budget, due_ids, web, faults>>

Claim(f) ==
    /\ worker.pc = "pick"
    /\ ~BreakerTripped
    /\ inbound[f].status = "received"
    /\ inbound' = [inbound EXCEPT ![f] = [status |-> "processing", attempts |-> @.attempts + 1]]
    /\ worker' = [At("work") EXCEPT !.fax = f]
    /\ UNCHANGED <<outbound, outbound_attempts, thread, webhook_events, telnyx,
                   today, over_budget, due_ids, web, faults>>

\* The breaker is tripped, or nothing is waiting.
NonePending ==
    /\ worker.pc = "pick"
    /\ BreakerTripped \/ \A f \in Fax : inbound[f].status # "received"
    /\ Goto("retries")
    /\ UNCHANGED <<tables, telnyx, today, over_budget, due_ids, web, faults>>

\* The two gates that file a fax without answering it.
FileUnanswered ==
    /\ worker.pc = "work"
    /\ \E status \in {"ignored_optout", "ignored_cap"} :
          /\ (status = "ignored_optout") <=> AniOptedOut(worker.fax)
          /\ inbound' = [inbound EXCEPT ![worker.fax].status = status]
    /\ worker' = At("pick")
    /\ UNCHANGED <<outbound, outbound_attempts, thread, webhook_events, telnyx,
                   today, over_budget, due_ids, web, faults>>

\* Tokens are committed before anything later in the pipeline can fail.
Spend == \E spent \in BOOLEAN : over_budget' = (over_budget \/ (Days /\ spent))

\* The model, the renderer or the rasterizer raises: the fax stays claimed.
ReplyFails ==
    /\ worker.pc = "work"
    /\ ~AniOptedOut(worker.fax)
    /\ Spend
    /\ worker' = At("pick")
    /\ UNCHANGED <<tables, telnyx, today, due_ids, web, faults>>

\* Mutants of PriorSend: only a delivery counts; the intent already counts.
PriorDelivery(f) == outbound[f].status = "delivered"
PriorIntent(f) == outbound[f].status # "none"

PriorSend(f) == outbound[f].fax_id # NoId

\* send_reply finds that an earlier attempt already recorded a send.  The
\* opt-out is staged but only committed at the end (Finish).
FindPriorSend ==
    /\ worker.pc = "work"
    /\ ~AniOptedOut(worker.fax)
    /\ PriorSend(worker.fax)
    /\ Spend
    /\ \E stop \in BOOLEAN :
          /\ stop => worker.fax \in StopFax
          /\ worker' = [worker EXCEPT !.pc = "finish", !.stop = stop]
    /\ UNCHANGED <<tables, telnyx, today, due_ids, web, faults>>

PendingSend == [NoRow EXCEPT !.status = "pending_send"]

\* send_reply commits its intent, and with it the opt-out staged before.
CommitIntent ==
    /\ worker.pc = "work"
    /\ ~AniOptedOut(worker.fax)
    /\ ~PriorSend(worker.fax)
    /\ Spend
    /\ \E stop \in BOOLEAN :
          /\ stop => worker.fax \in StopFax
          /\ thread' = IF stop THEN [thread EXCEPT ![ThreadOf[worker.fax]] = "opted_out"]
                               ELSE thread
    /\ Goto("dial")
    /\ outbound' = [outbound EXCEPT ![worker.fax] = IF @.status = "none" THEN PendingSend ELSE @]
    /\ UNCHANGED <<inbound, outbound_attempts, webhook_events, telnyx, today,
                   due_ids, web, faults>>

\* telnyx_client.send_fax returns an id.
Dial ==
    /\ worker.pc = "dial"
    /\ \E id \in TelnyxId :
          /\ Accept(worker.fax, id)
          /\ worker' = [worker EXCEPT !.pc = "accepted", !.id = id]
    /\ UNCHANGED <<tables, over_budget, due_ids, web, faults>>

\* send_fax raises although Telnyx accepted the letter: the answer was lost.
DialLost ==
    /\ worker.pc = "dial"
    /\ \E id \in TelnyxId : Accept(worker.fax, id)
    /\ worker' = At("pick")
    /\ UNCHANGED <<tables, over_budget, due_ids, web, faults>>

DialFails ==
    /\ worker.pc = "dial"
    /\ worker' = At("pick")
    /\ UNCHANGED <<tables, telnyx, today, over_budget, due_ids, web, faults>>

\* Mutants of Sent: the attempt is not counted; the status is not moved.
SentUncounted(row, id) == [row EXCEPT !.fax_id = id, !.status = "queued"]
SentPending(row, id) == [row EXCEPT !.fax_id = id, !.attempts = @ + 1]

Sent(row, id) == [row EXCEPT !.fax_id = id, !.status = "queued", !.attempts = @ + 1]

RecordSend ==
    /\ worker.pc = "accepted"
    /\ outbound' = [outbound EXCEPT ![worker.fax] = Sent(@, worker.id)]
    /\ LogAttempt(worker.id)
    /\ worker' = [worker EXCEPT !.pc = "finish", !.id = NoId]
    /\ UNCHANGED <<inbound, thread, webhook_events, telnyx, over_budget,
                   due_ids, web, faults>>

\* The rest of _process_one: status "replied" ("capped" is the same here).
Finish ==
    /\ worker.pc = "finish"
    /\ inbound' = [inbound EXCEPT ![worker.fax].status = "replied"]
    /\ thread' = IF worker.stop
                 THEN [thread EXCEPT ![ThreadOf[worker.fax]] = "opted_out"]
                 ELSE thread
    /\ worker' = At("pick")
    /\ UNCHANGED <<outbound, outbound_attempts, webhook_events, telnyx, today,
                   over_budget, due_ids, web, faults>>

(***************************************************************************)
(* process_retries                                                         *)
(***************************************************************************)
Retrying == {f \in Fax : outbound[f].status = "retrying"}

\* Mutants of Unsent: a status that no query knows; no date for the next retry.
UnsentFailed(row, date) ==
    IF Exhausted(row) THEN [row EXCEPT !.status = "failed", !.next_retry_at = "null"]
    ELSE [row EXCEPT !.status = "retry_scheduled", !.next_retry_at = date]
UnsentDateless(row, date) ==
    [row EXCEPT !.status = IF Exhausted(row) THEN "failed_permanent" ELSE "retry_scheduled",
                !.next_retry_at = "null"]

\* What becomes of a retry that produced no id: given up, or scheduled again.
Unsent(row, date) ==
    IF Exhausted(row)
    THEN [row EXCEPT !.status = "failed_permanent", !.next_retry_at = "null"]
    ELSE [row EXCEPT !.status = "retry_scheduled", !.next_retry_at = date]

\* _recover_stale_retrying, then the query for the rows that are due.
RecoverStaleRetrying(stale) ==
    /\ worker.pc = "retries"
    /\ outbound' = [f \in Fax |-> IF f \in stale THEN Unsent(outbound[f], "due")
                                                 ELSE outbound[f]]
    /\ due_ids' = {f \in Fax : /\ outbound'[f].status = "retry_scheduled"
                               /\ outbound'[f].next_retry_at = "due"}
    /\ worker' = At("batch")
    /\ UNCHANGED <<inbound, outbound_attempts, thread, webhook_events, telnyx,
                   today, over_budget, web, faults>>

\* The loop ends: nothing is left, or the breaker stops it.
EndRetries ==
    /\ worker.pc = "batch"
    /\ due_ids = {} \/ BreakerTripped
    /\ due_ids' = {}
    /\ worker' = At("poll")
    /\ UNCHANGED <<tables, telnyx, today, over_budget, web, faults>>

\* Mutant of Claimed: the retry does not spend an attempt.
ClaimedUncounted(row) == [row EXCEPT !.status = "retrying"]

Claimed(row) == [row EXCEPT !.status = "retrying", !.attempts = @ + 1]

\* The conditional UPDATE claims the row and spends the attempt.
ClaimRetry(f) ==
    /\ worker.pc = "batch"
    /\ f \in due_ids
    /\ ~BreakerTripped
    /\ outbound[f].status = "retry_scheduled"
    /\ outbound' = [outbound EXCEPT ![f] = Claimed(@)]
    /\ due_ids' = due_ids \ {f}
    /\ worker' = [At("redial") EXCEPT !.fax = f]
    /\ UNCHANGED <<inbound, outbound_attempts, thread, webhook_events, telnyx,
                   today, over_budget, web, faults>>

\* The UPDATE matched no row: something else moved it meanwhile.
SkipRetry(f) ==
    /\ worker.pc = "batch"
    /\ f \in due_ids
    /\ ~BreakerTripped
    /\ outbound[f].status # "retry_scheduled"
    /\ due_ids' = due_ids \ {f}
    /\ UNCHANGED <<tables, telnyx, today, over_budget, worker, web, faults>>

\* session.get loads the row, then send_fax answers, or raises after or before
\* Telnyx took the letter.
Redial ==
    /\ worker.pc = "redial"
    /\ \E id \in TelnyxId :
          /\ Accept(worker.fax, id)
          /\ worker' = [worker EXCEPT !.pc = "reaccepted", !.id = id,
                                      !.row = outbound[worker.fax]]
    /\ UNCHANGED <<tables, over_budget, due_ids, web, faults>>

RedialLost ==
    /\ worker.pc = "redial"
    /\ \E id \in TelnyxId : Accept(worker.fax, id)
    /\ worker' = [worker EXCEPT !.pc = "refused", !.row = outbound[worker.fax]]
    /\ UNCHANGED <<tables, over_budget, due_ids, web, faults>>

RedialFails ==
    /\ worker.pc = "redial"
    /\ worker' = [worker EXCEPT !.pc = "refused", !.row = outbound[worker.fax]]
    /\ UNCHANGED <<tables, telnyx, today, over_budget, due_ids, web, faults>>

\* The columns the session changed since it loaded the row reach the table.
Retried(stored, loaded, id) ==
    [stored EXCEPT
        !.fax_id = id,
        !.status = OrmWrite(stored.status, loaded.status, "queued"),
        !.next_retry_at = OrmWrite(stored.next_retry_at, loaded.next_retry_at, "null")]

RecordRetry ==
    /\ worker.pc = "reaccepted"
    /\ outbound' = [outbound EXCEPT ![worker.fax] = Retried(@, worker.row, worker.id)]
    /\ LogAttempt(worker.id)
    /\ worker' = At("batch")
    /\ UNCHANGED <<inbound, thread, webhook_events, telnyx, over_budget,
                   due_ids, web, faults>>

\* A new date is always written; NULL only over a date that was loaded.
Refused(stored, loaded) ==
    [stored EXCEPT
        !.status = OrmWrite(stored.status, loaded.status, Unsent(loaded, "later").status),
        !.next_retry_at =
            IF Exhausted(loaded)
            THEN OrmWrite(stored.next_retry_at, loaded.next_retry_at, "null")
            ELSE "later"]

RecordRefusal ==
    /\ worker.pc = "refused"
    /\ outbound' = [outbound EXCEPT ![worker.fax] = Refused(@, worker.row)]
    /\ worker' = At("batch")
    /\ UNCHANGED <<inbound, outbound_attempts, thread, webhook_events, telnyx,
                   today, over_budget, due_ids, web, faults>>

(***************************************************************************)
(* A database error raises out of the current step: the session rolls      *)
(* back.  process_pending moves on to the next fax; process_retries is     *)
(* left, and run.py polls again.                                           *)
(***************************************************************************)
WorkerError ==
    /\ faults < MaxFaults
    /\ faults' = faults + 1
    /\ \/ /\ worker.pc \in {"work", "accepted", "finish"}
          /\ worker' = At("pick")
          /\ UNCHANGED due_ids
       \/ /\ worker.pc \in {"redial", "reaccepted", "refused"}
          /\ worker' = At("poll")
          /\ due_ids' = {}
    /\ UNCHANGED <<tables, telnyx, today, over_budget, web>>

WorkerStep ==
    \/ \E stale \in SUBSET Processing : RequeueStale(stale)
    \/ \E f \in Fax : Claim(f) \/ ClaimRetry(f) \/ SkipRetry(f)
    \/ NonePending \/ FileUnanswered \/ ReplyFails \/ FindPriorSend \/ CommitIntent
    \/ Dial \/ DialLost \/ DialFails \/ RecordSend \/ Finish
    \/ \E stale \in SUBSET Retrying : RecoverStaleRetrying(stale)
    \/ EndRetries \/ Redial \/ RedialLost \/ RedialFails
    \/ RecordRetry \/ RecordRefusal

=============================================================================
