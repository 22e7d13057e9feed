------------------------- MODULE DeliveryRetryProofs ------------------------
(***************************************************************************)
(* What the rows remember of the letters sent for them: RetryInv of        *)
(* DeliveryInv and the properties that follow from it.                     *)
(***************************************************************************)
EXTENDS DeliveryProofs, FiniteSetTheorems

(***************************************************************************)
(* The steps, told apart by what they do to the rows, the log and the      *)
(* events.                                                                 *)
(***************************************************************************)

\* A step that leaves the log, the events and what is committed of a letter
\* alone; the worker may drop a retry, or take a first send in hand.
Quiet ==
    /\ UNCHANGED <<outbound_attempts, webhook_events>>
    /\ \A f \in Fax :
          /\ outbound'[f].fax_id = outbound[f].fax_id
          /\ outbound'[f].attempts = outbound[f].attempts
          /\ \/ outbound'[f].status = outbound[f].status
             \/ outbound[f].status = "none" /\ outbound'[f].status = "pending_send"
          /\ \/ outbound'[f].next_retry_at = outbound[f].next_retry_at
             \/ outbound'[f].next_retry_at = "due"
             \/ outbound'[f].status = "pending_send"
    /\ \A id \in TelnyxId : calls[id].fax \in Fax => calls'[id] = calls[id]
    /\ web' = web \/ (web' = WebIdle /\ faults' > 0)
    /\ worker' = worker \/ worker'.pc \notin RetryPhase
    /\ faults' = faults \/ faults' > 0

\* The worker loads the row of the retry it has claimed, and Telnyx answers.
Redialled ==
    /\ worker.pc = "redial"
    /\ worker'.pc \in {"reaccepted", "refused"}
    /\ worker'.fax = worker.fax
    /\ worker'.row = outbound[worker.fax]
    /\ \A id \in TelnyxId : calls[id].fax \in Fax => calls'[id] = calls[id]
    /\ UNCHANGED <<outbound, outbound_attempts, webhook_events, web, faults>>

\* What Telnyx holds of a letter does not change when it accepts another one.
LEMMA CallsKept ==
    ASSUME TypeOK, NEW f \in Fax, NEW id \in TelnyxId, Accept(f, id)
    PROVE  \A j \in TelnyxId : calls[j].fax \in Fax => calls'[j] = calls[j]
<1>1. PICK h \in Histories : calls' = [calls EXCEPT ![id] = [fax |-> f, reports |-> h]]
  BY DEF Accept
<1>2. calls[id].fax = NoFax BY DEF Accept, FreshId
<1> QED BY <1>1, <1>2, FaxAssumption DEF TypeOK

\* The steps that touch neither log nor events.
LEMMA QuietOnes ==
    ASSUME IInv,
           \/ \E stale \in SUBSET Processing : RequeueStale(stale)
           \/ \E f \in Fax : Claim(f) \/ SkipRetry(f) \/ Arrive(f)
           \/ NonePending \/ FileUnanswered \/ ReplyFails \/ FindPriorSend
           \/ Dial \/ DialLost \/ DialFails \/ Finish \/ EndRetries \/ WorkerError
           \/ WebError \/ Crash \/ NewDay \/ UNCHANGED vars
    PROVE  Quiet
<1> USE DEF tables, telnyx
<1>0. TypeOK /\ WorkerInHand /\ worker \in WorkerState /\ faults \in Nat BY DEF IInv, TypeOK
<1>1. UNCHANGED <<outbound, outbound_attempts, webhook_events>>
  BY DEF RequeueStale, Claim, SkipRetry, Arrive, NonePending, FileUnanswered, ReplyFails,
         FindPriorSend, Dial, DialLost, DialFails, Finish, EndRetries, WorkerError,
         WebError, Crash, NewDay, vars
<1>2. \A id \in TelnyxId : calls[id].fax \in Fax => calls'[id] = calls[id]
  <2>1. CASE Dial \/ DialLost
    <3>1. worker.fax \in Fax
      BY <2>1, <1>0 DEF Dial, DialLost, WorkerInHand, FirstPhase
    <3>2. PICK id \in TelnyxId : Accept(worker.fax, id) BY <2>1 DEF Dial, DialLost
    <3> QED BY <3>1, <3>2, <1>0, CallsKept
  <2>2. CASE UNCHANGED calls BY <2>2
  <2> QED BY <2>1, <2>2 DEF RequeueStale, Claim, SkipRetry, Arrive, NonePending,
         FileUnanswered, ReplyFails, FindPriorSend, DialFails, Finish, EndRetries,
         WorkerError, WebError, Crash, NewDay, vars
<1>3. /\ web' = web \/ (web' = WebIdle /\ faults' > 0)
      /\ faults' = faults \/ faults' > 0
  <2>1. CASE WorkerError \/ WebError \/ Crash
    <3>1. faults' > 0 BY <2>1, <1>0 DEF WorkerError, WebError, Crash
    <3>2. web' = web \/ web' = WebIdle BY <2>1 DEF WorkerError, WebError, Crash
    <3> QED BY <3>1, <3>2
  <2>2. CASE UNCHANGED <<web, faults>> BY <2>2
  <2> QED BY <2>1, <2>2 DEF RequeueStale, Claim, SkipRetry, Arrive, NonePending,
         FileUnanswered, ReplyFails, FindPriorSend, Dial, DialLost, DialFails, Finish,
         EndRetries, NewDay, vars
<1>5. worker' = worker \/ worker'.pc \notin RetryPhase
  <2> USE DEF RetryPhase
  <2>1. CASE NonePending \/ \E stale \in SUBSET Processing : RequeueStale(stale)
    BY <2>1, <1>0 DEF RequeueStale, NonePending, Goto, WorkerState
  <2>2. CASE \E f \in Fax : Claim(f) \/ SkipRetry(f) \/ Arrive(f)
    BY <2>2 DEF Claim, SkipRetry, Arrive, At
  <2>3. CASE FileUnanswered \/ ReplyFails \/ DialLost \/ DialFails \/ Finish \/ EndRetries
               \/ WorkerError \/ Crash
    BY <2>3 DEF FileUnanswered, ReplyFails, DialLost, DialFails, Finish, EndRetries,
                WorkerError, Crash, At
  <2>4. CASE FindPriorSend \/ Dial
    BY <2>4, <1>0 DEF FindPriorSend, Dial, WorkerState
  <2>5. CASE WebError \/ NewDay \/ UNCHANGED vars
    BY <2>5 DEF WebError, NewDay, vars
  <2> QED BY <2>1, <2>2, <2>3, <2>4, <2>5
<1> QED BY <1>1, <1>2, <1>3, <1>5 DEF Quiet

\* The intent of a first send, and a date that comes.
LEMMA QuietRows ==
    ASSUME IInv, CommitIntent \/ \E f \in Fax : BackoffElapses(f)
    PROVE  Quiet
<1>0. /\ TypeOK /\ WorkerInHand /\ RowsSent /\ worker \in WorkerState
      /\ \A f \in Fax : outbound[f] \in OutboundRow
  BY DEF IInv, TypeOK
<1>1. CASE CommitIntent
  <2>1. /\ worker.fax \in Fax /\ outbound[worker.fax].fax_id = NoId
        /\ outbound' = [outbound EXCEPT ![worker.fax] =
                            IF outbound[worker.fax].status = "none" THEN PendingSend
                            ELSE outbound[worker.fax]]
        /\ UNCHANGED <<outbound_attempts, webhook_events, calls, web, faults>>
    BY <1>1, <1>0 DEF CommitIntent, PriorSend, WorkerInHand, FirstPhase, telnyx
  <2>2. outbound[worker.fax].attempts = 0 BY <2>1, <1>0 DEF RowsSent
  <2>3. worker'.pc = "dial" BY <1>1, <1>0 DEF CommitIntent, Goto, WorkerState
  <2>4. /\ PendingSend.fax_id = NoId /\ PendingSend.attempts = 0
        /\ PendingSend.status = "pending_send"
    BY DEF PendingSend, NoRow
  <2>5. \A f \in Fax : outbound'[f] = IF f = worker.fax /\ outbound[f].status = "none"
                                      THEN PendingSend ELSE outbound[f]
    BY <2>1, <1>0 DEF TypeOK
  <2> QED BY <2>1, <2>2, <2>3, <2>4, <2>5 DEF Quiet, RetryPhase
<1>2. ASSUME NEW f \in Fax, BackoffElapses(f) PROVE Quiet
  <2>1. /\ outbound' = [outbound EXCEPT ![f].next_retry_at = "due"]
        /\ UNCHANGED <<outbound_attempts, webhook_events, calls, web, faults, worker>>
    BY <1>2 DEF BackoffElapses, tables, telnyx
  <2> QED BY <2>1, <1>0 DEF Quiet, TypeOK, OutboundRow
<1> QED BY <1>1, <1>2

LEMMA Redials ==
    ASSUME IInv, Redial \/ RedialLost \/ RedialFails
    PROVE  Redialled /\ worker.fax \in Fax
<1> USE DEF tables, telnyx
<1>0. TypeOK /\ WorkerInHand /\ worker \in WorkerState BY DEF IInv, TypeOK
<1>1. worker.fax \in Fax /\ worker.pc = "redial"
  BY <1>0 DEF Redial, RedialLost, RedialFails, WorkerInHand, RetryPhase
<1>2. UNCHANGED <<outbound, outbound_attempts, webhook_events, web, faults>>
  BY DEF Redial, RedialLost, RedialFails
<1>3. \A id \in TelnyxId : calls[id].fax \in Fax => calls'[id] = calls[id]
  <2>1. CASE \E id \in TelnyxId : Accept(worker.fax, id) BY <2>1, <1>1, <1>0, CallsKept
  <2>2. CASE UNCHANGED calls BY <2>2
  <2> QED BY <2>1, <2>2 DEF Redial, RedialLost, RedialFails
<1>4. /\ worker'.pc \in {"reaccepted", "refused"} /\ worker'.fax = worker.fax
      /\ worker'.row = outbound[worker.fax]
  BY <1>0 DEF Redial, RedialLost, RedialFails, WorkerState
<1> QED BY <1>1, <1>2, <1>3, <1>4 DEF Redialled

\* A step that is not quiet is one of nine.
LEMMA Steps ==
    ASSUME IInv, [Next]_vars
    PROVE  \/ Quiet \/ Redialled
           \/ RecordSend \/ RecordRetry \/ RecordRefusal
           \/ \E stale \in SUBSET Retrying : RecoverStaleRetrying(stale)
           \/ \E f \in Fax : ClaimRetry(f)
           \/ \E id \in TelnyxId, kind \in Kinds : WebLoad(id, kind)
           \/ WebCommit \/ WebRecord
BY QuietOnes, QuietRows, Redials DEF Next, WorkerStep, WebStep

(***************************************************************************)
(* What each of them changes.                                              *)
(***************************************************************************)

\* Every step keeps what is logged, recorded and told.
LEMMA Persist ==
    ASSUME IInv, [Next]_vars
    PROVE  /\ outbound_attempts \subseteq outbound_attempts'
           /\ webhook_events \subseteq webhook_events'
           /\ \A id \in TelnyxId : calls[id].fax \in Fax => calls'[id] = calls[id]
           /\ \A id \in outbound_attempts : id \in TelnyxId /\ calls'[id] = calls[id]
           /\ \A f \in Fax, kind \in Kinds : Told(f, kind) => Told(f, kind)'
           /\ faults' = 0 => faults = 0
           /\ \A f \in Fax : Clean(f)' => Clean(f)
<1>0. TypeOK /\ LoggedSent /\ faults \in Nat BY DEF IInv, TypeOK
<1>1. /\ outbound_attempts \subseteq outbound_attempts'
      /\ webhook_events \subseteq webhook_events'
      /\ \A id \in TelnyxId : calls[id].fax \in Fax => calls'[id] = calls[id]
      /\ faults' = 0 => faults = 0
  <2> USE DEF telnyx
  <2>1. CASE Quiet \/ Redialled BY <2>1 DEF Quiet, Redialled
  <2>2. CASE RecordSend \/ RecordRetry BY <2>2 DEF RecordSend, RecordRetry, LogAttempt
  <2>3. CASE RecordRefusal \/ \E stale \in SUBSET Retrying : RecoverStaleRetrying(stale)
    BY <2>3 DEF RecordRefusal, RecoverStaleRetrying
  <2>4. CASE \E f \in Fax : ClaimRetry(f) BY <2>4 DEF ClaimRetry
  <2>5. CASE (\E id \in TelnyxId, kind \in Kinds : WebLoad(id, kind)) \/ WebCommit \/ WebRecord
    BY <2>5 DEF WebLoad, WebCommit, WebRecord, tables
  <2> QED BY Steps, <2>1, <2>2, <2>3, <2>4, <2>5
<1>2. \A id \in outbound_attempts : id \in TelnyxId /\ calls'[id] = calls[id]
  BY <1>0, <1>1 DEF TypeOK, LoggedSent
<1>3. \A f \in Fax, kind \in Kinds : Told(f, kind) => Told(f, kind)'
  BY <1>1, <1>2 DEF Told, LoggedFor
<1>4. "busy" \in Kinds BY DEF Kinds
<1> QED BY <1>1, <1>2, <1>3, <1>4 DEF Clean

\* The first send of a row is committed.
LEMMA SendRow ==
    ASSUME IInv, RecordSend
    PROVE  /\ worker.fax \in Fax /\ worker.id \in TelnyxId
           /\ calls[worker.id].fax = worker.fax
           /\ outbound[worker.fax].fax_id = NoId
           /\ outbound'[worker.fax].status = "queued"
           /\ outbound'[worker.fax].fax_id = worker.id
           /\ outbound'[worker.fax].attempts = outbound[worker.fax].attempts + 1
           /\ \A f \in Fax : f # worker.fax => outbound'[f] = outbound[f]
           /\ worker.pc \notin RetryPhase /\ worker'.pc \notin RetryPhase
           /\ outbound_attempts' = outbound_attempts \cup {worker.id}
           /\ UNCHANGED <<calls, web, webhook_events, faults>>
<1>0. /\ TypeOK /\ WorkerInHand /\ RowsSent /\ worker \in WorkerState
  BY DEF IInv, TypeOK
<1>1. /\ worker.fax \in Fax /\ worker.id \in TelnyxId
      /\ calls[worker.id].fax = worker.fax
      /\ outbound[worker.fax].status = "pending_send"
      /\ worker.pc = "accepted"
      /\ outbound[worker.fax] \in OutboundRow
  BY <1>0 DEF RecordSend, WorkerInHand, FirstPhase, TypeOK
<1>2. outbound' = [outbound EXCEPT ![worker.fax] = Sent(outbound[worker.fax], worker.id)]
  BY DEF RecordSend
<1>3. /\ outbound_attempts' = outbound_attempts \cup {worker.id}
      /\ UNCHANGED <<calls, web, webhook_events, faults>>
      /\ worker' = [worker EXCEPT !.pc = "finish", !.id = NoId]
  BY DEF RecordSend, LogAttempt, telnyx
<1>4. worker'.pc = "finish" BY <1>3, <1>0 DEF WorkerState
<1>5. outbound[worker.fax].fax_id = NoId BY <1>0, <1>1 DEF RowsSent
<1>6. outbound'[worker.fax] = Sent(outbound[worker.fax], worker.id)
  BY <1>0, <1>1, <1>2 DEF TypeOK
<1>7. \A f \in Fax : f # worker.fax => outbound'[f] = outbound[f]
  BY <1>0, <1>2 DEF TypeOK
<1> QED BY <1>1, <1>3, <1>4, <1>5, <1>6, <1>7, RowColumns DEF RetryPhase

\* The commit of a retry that was accepted.
LEMMA RetryRow ==
    ASSUME IInv, RecordRetry
    PROVE  /\ worker.fax \in Fax /\ worker.id \in TelnyxId
           /\ calls[worker.id].fax = worker.fax
           /\ InRetry(worker.fax) /\ Loaded
           /\ outbound'[worker.fax].fax_id = worker.id
           /\ outbound'[worker.fax].attempts = outbound[worker.fax].attempts
           /\ outbound'[worker.fax].status = IF worker.row.status = "queued"
                                             THEN outbound[worker.fax].status ELSE "queued"
           /\ \A f \in Fax : f # worker.fax => outbound'[f] = outbound[f]
           /\ worker'.pc \notin RetryPhase
           /\ outbound_attempts' = outbound_attempts \cup {worker.id}
           /\ UNCHANGED <<calls, web, webhook_events, faults>>
<1>0. TypeOK /\ WorkerInHand /\ worker \in WorkerState /\ worker.row \in OutboundRow
  BY DEF IInv, TypeOK, WorkerState
<1>1. /\ worker.fax \in Fax /\ worker.id \in TelnyxId
      /\ calls[worker.id].fax = worker.fax
      /\ worker.pc = "reaccepted"
      /\ outbound[worker.fax] \in OutboundRow
  BY <1>0 DEF RecordRetry, WorkerInHand, RetryPhase, TypeOK
<1>2. outbound' = [outbound EXCEPT ![worker.fax] =
                       Retried(outbound[worker.fax], worker.row, worker.id)]
  BY DEF RecordRetry
<1>3. /\ outbound_attempts' = outbound_attempts \cup {worker.id}
      /\ UNCHANGED <<calls, web, webhook_events, faults>>
      /\ worker' = At("batch")
  BY DEF RecordRetry, LogAttempt, telnyx
<1>4. worker'.pc = "batch" BY <1>3 DEF At
<1>6. outbound'[worker.fax] = Retried(outbound[worker.fax], worker.row, worker.id)
  BY <1>0, <1>1, <1>2 DEF TypeOK
<1>7. \A f \in Fax : f # worker.fax => outbound'[f] = outbound[f]
  BY <1>0, <1>2 DEF TypeOK
<1>8. Retried(outbound[worker.fax], worker.row, worker.id).status =
          IF worker.row.status = "queued" THEN outbound[worker.fax].status ELSE "queued"
  BY <1>1 DEF Retried, OrmWrite, OutboundRow
<1> QED BY <1>0, <1>1, <1>3, <1>4, <1>6, <1>7, <1>8, RowColumns DEF RetryPhase, InRetry, Loaded

\* The commit of a retry that produced no id.
LEMMA RefusedRow ==
    ASSUME IInv, RecordRefusal
    PROVE  /\ worker.fax \in Fax
           /\ InRetry(worker.fax) /\ Loaded
           /\ outbound'[worker.fax].fax_id = outbound[worker.fax].fax_id
           /\ outbound'[worker.fax].attempts = outbound[worker.fax].attempts
           /\ outbound'[worker.fax].status \in
                 {outbound[worker.fax].status, "retry_scheduled", "failed_permanent"}
           /\ Exhausted(worker.row) =>
                 outbound'[worker.fax].status = IF worker.row.status = "failed_permanent"
                     THEN outbound[worker.fax].status ELSE "failed_permanent"
           /\ ~Exhausted(worker.row) => outbound'[worker.fax].next_retry_at = "later"
           /\ \A f \in Fax : f # worker.fax => outbound'[f] = outbound[f]
           /\ worker'.pc \notin RetryPhase
           /\ UNCHANGED <<calls, web, webhook_events, outbound_attempts, faults>>
<1>0. TypeOK /\ WorkerInHand /\ worker \in WorkerState /\ worker.row \in OutboundRow
  BY DEF IInv, TypeOK, WorkerState
<1>1. /\ worker.fax \in Fax
      /\ worker.pc = "refused"
      /\ outbound[worker.fax] \in OutboundRow
  BY <1>0 DEF RecordRefusal, WorkerInHand, RetryPhase, TypeOK
<1>2. outbound' = [outbound EXCEPT ![worker.fax] = Refused(outbound[worker.fax], worker.row)]
  BY DEF RecordRefusal
<1>3. /\ UNCHANGED <<calls, web, webhook_events, outbound_attempts, faults>>
      /\ worker' = At("batch")
  BY DEF RecordRefusal, telnyx
<1>4. worker'.pc = "batch" BY <1>3 DEF At
<1>6. outbound'[worker.fax] = Refused(outbound[worker.fax], worker.row)
  BY <1>0, <1>1, <1>2 DEF TypeOK
<1>7. \A f \in Fax : f # worker.fax => outbound'[f] = outbound[f]
  BY <1>0, <1>2 DEF TypeOK
<1>8. Refused(outbound[worker.fax], worker.row).status =
          OrmWrite(outbound[worker.fax].status, worker.row.status,
                   Unsent(worker.row, "later").status)
  BY <1>1 DEF Refused, OutboundRow
<1>9. Unsent(worker.row, "later").status = IF Exhausted(worker.row) THEN "failed_permanent"
                                           ELSE "retry_scheduled"
  <2>1. CASE Exhausted(worker.row) BY <2>1, <1>0 DEF Unsent, OutboundRow
  <2>2. CASE ~Exhausted(worker.row) BY <2>2, <1>0 DEF Unsent, OutboundRow
  <2> QED BY <2>1, <2>2
<1>10. ~Exhausted(worker.row) =>
           Refused(outbound[worker.fax], worker.row).next_retry_at = "later"
  BY <1>1 DEF Refused, OutboundRow
<1>11. /\ outbound'[worker.fax].status \in
             {outbound[worker.fax].status, "retry_scheduled", "failed_permanent"}
       /\ Exhausted(worker.row) =>
             outbound'[worker.fax].status = IF worker.row.status = "failed_permanent"
                 THEN outbound[worker.fax].status ELSE "failed_permanent"
  BY <1>6, <1>8, <1>9 DEF OrmWrite
<1>12. /\ outbound'[worker.fax].fax_id = outbound[worker.fax].fax_id
       /\ outbound'[worker.fax].attempts = outbound[worker.fax].attempts
  BY <1>6, <1>1 DEF Refused, OutboundRow
<1>13. InRetry(worker.fax) /\ Loaded BY <1>1 DEF RetryPhase, InRetry, Loaded
<1>14. worker'.pc \notin RetryPhase BY <1>4 DEF RetryPhase
<1> QED BY <1>1, <1>3, <1>6, <1>7, <1>10, <1>11, <1>12, <1>13, <1>14

\* The sweep of interrupted retries.
LEMMA SweptRows ==
    ASSUME IInv, NEW stale \in SUBSET Retrying, RecoverStaleRetrying(stale)
    PROVE  /\ \A f \in Fax :
                 \/ outbound'[f] = outbound[f]
                 \/ /\ outbound[f].status = "retrying"
                    /\ outbound'[f].fax_id = outbound[f].fax_id
                    /\ outbound'[f].attempts = outbound[f].attempts
                    /\ \/ outbound'[f].status = "failed_permanent"
                       \/ /\ outbound'[f].status = "retry_scheduled"
                          /\ outbound'[f].next_retry_at = "due"
           /\ worker.pc \notin RetryPhase /\ worker'.pc \notin RetryPhase
           /\ UNCHANGED <<calls, web, webhook_events, outbound_attempts, faults>>
<1>0. TypeOK BY DEF IInv
<1>1. /\ UNCHANGED <<calls, web, webhook_events, outbound_attempts, faults>>
      /\ worker' = At("batch") /\ worker.pc = "retries"
      /\ outbound' = [f \in Fax |-> IF f \in stale THEN Unsent(outbound[f], "due")
                                    ELSE outbound[f]]
  BY DEF RecoverStaleRetrying, telnyx
<1>2. worker.pc \notin RetryPhase /\ worker'.pc \notin RetryPhase BY <1>1 DEF At, RetryPhase
<1>3. ASSUME NEW f \in Fax, f \in stale
      PROVE  /\ outbound[f].status = "retrying"
             /\ outbound'[f].fax_id = outbound[f].fax_id
             /\ outbound'[f].attempts = outbound[f].attempts
             /\ \/ outbound'[f].status = "failed_permanent"
                \/ /\ outbound'[f].status = "retry_scheduled"
                   /\ outbound'[f].next_retry_at = "due"
  <2>1. /\ outbound[f].status = "retrying" /\ outbound[f] \in OutboundRow
        /\ outbound'[f] = Unsent(outbound[f], "due")
    BY <1>0, <1>1, <1>3 DEF Retrying, TypeOK
  <2>2. CASE Exhausted(outbound[f]) BY <2>1, <2>2 DEF Unsent, OutboundRow
  <2>3. CASE ~Exhausted(outbound[f]) BY <2>1, <2>3 DEF Unsent, OutboundRow
  <2> QED BY <2>1, <2>2, <2>3
<1>4. \A f \in Fax : f \notin stale => outbound'[f] = outbound[f] BY <1>1
<1> QED BY <1>1, <1>2, <1>3, <1>4

\* The claim of a retry.
LEMMA ClaimedRow ==
    ASSUME IInv, NEW g \in Fax, ClaimRetry(g)
    PROVE  /\ outbound[g].status = "retry_scheduled"
           /\ outbound'[g].fax_id = outbound[g].fax_id
           /\ outbound'[g].attempts = outbound[g].attempts + 1
           /\ outbound'[g].status = "retrying"
           /\ \A f \in Fax : f # g => outbound'[f] = outbound[f]
           /\ worker.pc \notin RetryPhase /\ worker'.pc = "redial" /\ worker'.fax = g
           /\ UNCHANGED <<calls, web, webhook_events, outbound_attempts, faults>>
<1>0. TypeOK /\ outbound[g] \in OutboundRow BY DEF IInv, TypeOK
<1>1. /\ UNCHANGED <<calls, web, webhook_events, outbound_attempts, faults>>
      /\ worker' = [At("redial") EXCEPT !.fax = g] /\ worker.pc = "batch"
      /\ outbound' = [outbound EXCEPT ![g] = Claimed(outbound[g])]
      /\ outbound[g].status = "retry_scheduled"
  BY DEF ClaimRetry, telnyx
<1>2. outbound'[g] = Claimed(outbound[g]) /\ \A f \in Fax : f # g => outbound'[f] = outbound[f]
  BY <1>0, <1>1 DEF TypeOK
<1>3. /\ outbound'[g].fax_id = outbound[g].fax_id
      /\ outbound'[g].attempts = outbound[g].attempts + 1
      /\ outbound'[g].status = "retrying"
  BY <1>0, <1>2 DEF Claimed, OutboundRow
<1>4. worker'.pc = "redial" /\ worker'.fax = g BY <1>1 DEF At
<1> QED BY <1>1, <1>2, <1>3, <1>4 DEF RetryPhase

\* The web process loads an event: of the newest letter, of an older one that
\* was delivered after all, or of none that is known.
LEMMA LoadedEvent ==
    ASSUME IInv, NEW id \in TelnyxId, NEW kind \in Kinds, WebLoad(id, kind)
    PROVE  /\ web'.id = id /\ web'.kind = kind
           /\ kind \in calls[id].reports /\ calls[id].fax \in Fax
           /\ <<id, kind>> \notin webhook_events
           /\ ~Reordering => UpTo(id, kind)
           /\ web'.pc \in {"commit", "record"}
           /\ web'.pc = "commit" =>
                 /\ web'.fax = calls[id].fax /\ web'.row = outbound[calls[id].fax]
                 /\ id \in outbound_attempts
                 /\ id = outbound[calls[id].fax].fax_id \/ kind = "delivered"
                 /\ ~web'.latest => kind = "delivered"
           /\ UNCHANGED <<calls, webhook_events, outbound, outbound_attempts, worker, faults>>
<1>0. TypeOK /\ RowsSent BY DEF IInv
<1>1. /\ UNCHANGED <<calls, webhook_events, outbound, outbound_attempts, worker, faults>>
      /\ Deliverable(id, kind) /\ ~Duplicate(id, kind)
  BY DEF WebLoad, tables, telnyx
<1>2. /\ kind \in calls[id].reports /\ calls[id].fax \in Fax
      /\ <<id, kind>> \notin webhook_events
      /\ ~Reordering => UpTo(id, kind)
  BY <1>0, <1>1 DEF Deliverable, Duplicate, UpTo, TypeOK
<1> DEFINE g == calls[id].fax
           loaded == [WebIdle EXCEPT !.id = id, !.kind = kind]
           one == [loaded EXCEPT !.pc = "commit", !.fax = g, !.latest = ById(id) # {},
                                 !.row = outbound[g], !.line = thread[ThreadOf[g]]]
           none == [loaded EXCEPT !.pc = "record"]
<1>3. web' = IF ById(id) # {} \/ Superseded(id, kind) THEN one ELSE none
  BY DEF WebLoad
<1>4. /\ one.id = id /\ one.kind = kind /\ one.pc = "commit"
      /\ one.fax = g /\ one.row = outbound[g] /\ one.latest = (ById(id) # {})
      /\ none.id = id /\ none.kind = kind /\ none.pc = "record"
  BY DEF WebIdle
<1>5. ById(id) # {} => id = outbound[g].fax_id /\ id \in outbound_attempts
  <2> SUFFICES ASSUME NEW f \in Fax, outbound[f].fax_id = id
               PROVE  id = outbound[g].fax_id /\ id \in outbound_attempts
      BY DEF ById
  <2>1. id # NoId BY FaxAssumption
  <2> QED BY <2>1, <1>0 DEF RowsSent
<1>6. Superseded(id, kind) => id \in outbound_attempts /\ kind = "delivered"
  BY DEF Superseded
<1> HIDE DEF g, one, none
<1>7. g = calls[id].fax BY DEF g
<1> QED BY <1>1, <1>2, <1>3, <1>4, <1>5, <1>6, <1>7

\* The web process commits what the event says of the row.
LEMMA CommittedRow ==
    ASSUME IInv, WebCommit
    PROVE  /\ web.pc = "commit" /\ web.fax \in Fax /\ web.kind \in Kinds /\ web.id \in TelnyxId
           /\ outbound'[web.fax].fax_id = outbound[web.fax].fax_id
           /\ outbound'[web.fax].attempts = outbound[web.fax].attempts
           /\ outbound'[web.fax].status \in
                 {outbound[web.fax].status, NewStatus(web.row, web.kind)}
           /\ outbound'[web.fax].next_retry_at =
                 NewRetryAt(outbound[web.fax].next_retry_at, web.row, web.kind, web.latest)
           /\ \A f \in Fax : f # web.fax => outbound'[f] = outbound[f]
           /\ web'.pc = "record" /\ web'.id = web.id /\ web'.kind = web.kind
           /\ UNCHANGED <<calls, webhook_events, outbound_attempts, worker, faults>>
<1>0. TypeOK /\ WebInHand BY DEF IInv
<1>1. /\ web.pc = "commit" /\ web.fax \in Fax /\ web.kind \in Kinds /\ web.id \in TelnyxId
      /\ outbound[web.fax] \in OutboundRow
  BY <1>0 DEF WebCommit, WebInHand, TypeOK, WebState
<1>2. /\ outbound' = [outbound EXCEPT ![web.fax] =
                          Updated(outbound[web.fax], web.row, web.kind, web.latest)]
      /\ web' = [WebIdle EXCEPT !.pc = "record", !.id = web.id, !.kind = web.kind]
      /\ UNCHANGED <<calls, webhook_events, outbound_attempts, worker, faults>>
  BY DEF WebCommit, telnyx
<1>3. /\ outbound'[web.fax] = Updated(outbound[web.fax], web.row, web.kind, web.latest)
      /\ \A f \in Fax : f # web.fax => outbound'[f] = outbound[f]
  BY <1>0, <1>1, <1>2 DEF TypeOK
<1>4. /\ outbound'[web.fax].fax_id = outbound[web.fax].fax_id
      /\ outbound'[web.fax].attempts = outbound[web.fax].attempts
      /\ outbound'[web.fax].status \in
            {outbound[web.fax].status, NewStatus(web.row, web.kind)}
      /\ outbound'[web.fax].next_retry_at =
            NewRetryAt(outbound[web.fax].next_retry_at, web.row, web.kind, web.latest)
  BY <1>1, <1>3 DEF Updated, OrmWrite, OutboundRow
<1>5. web'.pc = "record" /\ web'.id = web.id /\ web'.kind = web.kind
  BY <1>2 DEF WebIdle
<1> QED BY <1>1, <1>2, <1>3, <1>4, <1>5

\* The event is recorded.
LEMMA RecordedEvent ==
    ASSUME IInv, WebRecord
    PROVE  /\ web.pc = "record" /\ web.id \in TelnyxId /\ web.kind \in Kinds
           /\ webhook_events' = webhook_events \cup {<<web.id, web.kind>>}
           /\ web'.pc = "idle"
           /\ UNCHANGED <<calls, outbound, outbound_attempts, worker, faults>>
<1>0. TypeOK /\ WebInHand BY DEF IInv
<1> QED BY <1>0 DEF WebRecord, WebIdle, WebInHand, TypeOK, WebState, telnyx

(***************************************************************************)
(* The log is no longer than the attempts.                                 *)
(***************************************************************************)

LEMMA LoggedFinite ==
    ASSUME IsFiniteSet(outbound_attempts), NEW f \in Fax
    PROVE  IsFiniteSet(LoggedFor(f)) /\ Cardinality(LoggedFor(f)) \in Nat
<1>1. LoggedFor(f) \subseteq outbound_attempts BY DEF LoggedFor
<1> QED BY <1>1, FS_Subset, FS_CardinalityType

\* A step that logs nothing leaves every row its log.
LEMMA LogSame ==
    ASSUME IInv, [Next]_vars, UNCHANGED outbound_attempts, NEW f \in Fax
    PROVE  LoggedFor(f)' = LoggedFor(f)
BY Persist DEF LoggedFor

\* The commit of a send logs its id for the row it was sent for.
LEMMA LogOne ==
    ASSUME IInv, RecordSend \/ RecordRetry, NEW f \in Fax
    PROVE  LoggedFor(f)' = LoggedFor(f) \cup (IF f = worker.fax THEN {worker.id} ELSE {})
<1>1. /\ outbound_attempts' = outbound_attempts \cup {worker.id} /\ UNCHANGED calls
      /\ calls[worker.id].fax = worker.fax
  BY SendRow, RetryRow
<1> QED BY <1>1 DEF LoggedFor

LEMMA StepLogPaid == ASSUME IInv, RetryInv, [Next]_vars PROVE LogPaid'
<1>0. /\ LogPaid /\ TypeOK
      /\ \A f \in Fax : outbound[f].attempts \in Nat
  BY DEF IInv, RetryInv, TypeOK, OutboundRow
<1>1. IsFiniteSet(outbound_attempts')
  <2>1. CASE UNCHANGED outbound_attempts BY <2>1, <1>0 DEF LogPaid
  <2>2. CASE RecordSend \/ RecordRetry
    <3>1. outbound_attempts' = outbound_attempts \cup {worker.id} BY <2>2, SendRow, RetryRow
    <3> QED BY <3>1, <1>0, FS_AddElement DEF LogPaid
  <2> QED BY <2>1, <2>2, Steps, RefusedRow, SweptRows, ClaimedRow, LoadedEvent,
             CommittedRow, RecordedEvent DEF Quiet, Redialled
<1>2. ASSUME NEW f \in Fax
      PROVE  /\ Cardinality(LoggedFor(f))' <= outbound'[f].attempts
             /\ InRetry(f)' => Cardinality(LoggedFor(f))' < outbound'[f].attempts
  <2> DEFINE n == Cardinality(LoggedFor(f))
  <2>0. /\ n \in Nat /\ n <= outbound[f].attempts
        /\ InRetry(f) => n < outbound[f].attempts
        /\ outbound[f].attempts \in Nat
    BY <1>0, LoggedFinite DEF LogPaid
  <2>1. CASE RecordSend
    <3>1. /\ f # worker.fax => outbound'[f] = outbound[f]
          /\ f = worker.fax => outbound'[f].attempts = outbound[f].attempts + 1
          /\ ~InRetry(f)'
      BY <2>1, SendRow DEF InRetry
    <3>2. LoggedFor(f)' = LoggedFor(f) \cup (IF f = worker.fax THEN {worker.id} ELSE {})
      BY <2>1, LogOne
    <3>3. CASE f = worker.fax
      <4>0. LoggedFor(f)' = LoggedFor(f) \cup {worker.id} BY <3>2, <3>3
      <4>1. Cardinality(LoggedFor(f)') \in {n, n + 1}
        BY <4>0, <1>0, LoggedFinite, FS_AddElement DEF LogPaid
      <4> QED BY <4>1, <3>1, <3>3, <2>0
    <3>4. CASE f # worker.fax
      <4>1. LoggedFor(f)' = LoggedFor(f) BY <3>2, <3>4
      <4> QED BY <4>1, <3>1, <3>4, <2>0
    <3> QED BY <3>3, <3>4
  <2>2. CASE RecordRetry
    <3>1. /\ f # worker.fax => outbound'[f] = outbound[f]
          /\ f = worker.fax => outbound'[f].attempts = outbound[f].attempts /\ InRetry(f)
          /\ ~InRetry(f)'
      BY <2>2, RetryRow DEF InRetry
    <3>2. LoggedFor(f)' = LoggedFor(f) \cup (IF f = worker.fax THEN {worker.id} ELSE {})
      BY <2>2, LogOne
    <3>3. CASE f = worker.fax
      <4>0. LoggedFor(f)' = LoggedFor(f) \cup {worker.id} BY <3>2, <3>3
      <4>1. Cardinality(LoggedFor(f)') \in {n, n + 1}
        BY <4>0, <1>0, LoggedFinite, FS_AddElement DEF LogPaid
      <4> QED BY <4>1, <3>1, <3>3, <2>0
    <3>4. CASE f # worker.fax
      <4>1. LoggedFor(f)' = LoggedFor(f) BY <3>2, <3>4
      <4> QED BY <4>1, <3>1, <3>4, <2>0
    <3> QED BY <3>3, <3>4
  <2>3. CASE \E g \in Fax : ClaimRetry(g)
    <3>1. PICK g \in Fax : ClaimRetry(g) BY <2>3
    <3>2. LoggedFor(f)' = LoggedFor(f) BY <3>1, ClaimedRow, LogSame
    <3>3. /\ f # g => outbound'[f] = outbound[f]
          /\ f = g => outbound'[f].attempts = outbound[f].attempts + 1
          /\ InRetry(f)' => f = g
      BY <3>1, ClaimedRow DEF InRetry
    <3> QED BY <3>2, <3>3, <2>0
  <2>4. ASSUME UNCHANGED outbound_attempts, outbound'[f].attempts = outbound[f].attempts,
               InRetry(f)' => InRetry(f)
        PROVE  /\ Cardinality(LoggedFor(f))' <= outbound'[f].attempts
               /\ InRetry(f)' => Cardinality(LoggedFor(f))' < outbound'[f].attempts
    <3>1. LoggedFor(f)' = LoggedFor(f) BY <2>4, LogSame
    <3> QED BY <3>1, <2>4, <2>0
  <2>5. CASE Quiet \/ Redialled
    BY <2>5, <2>4 DEF Quiet, Redialled, InRetry, RetryPhase
  <2>6. CASE RecordRefusal
    BY <2>6, <2>4, RefusedRow DEF InRetry
  <2>7. CASE \E stale \in SUBSET Retrying : RecoverStaleRetrying(stale)
    BY <2>7, <2>4, SweptRows DEF InRetry
  <2>8. CASE (\E id \in TelnyxId, kind \in Kinds : WebLoad(id, kind)) \/ WebRecord
    BY <2>8, <2>4, LoadedEvent, RecordedEvent DEF InRetry
  <2>9. CASE WebCommit
    BY <2>9, <2>4, CommittedRow DEF InRetry
  <2> QED BY Steps, <2>1, <2>2, <2>3, <2>5, <2>6, <2>7, <2>8, <2>9
<1> QED BY <1>1, <1>2 DEF LogPaid

(***************************************************************************)
(* The event in hand.                                                      *)
(***************************************************************************)

(***************************************************************************)
(* The event in hand.                                                      *)
(***************************************************************************)

LEMMA StepEvents == ASSUME IInv, RetryInv, [Next]_vars PROVE EventInHand'
<1>0. EventInHand /\ WebInHand /\ TypeOK BY DEF IInv, RetryInv
<1>1. \A event \in webhook_events : event[1] \in TelnyxId /\ Reported(event[1], event[2])
  BY <1>0 DEF TypeOK, EventInHand
<1>2. \A id \in TelnyxId, kind \in Kinds : Reported(id, kind) => Reported(id, kind)'
  BY Persist DEF Reported
<1>3. \A event \in webhook_events : event[2] \in Kinds BY <1>0 DEF TypeOK
<1>4. \A event \in webhook_events : Reported(event[1], event[2])'
  BY <1>1, <1>2, <1>3
<1>5. web.pc # "idle" => web.id \in TelnyxId /\ web.kind \in Kinds
  BY <1>0 DEF WebInHand, TypeOK, WebState
<1>10. web.pc # "idle" => calls'[web.id].fax \in Fax /\ web.kind \in calls'[web.id].reports
  BY <1>0, <1>5, Persist DEF EventInHand, Reported
<1>11. web.pc = "commit" => web.id \in outbound_attempts' /\ calls'[web.id].fax = web.fax
  BY <1>0, <1>5, Persist DEF EventInHand, LoggedFor
<1>6. CASE (web' = web \/ web' = WebIdle) /\ UNCHANGED webhook_events
  <2>1. web'.pc # "idle" => web' = web BY <1>6 DEF WebIdle
  <2> QED BY <1>0, <1>4, <1>6, <1>10, <1>11, <2>1 DEF EventInHand, Reported, LoggedFor
<1>7. CASE \E id \in TelnyxId, kind \in Kinds : WebLoad(id, kind)
  <2>1. PICK id \in TelnyxId, kind \in Kinds : WebLoad(id, kind) BY <1>7
  <2>2. /\ web'.id = id /\ web'.kind = kind /\ UNCHANGED <<calls, webhook_events, outbound_attempts>>
        /\ kind \in calls[id].reports /\ calls[id].fax \in Fax
        /\ <<id, kind>> \notin webhook_events
        /\ web'.pc = "commit" => /\ web'.fax = calls[id].fax /\ id \in outbound_attempts
                                 /\ ~web'.latest => web'.kind = "delivered"
    BY <2>1, LoadedEvent
  <2> QED BY <1>4, <2>2 DEF EventInHand, Reported, LoggedFor
<1>8. CASE WebCommit
  <2>1. /\ web.pc = "commit" /\ web'.pc = "record" /\ web'.id = web.id /\ web'.kind = web.kind
        /\ UNCHANGED <<calls, webhook_events>>
    BY <1>8, CommittedRow
  <2> QED BY <1>0, <1>4, <2>1 DEF EventInHand, Reported
<1>9. CASE WebRecord
  <2>1. /\ web.pc = "record" /\ web'.pc = "idle"
        /\ webhook_events' = webhook_events \cup {<<web.id, web.kind>>}
    BY <1>9, RecordedEvent
  <2> QED BY <1>4, <1>10, <2>1 DEF EventInHand, Reported
<1> QED BY Steps, <1>6, <1>7, <1>8, <1>9, SendRow, RetryRow, RefusedRow, SweptRows, ClaimedRow
        DEF Quiet, Redialled

(***************************************************************************)
(* Retries answer failures.                                                *)
(***************************************************************************)

\* How a row comes to await a retry: by a failure handler's commit, or because
\* it did before.
LEMMA AwaitingFrom ==
    ASSUME IInv, RetryInv, [Next]_vars, NEW f \in Fax, Awaiting(f)'
    PROVE  \/ Awaiting(f)
           \/ WebCommit /\ web.fax = f /\ web.kind = "busy"
<1> USE DEF Awaiting
<1>1. CASE Quiet
  BY <1>1 DEF Quiet, InRetry
<1>2. CASE Redialled
  BY <1>2 DEF Redialled, InRetry, RetryPhase
<1>3. CASE RecordSend
  BY <1>3, SendRow DEF InRetry
<1>4. CASE RecordRetry
  BY <1>4, RetryRow DEF InRetry
<1>5. CASE RecordRefusal
  BY <1>5, RefusedRow DEF InRetry
<1>6. CASE \E stale \in SUBSET Retrying : RecoverStaleRetrying(stale)
  BY <1>6, SweptRows DEF InRetry
<1>7. CASE \E g \in Fax : ClaimRetry(g)
  BY <1>7, ClaimedRow DEF InRetry
<1>8. CASE (\E id \in TelnyxId, kind \in Kinds : WebLoad(id, kind)) \/ WebRecord
  BY <1>8, LoadedEvent, RecordedEvent DEF InRetry
<1>9. CASE WebCommit
  <2>1. CASE f # web.fax BY <1>9, <2>1, CommittedRow DEF InRetry
  <2>2. CASE f = web.fax /\ web.kind # "busy"
    <3>1. NewStatus(web.row, web.kind) \notin {"retry_scheduled", "retrying"}
      BY <1>9, <2>2, CommittedRow DEF NewStatus, FailureStatus, StatusMap, Kinds, Permanent
    <3> QED BY <1>9, <2>2, <3>1, CommittedRow DEF InRetry
  <2> QED BY <1>9, <2>1, <2>2
<1> QED BY Steps, <1>1, <1>2, <1>3, <1>4, <1>5, <1>6, <1>7, <1>8, <1>9

LEMMA StepRetryOfFailure == ASSUME IInv, RetryInv, [Next]_vars PROVE RetryOfFailure'
<1>1. "busy" \in Kinds BY DEF Kinds
<1>2. ASSUME NEW f \in Fax, Awaiting(f)' PROVE Told(f, "busy")'
  <2>1. CASE Awaiting(f)
    <3>1. Told(f, "busy") BY <2>1 DEF RetryInv, RetryOfFailure
    <3> QED BY <3>1, <1>1, Persist
  <2>2. CASE WebCommit /\ web.fax = f /\ web.kind = "busy"
    <3>1. web.pc = "commit" BY <2>2, CommittedRow
    <3>2. web.id \in LoggedFor(f) /\ "busy" \in calls[web.id].reports
      BY <2>2, <3>1 DEF RetryInv, EventInHand, Reported
    <3>3. Told(f, "busy") BY <3>2 DEF Told
    <3> QED BY <3>3, <1>1, Persist
  <2> QED BY <1>2, <2>1, <2>2, AwaitingFrom
<1> QED BY <1>2 DEF RetryOfFailure

\* How the worker comes to have a retry in hand.
LEMMA InRetryFrom ==
    ASSUME IInv, [Next]_vars, NEW f \in Fax, InRetry(f)'
    PROVE  \/ ClaimRetry(f) /\ ~Loaded'
           \/ InRetry(f) /\ Redialled
           \/ /\ InRetry(f) /\ UNCHANGED worker /\ (Loaded' => Loaded)
              /\ \/ Quiet \/ WebCommit \/ WebRecord
                 \/ \E id \in TelnyxId, kind \in Kinds : WebLoad(id, kind)
<1> USE DEF InRetry, Loaded
<1>1. CASE Quiet BY <1>1 DEF Quiet
<1>2. CASE Redialled BY <1>2 DEF Redialled, RetryPhase
<1>3. CASE RecordSend \/ RecordRetry \/ RecordRefusal
  BY <1>3, SendRow, RetryRow, RefusedRow
<1>4. CASE \E stale \in SUBSET Retrying : RecoverStaleRetrying(stale)
  BY <1>4, SweptRows
<1>5. CASE \E g \in Fax : ClaimRetry(g)
  BY <1>5, ClaimedRow
<1>6. CASE (\E id \in TelnyxId, kind \in Kinds : WebLoad(id, kind)) \/ WebRecord
  BY <1>6, LoadedEvent, RecordedEvent
<1>7. CASE WebCommit BY <1>7, CommittedRow
<1> QED BY Steps, <1>1, <1>2, <1>3, <1>4, <1>5, <1>6, <1>7

\* What is heard stays heard as long as no transaction fails.
LEMMA HeardKept ==
    ASSUME IInv, [Next]_vars, faults' = 0,
           NEW id \in TelnyxId, NEW kind \in Kinds, Heard(id, kind)
    PROVE  Heard(id, kind)'
<1>1. CASE <<id, kind>> \in webhook_events BY <1>1, Persist DEF Heard
<1>2. CASE web.pc = "record" /\ web.id = id /\ web.kind = kind
  <2>1. CASE WebRecord
    <3>1. <<id, kind>> \in webhook_events' BY <1>2, <2>1, RecordedEvent
    <3> QED BY <3>1 DEF Heard
  <2>2. CASE UNCHANGED web BY <1>2, <2>2 DEF Heard
  <2>3. CASE \E j \in TelnyxId, k \in Kinds : WebLoad(j, k) BY <1>2, <2>3 DEF WebLoad
  <2>4. CASE WebCommit BY <1>2, <2>4 DEF WebCommit
  <2> QED BY Steps, <2>1, <2>2, <2>3, <2>4, SendRow, RetryRow, RefusedRow, SweptRows, ClaimedRow
          DEF Quiet, Redialled
<1> QED BY <1>1, <1>2 DEF Heard

\* A retry never begins while the failure it answers is handled once more.
LEMMA NoSecondFailure ==
    ASSUME IInv, RetryInv, faults = 0, web.pc = "commit", web.kind = "busy"
    PROVE  web.fax \in Fax /\ ~Awaiting(web.fax)
<1>1. web.fax \in Fax BY DEF IInv, WebInHand
<1>2. web.id = outbound[web.fax].fax_id BY DEF RetryInv, FailureOnce
<1>3. Awaiting(web.fax) => Heard(web.id, "busy") BY <1>1, <1>2 DEF RetryInv, FailureOnce
<1>4. ~Heard(web.id, "busy") BY DEF RetryInv, EventInHand, Heard
<1> QED BY <1>1, <1>3, <1>4

LEMMA StepFailureOnce == ASSUME IInv, RetryInv, [Next]_vars PROVE FailureOnce'
<1> SUFFICES ASSUME faults' = 0
             PROVE  /\ \A f \in Fax : Awaiting(f)' => Heard(outbound[f].fax_id, "busy")'
                    /\ web'.pc = "commit" /\ web'.kind = "busy" =>
                          web'.id = outbound'[web'.fax].fax_id
                    /\ Loaded' /\ worker'.row.status = "queued" =>
                          outbound'[worker'.fax].status \notin {"retry_scheduled", "retrying"}
    BY DEF FailureOnce
<1>0. /\ TypeOK /\ WorkerInHand /\ WebInHand /\ RowsSent /\ EventInHand /\ FailureOnce
      /\ faults = 0 /\ "busy" \in Kinds
  BY Persist DEF IInv, RetryInv, Kinds
<1>1. ASSUME NEW f \in Fax, Awaiting(f)' PROVE Heard(outbound[f].fax_id, "busy")'
  <2>1. CASE Awaiting(f)
    <3>1. outbound[f].fax_id \in TelnyxId /\ Heard(outbound[f].fax_id, "busy")
      <4>1. outbound[f].fax_id # NoId
        BY <1>0, <2>1 DEF Awaiting, InRetry, RowsSent, WorkerInHand
      <4> QED BY <4>1, <2>1, <1>0 DEF FailureOnce, TypeOK, OutboundRow
    <3>2. PICK id \in TelnyxId : id = outbound[f].fax_id BY <3>1
    <3>3. Heard(id, "busy")' BY <3>1, <3>2, <1>0, HeardKept
    <3>4. outbound'[f].fax_id = id
      <4>1. CASE RecordSend
        BY <4>1, <3>2, <3>1, FaxAssumption, SendRow
      <4>2. CASE RecordRetry
        <5>1. CASE f = worker.fax
          <6>1. /\ outbound'[f].status = IF worker.row.status = "queued"
                                         THEN outbound[f].status ELSE "queued"
                /\ Loaded /\ ~InRetry(f)'
            BY <4>2, <5>1, RetryRow DEF InRetry
          <6>2. outbound'[f].status \in {"retry_scheduled", "retrying"}
            BY <1>1, <6>1 DEF Awaiting
          <6>3. worker.row.status = "queued"
                   => outbound[f].status \notin {"retry_scheduled", "retrying"}
            BY <1>0, <5>1, <6>1 DEF FailureOnce
          <6> QED BY <6>1, <6>2, <6>3
        <5>2. CASE f # worker.fax BY <4>2, <5>2, <3>2, RetryRow
        <5> QED BY <5>1, <5>2
      <4> QED BY Steps, <3>2, <4>1, <4>2, RefusedRow, SweptRows, ClaimedRow, LoadedEvent,
                 CommittedRow, RecordedEvent DEF Quiet, Redialled
    <3> QED BY <3>3, <3>4 DEF Heard
  <2>2. CASE WebCommit /\ web.fax = f /\ web.kind = "busy"
    <3>1. /\ web.pc = "commit" /\ web'.pc = "record" /\ web'.id = web.id
          /\ web'.kind = "busy" /\ outbound'[f].fax_id = outbound[f].fax_id
      BY <2>2, CommittedRow
    <3>2. web'.id = outbound'[f].fax_id BY <1>0, <2>2, <3>1 DEF FailureOnce
    <3> QED BY <3>1, <3>2 DEF Heard
  <2> QED BY <1>1, <2>1, <2>2, AwaitingFrom
<1>2. ASSUME web'.pc = "commit", web'.kind = "busy"
      PROVE  web'.id = outbound'[web'.fax].fax_id
  <2>1. CASE UNCHANGED web
    <3>1. /\ web.fax \in Fax /\ ~Awaiting(web.fax) /\ outbound[web.fax].fax_id # NoId
          /\ web.id = outbound[web.fax].fax_id
      BY <1>0, <1>2, <2>1, NoSecondFailure DEF FailureOnce, WebInHand
    <3>2. outbound'[web.fax].fax_id = outbound[web.fax].fax_id
      <4>1. CASE RecordSend BY <4>1, <3>1, SendRow
      <4>2. CASE RecordRetry BY <4>2, <3>1, RetryRow DEF Awaiting
      <4> QED BY Steps, <3>1, <4>1, <4>2, RefusedRow, SweptRows, ClaimedRow, LoadedEvent,
                 CommittedRow, RecordedEvent DEF Quiet, Redialled
    <3> QED BY <2>1, <3>1, <3>2
  <2>2. CASE \E id \in TelnyxId, kind \in Kinds : WebLoad(id, kind)
    BY <1>2, <2>2, LoadedEvent
  <2>3. CASE Quiet
    BY <1>2, <2>1, <2>3 DEF Quiet
  <2>4. CASE WebCommit \/ WebRecord BY <1>2, <2>4, CommittedRow, RecordedEvent
  <2> QED BY Steps, <2>1, <2>2, <2>3, <2>4, SendRow, RetryRow, RefusedRow, SweptRows, ClaimedRow
          DEF Redialled
<1>3. ASSUME Loaded', worker'.row.status = "queued"
      PROVE  outbound'[worker'.fax].status \notin {"retry_scheduled", "retrying"}
  <2>1. worker'.fax \in Fax
    <3>1. IInv' BY StepIInv
    <3> QED BY <3>1, <1>3 DEF IInv, WorkerInHand, Loaded, RetryPhase
  <2>2. PICK g \in Fax : g = worker'.fax BY <2>1
  <2>3. InRetry(g)' BY <1>3, <2>2 DEF Loaded, InRetry, RetryPhase
  <2>4. CASE InRetry(g) /\ Redialled
    BY <1>3, <2>2, <2>4 DEF Redialled, InRetry
  <2>5. CASE InRetry(g) /\ UNCHANGED worker /\ Loaded
    <3>1. outbound[g].status \notin {"retry_scheduled", "retrying"}
      BY <1>0, <1>3, <2>2, <2>5 DEF FailureOnce
    <3>2. CASE WebCommit
      <4>1. CASE g # web.fax BY <3>1, <3>2, <4>1, <2>2, CommittedRow
      <4>2. CASE g = web.fax
        <5>1. web.kind # "busy"
          BY <1>0, <2>5, <3>2, <4>2, NoSecondFailure, CommittedRow DEF Awaiting
        <5>2. NewStatus(web.row, web.kind) \notin {"retry_scheduled", "retrying"}
          BY <3>2, <5>1, CommittedRow DEF NewStatus, FailureStatus, StatusMap, Kinds, Permanent
        <5> QED BY <3>1, <3>2, <4>2, <5>2, <2>2, CommittedRow
      <4> QED BY <4>1, <4>2
    <3>3. CASE Quiet BY <3>1, <3>3, <2>2 DEF Quiet
    <3>4. CASE WebRecord \/ \E id \in TelnyxId, kind \in Kinds : WebLoad(id, kind)
      BY <3>1, <3>4, <2>2, LoadedEvent, RecordedEvent
    <3> QED BY <2>3, <2>4, <3>2, <3>3, <3>4, <1>3, InRetryFrom
  <2> QED BY <1>3, <2>3, <2>4, <2>5, InRetryFrom
<1> QED BY <1>1, <1>2, <1>3

\* In the middle of a retry only a webhook says "queued".
LEMMA StepQueued == ASSUME IInv, RetryInv, [Next]_vars PROVE QueuedInRetry'
<1>0. QueuedInRetry /\ EventInHand /\ "queued" \in Kinds BY DEF RetryInv, Kinds
<1> SUFFICES ASSUME NEW f \in Fax, InRetry(f)',
                    outbound'[f].status = "queued" \/ (Loaded' /\ worker'.row.status = "queued")
             PROVE  Told(f, "queued")'
    BY DEF QueuedInRetry
<1>1. CASE Told(f, "queued") BY <1>0, <1>1, Persist
<1>2. CASE ClaimRetry(f) /\ ~Loaded' BY <1>2, ClaimedRow
<1>3. CASE InRetry(f) /\ Redialled
  BY <1>0, <1>1, <1>3 DEF Redialled, InRetry, QueuedInRetry
<1>4. CASE InRetry(f) /\ UNCHANGED worker /\ (Loaded' => Loaded)
  <2>1. CASE UNCHANGED outbound[f].status \/ outbound'[f].status = "pending_send"
    BY <1>0, <1>1, <1>4, <2>1 DEF QueuedInRetry
  <2>2. CASE Quiet BY <2>1, <2>2 DEF Quiet
  <2>3. CASE WebRecord \/ \E id \in TelnyxId, kind \in Kinds : WebLoad(id, kind)
    BY <2>1, <2>3, LoadedEvent, RecordedEvent
  <2>4. CASE WebCommit
    <3>1. CASE f # web.fax BY <2>1, <2>4, <3>1, CommittedRow
    <3>2. CASE f = web.fax
      <4>1. /\ outbound'[f].status \in {outbound[f].status, NewStatus(web.row, web.kind)}
            /\ web.pc = "commit" /\ web.kind \in Kinds
        BY <2>4, <3>2, CommittedRow
      <4>2. NewStatus(web.row, web.kind) = "queued" => web.kind = "queued"
        BY <4>1 DEF NewStatus, FailureStatus, StatusMap, Kinds
      <4>3. web.kind = "queued" => Told(f, "queued")
        BY <1>0, <3>2, <4>1 DEF EventInHand, Reported, Told
      <4>4. Loaded' /\ worker'.row.status = "queued" => Told(f, "queued")
        BY <1>0, <1>4 DEF QueuedInRetry
      <4> QED BY <1>1, <2>1, <4>1, <4>2, <4>3, <4>4
    <3> QED BY <3>1, <3>2
  <2> QED BY <1>4, <2>2, <2>3, <2>4, InRetryFrom, <1>2, <1>3
<1> QED BY <1>2, <1>3, <1>4, InRetryFrom

LEMMA StepGivenUp == ASSUME IInv, RetryInv, [Next]_vars PROVE GivenUpInRetry'
<1>0. GivenUpInRetry /\ WorkerInHand /\ TypeOK /\ web.row \in OutboundRow /\ worker.row \in OutboundRow
  BY DEF RetryInv, IInv, TypeOK, WebState, WorkerState
<1>1. ASSUME NEW f \in Fax, InRetry(f)', web'.pc = "commit", web'.fax = f,
             \/ outbound'[f].status = "failed_permanent"
             \/ Loaded' /\ worker'.row.status = "failed_permanent"
      PROVE  web'.row.attempts = outbound'[f].attempts
  <2>1. CASE ClaimRetry(f) /\ ~Loaded' BY <1>1, <2>1, ClaimedRow
  <2>2. CASE InRetry(f) /\ Redialled
    BY <1>0, <1>1, <2>2 DEF Redialled, InRetry, GivenUpInRetry
  <2>3. CASE InRetry(f) /\ UNCHANGED worker /\ (Loaded' => Loaded) /\ Quiet
    BY <1>0, <1>1, <2>3 DEF Quiet, GivenUpInRetry, WebIdle
  <2>4. CASE \E id \in TelnyxId, kind \in Kinds : WebLoad(id, kind)
    BY <1>1, <2>4, LoadedEvent
  <2>5. CASE WebCommit \/ WebRecord BY <1>1, <2>5, CommittedRow, RecordedEvent
  <2> QED BY <1>1, <2>1, <2>2, <2>3, <2>4, <2>5, InRetryFrom
<1>2. ASSUME Loaded', worker'.row.status = "failed_permanent", Exhausted(worker'.row)
      PROVE  outbound'[worker'.fax].status # "retry_scheduled"
  <2>1. worker'.fax \in Fax
    <3>1. IInv' BY StepIInv
    <3> QED BY <3>1, <1>2 DEF IInv, WorkerInHand, Loaded, RetryPhase
  <2>2. PICK g \in Fax : g = worker'.fax BY <2>1
  <2>3. InRetry(g)' BY <1>2, <2>2 DEF Loaded, InRetry, RetryPhase
  <2>4. CASE InRetry(g) /\ Redialled
    BY <1>2, <2>2, <2>4 DEF Redialled, InRetry
  <2>5. CASE InRetry(g) /\ UNCHANGED worker /\ Loaded
    <3>1. outbound[g].status # "retry_scheduled"
      BY <1>0, <1>2, <2>2, <2>5 DEF GivenUpInRetry
    <3>2. CASE WebCommit
      <4>1. CASE g # web.fax BY <3>1, <3>2, <4>1, <2>2, CommittedRow
      <4>2. CASE g = web.fax
        <5>1. web.row.attempts = outbound[g].attempts
          BY <1>0, <1>2, <2>5, <3>2, <4>2, CommittedRow DEF GivenUpInRetry
        <5>2. worker.row.attempts = outbound[g].attempts
          BY <1>0, <2>5 DEF WorkerInHand, Loaded, InRetry
        <5>3. worker.row.attempts > Backoffs BY <1>2, <2>5 DEF Exhausted
        <5>4. RetriesUsed(web.row) >= Backoffs
          BY <1>0, <5>1, <5>2, <5>3, LimitAssumption DEF RetriesUsed, OutboundRow
        <5>5. NewStatus(web.row, web.kind) # "retry_scheduled"
          BY <3>2, <5>4, CommittedRow DEF NewStatus, FailureStatus, StatusMap, Kinds
        <5> QED BY <3>1, <3>2, <4>2, <5>5, <2>2, CommittedRow
      <4> QED BY <4>1, <4>2
    <3>3. CASE Quiet BY <3>1, <3>3, <2>2 DEF Quiet
    <3>4. CASE WebRecord \/ \E id \in TelnyxId, kind \in Kinds : WebLoad(id, kind)
      BY <3>1, <3>4, <2>2, LoadedEvent, RecordedEvent
    <3> QED BY <2>3, <2>4, <3>2, <3>3, <3>4, <1>2, InRetryFrom
  <2> QED BY <1>2, <2>3, <2>4, <2>5, InRetryFrom
<1> QED BY <1>1, <1>2 DEF GivenUpInRetry

(***************************************************************************)
(* Retry dates.                                                            *)
(***************************************************************************)

LEMMA StepDates == ASSUME IInv, RetryInv, [Next]_vars PROVE ScheduledHasDate'
<1>0. /\ ScheduledHasDate /\ QueuedInRetry /\ GivenUpInRetry /\ FailureOnce /\ EventInHand
      /\ TypeOK /\ faults \in Nat /\ faults' \in Nat
      /\ "delivered" \in Kinds /\ "queued" \in Kinds
  <2>1. IInv' BY StepIInv
  <2> QED BY <2>1 DEF RetryInv, IInv, TypeOK, Kinds
<1> SUFFICES ASSUME NEW f \in Fax, outbound'[f].status = "retry_scheduled",
                    outbound'[f].next_retry_at = "null"
             PROVE  Told(f, "delivered")' \/ (faults' > 0 /\ Told(f, "queued")')
    BY DEF ScheduledHasDate
<1>1. CASE Told(f, "delivered") \/ (faults > 0 /\ Told(f, "queued"))
  BY <1>0, <1>1, Persist
<1>2. CASE outbound[f].status = "retry_scheduled" /\ outbound[f].next_retry_at = "null"
  BY <1>0, <1>1, <1>2 DEF ScheduledHasDate
<1>3. CASE Quiet \/ Redialled BY <1>2, <1>3 DEF Quiet, Redialled
<1>4. CASE RecordSend BY <1>2, <1>4, SendRow
<1>5. CASE RecordRetry
  <2>1. CASE f # worker.fax BY <1>2, <1>5, <2>1, RetryRow
  <2>2. CASE f = worker.fax
    <3>1. /\ InRetry(f) /\ Loaded /\ worker.row.status = "queued"
          /\ outbound'[f].status = outbound[f].status
      BY <1>5, <2>2, RetryRow
    <3>2. Told(f, "queued") BY <1>0, <3>1 DEF QueuedInRetry
    <3>3. faults # 0 BY <1>0, <2>2, <3>1 DEF FailureOnce
    <3> QED BY <1>0, <1>1, <3>2, <3>3
  <2> QED BY <2>1, <2>2
<1>6. CASE RecordRefusal
  <2>1. CASE f # worker.fax BY <1>2, <1>6, <2>1, RefusedRow
  <2>2. CASE f = worker.fax /\ ~Exhausted(worker.row) BY <1>6, <2>2, RefusedRow
  <2>3. CASE f = worker.fax /\ Exhausted(worker.row)
    <3>1. /\ Loaded /\ worker.row.status = "failed_permanent"
          /\ outbound[f].status = "retry_scheduled"
      BY <1>6, <2>3, RefusedRow
    <3> QED BY <1>0, <2>3, <3>1 DEF GivenUpInRetry
  <2> QED BY <2>1, <2>2, <2>3
<1>7. CASE \E stale \in SUBSET Retrying : RecoverStaleRetrying(stale)
  BY <1>2, <1>7, SweptRows
<1>8. CASE \E g \in Fax : ClaimRetry(g) BY <1>2, <1>8, ClaimedRow
<1>9. CASE WebRecord \/ \E id \in TelnyxId, kind \in Kinds : WebLoad(id, kind)
  BY <1>2, <1>9, LoadedEvent, RecordedEvent
<1>10. CASE WebCommit
  <2>1. CASE f # web.fax BY <1>2, <1>10, <2>1, CommittedRow
  <2>2. CASE f = web.fax
    <3>1. /\ web.pc = "commit" /\ web.kind \in Kinds
          /\ outbound'[f].status \in {outbound[f].status, NewStatus(web.row, web.kind)}
          /\ outbound'[f].next_retry_at =
                NewRetryAt(outbound[f].next_retry_at, web.row, web.kind, web.latest)
      BY <1>10, <2>2, CommittedRow
    <3>2. NewStatus(web.row, web.kind) # "retry_scheduled"
      <4> SUFFICES ASSUME NewStatus(web.row, web.kind) = "retry_scheduled" PROVE FALSE OBVIOUS
      <4>1. web.kind = "busy" /\ FailureStatus(web.row, web.kind) = "retry_scheduled"
        BY <3>1 DEF NewStatus, FailureStatus, StatusMap, Kinds, Permanent
      <4>2. outbound'[f].next_retry_at = "later" BY <3>1, <4>1 DEF NewRetryAt
      <4> QED BY <4>2
    <3>3. outbound[f].status = "retry_scheduled" BY <3>1, <3>2
    <3>4. CASE web.latest
      BY <1>2, <3>1, <3>3, <3>4 DEF NewRetryAt
    <3>5. CASE ~web.latest
      <4>1. web.id \in LoggedFor(f) /\ "delivered" \in calls[web.id].reports
        BY <1>0, <2>2, <3>1, <3>5 DEF EventInHand, Reported
      <4>2. Told(f, "delivered") BY <4>1 DEF Told
      <4> QED BY <1>1, <4>2
    <3> QED BY <3>4, <3>5
  <2> QED BY <2>1, <2>2
<1> QED BY Steps, <1>3, <1>4, <1>5, <1>6, <1>7, <1>8, <1>9, <1>10

(***************************************************************************)
(* Verdicts.                                                               *)
(***************************************************************************)

LEMMA StepCalls == ASSUME IInv, RetryInv, [Next]_vars PROVE CallsReport'
<1>0. TypeOK /\ CallsReport BY DEF IInv, RetryInv
<1>1. CASE \E f \in Fax, id \in TelnyxId : Accept(f, id)
  <2>1. PICK f \in Fax, id \in TelnyxId : Accept(f, id) BY <1>1
  <2>2. PICK h \in Histories : calls' = [calls EXCEPT ![id] = [fax |-> f, reports |-> h]]
    BY <2>1 DEF Accept
  <2> QED BY <1>0, <2>2 DEF TypeOK, CallsReport
<1>2. CASE UNCHANGED calls BY <1>0, <1>2 DEF CallsReport
<1>3. CASE Dial \/ DialLost \/ Redial \/ RedialLost
  <2>1. worker.fax \in Fax
    BY <1>3 DEF IInv, WorkerInHand, FirstPhase, RetryPhase, Dial, DialLost, Redial, RedialLost
  <2> QED BY <1>1, <1>3, <2>1 DEF Dial, DialLost, Redial, RedialLost
<1>4. UNCHANGED calls \/ Dial \/ DialLost \/ Redial \/ RedialLost
  <2> USE DEF tables, telnyx
  <2>1. CASE WorkerStep
    BY <2>1 DEF WorkerStep, RequeueStale, Claim, ClaimRetry, SkipRetry, NonePending,
       FileUnanswered, ReplyFails, FindPriorSend, CommitIntent, DialFails, RecordSend, Finish,
       RecoverStaleRetrying, EndRetries, RedialFails, RecordRetry, RecordRefusal
  <2>2. CASE WebStep BY <2>2 DEF WebStep, WebLoad, WebCommit, WebRecord
  <2>3. CASE \E f \in Fax : Arrive(f) \/ BackoffElapses(f) BY <2>3 DEF Arrive, BackoffElapses
  <2>4. CASE WorkerError \/ WebError \/ NewDay \/ Crash \/ UNCHANGED vars
    BY <2>4 DEF WorkerError, WebError, NewDay, Crash, vars
  <2> QED BY <2>1, <2>2, <2>3, <2>4 DEF Next
<1> QED BY <1>2, <1>3, <1>4

\* What was recorded up to an event stays so.
LEMMA UpToKept ==
    ASSUME IInv, [Next]_vars, NEW id \in TelnyxId, NEW kind \in Kinds,
           calls[id].fax \in Fax, UpTo(id, kind)
    PROVE  UpTo(id, kind)'
BY Persist DEF UpTo

LEMMA StepOrder == ASSUME IInv, RetryInv, [Next]_vars PROVE InOrderEvents'
<1>0. TypeOK /\ WebInHand /\ EventInHand /\ InOrderEvents BY DEF IInv, RetryInv
<1> SUFFICES ASSUME ~Reordering, web'.pc # "idle"
             PROVE  UpTo(web.id, web.kind)'
    BY DEF InOrderEvents
<1>1. ASSUME web.pc # "idle", web'.id = web.id, web'.kind = web.kind
      PROVE  UpTo(web.id, web.kind)'
  <2>1. web.id \in TelnyxId /\ web.kind \in Kinds BY <1>0, <1>1 DEF WebInHand, TypeOK, WebState
  <2>2. PICK id \in TelnyxId, kind \in Kinds : id = web.id /\ kind = web.kind BY <2>1
  <2>3. calls[id].fax \in Fax /\ UpTo(id, kind)
    BY <1>0, <1>1, <2>2 DEF EventInHand, Reported, InOrderEvents
  <2>4. UpTo(id, kind)' BY <2>3, UpToKept
  <2> QED BY <1>1, <2>2, <2>4 DEF UpTo
<1>2. CASE \E id \in TelnyxId, kind \in Kinds : WebLoad(id, kind)
  <2>1. PICK id \in TelnyxId, kind \in Kinds : WebLoad(id, kind) BY <1>2
  <2>2. /\ web'.id = id /\ web'.kind = kind /\ calls[id].fax \in Fax /\ UpTo(id, kind)
    BY <2>1, LoadedEvent
  <2>3. UpTo(id, kind)' BY <2>2, UpToKept
  <2> QED BY <2>2, <2>3 DEF UpTo
<1>3. CASE WebCommit BY <1>1, <1>3, CommittedRow
<1>4. CASE WebRecord BY <1>4, RecordedEvent
<1>5. CASE UNCHANGED web BY <1>1, <1>5
<1>6. CASE web' = WebIdle BY <1>6 DEF WebIdle
<1> QED BY Steps, <1>2, <1>3, <1>4, <1>5, <1>6, SendRow, RetryRow, RefusedRow, SweptRows, ClaimedRow
        DEF Quiet, Redialled

LEMMA Verdict ==
    ASSUME RetryInv, OneVerdict, NEW id \in TelnyxId, "delivered" \in calls[id].reports
    PROVE  "busy" \notin calls[id].reports /\ "voice" \notin calls[id].reports
<1>1. calls[id].reports \in Histories BY DEF RetryInv, CallsReport
<1> QED BY <1>1 DEF OneVerdict

\* Where nothing was handled twice, a row with a retry in hand is not delivered.
LEMMA NoRetryOfDelivered ==
    ASSUME IInv, RetryInv, ~Reordering, OneVerdict, NEW f \in Fax, Clean(f), InRetry(f)
    PROVE  /\ outbound[f].fax_id \in TelnyxId
           /\ "busy" \in calls[outbound[f].fax_id].reports
           /\ outbound[f].status # "delivered"
<1>1. faults = 0 BY DEF Clean, RetryInv, RetryOfFailure, Awaiting
<1>2. outbound[f].fax_id \in TelnyxId
  <2>1. outbound[f].fax_id # NoId BY DEF IInv, WorkerInHand, InRetry
  <2> QED BY <2>1 DEF IInv, TypeOK, OutboundRow
<1>3. Heard(outbound[f].fax_id, "busy") BY <1>1 DEF RetryInv, FailureOnce, Awaiting
<1>4. Reported(outbound[f].fax_id, "busy") BY <1>3 DEF RetryInv, EventInHand, Heard
<1>5. "busy" \in calls[outbound[f].fax_id].reports BY <1>4 DEF Reported
<1>6. outbound[f].status = "delivered" => "delivered" \in calls[outbound[f].fax_id].reports
  BY DEF RetryInv, DeliveredByNewest
<1> QED BY <1>2, <1>5, <1>6, Verdict

LEMMA StepDelivered ==
    ASSUME IInv, RetryInv, [Next]_vars, ~Reordering, OneVerdict, NEW f \in Fax, Clean(f)'
    PROVE  /\ outbound'[f].status = "delivered" =>
                 /\ "delivered" \in calls'[outbound'[f].fax_id].reports
                 /\ UpTo(outbound[f].fax_id, "delivered")'
           /\ \A id \in LoggedFor(f)' :
                 id # outbound'[f].fax_id => "busy" \in calls'[id].reports
           /\ web'.pc = "commit" /\ web'.fax = f /\ outbound'[f].status = "delivered" =>
                 web'.id = outbound'[f].fax_id
<1> DEFINE Newest(id) == "delivered" \in calls[id].reports /\ UpTo(id, "delivered")
<1>0. /\ TypeOK /\ RowsSent /\ LoggedSent /\ WebInHand /\ EventInHand /\ InOrderEvents
      /\ "delivered" \in Kinds /\ Clean(f)
      /\ outbound[f].status = "delivered" => Newest(outbound[f].fax_id)
      /\ \A id \in LoggedFor(f) : id # outbound[f].fax_id => "busy" \in calls[id].reports
      /\ web.pc = "commit" /\ web.fax = f /\ outbound[f].status = "delivered" =>
            web.id = outbound[f].fax_id
  BY Persist DEF IInv, RetryInv, Kinds, DeliveredByNewest
\* A delivered row has an id, and what is known of that id persists.
<1>1. ASSUME NEW id \in TelnyxId, id = outbound'[f].fax_id, calls[id].fax \in Fax, Newest(id)
      PROVE  /\ "delivered" \in calls'[outbound'[f].fax_id].reports
             /\ UpTo(outbound[f].fax_id, "delivered")'
  <2>1. UpTo(id, "delivered")' /\ "delivered" \in calls'[id].reports
    BY <1>0, <1>1, UpToKept, Persist
  <2> QED BY <1>1, <2>1 DEF UpTo
<1>2. ASSUME outbound[f].status = "delivered"
      PROVE  outbound[f].fax_id \in TelnyxId /\ calls[outbound[f].fax_id].fax \in Fax
  <2>1. outbound[f].fax_id # NoId /\ outbound[f] \in OutboundRow
    BY <1>0, <1>2 DEF RowsSent, TypeOK
  <2> QED BY <1>0, <2>1 DEF RowsSent, OutboundRow
\* The steps that change neither the log nor the id of the row.
<1>3. ASSUME LoggedFor(f)' = LoggedFor(f), outbound'[f].fax_id = outbound[f].fax_id
      PROVE  \A id \in LoggedFor(f)' :
                 id # outbound'[f].fax_id => "busy" \in calls'[id].reports
  <2>1. \A id \in LoggedFor(f) : calls'[id] = calls[id] BY Persist DEF LoggedFor
  <2> QED BY <1>0, <1>3, <2>1
<1>4. ASSUME outbound'[f].fax_id = outbound[f].fax_id,
             outbound'[f].status = "delivered" => outbound[f].status = "delivered"
      PROVE  outbound'[f].status = "delivered" =>
                 /\ "delivered" \in calls'[outbound'[f].fax_id].reports
                 /\ UpTo(outbound[f].fax_id, "delivered")'
  BY <1>0, <1>1, <1>2, <1>4
<1>5. ASSUME outbound'[f].fax_id = outbound[f].fax_id, UNCHANGED outbound_attempts,
             outbound'[f].status = "delivered" => outbound[f].status = "delivered",
             web' = web \/ web'.pc # "commit"
      PROVE  /\ outbound'[f].status = "delivered" =>
                   /\ "delivered" \in calls'[outbound'[f].fax_id].reports
                   /\ UpTo(outbound[f].fax_id, "delivered")'
             /\ \A id \in LoggedFor(f)' :
                   id # outbound'[f].fax_id => "busy" \in calls'[id].reports
             /\ web'.pc = "commit" /\ web'.fax = f /\ outbound'[f].status = "delivered" =>
                   web'.id = outbound'[f].fax_id
  <2>1. LoggedFor(f)' = LoggedFor(f) BY <1>5, LogSame
  <2> QED BY <1>0, <1>3, <1>4, <1>5, <2>1
<1>6. CASE Quiet BY <1>5, <1>6 DEF Quiet, WebIdle
<1>7. CASE Redialled BY <1>5, <1>7 DEF Redialled
<1>8. CASE RecordSend
  <2>1. CASE f # worker.fax
    <3>1. LoggedFor(f)' = LoggedFor(f) BY <1>8, <2>1, LogOne
    <3> QED BY <1>0, <1>3, <1>4, <1>8, <2>1, <3>1, SendRow
  <2>2. CASE f = worker.fax
    <3>1. /\ outbound[f].fax_id = NoId /\ outbound'[f].fax_id = worker.id
          /\ outbound'[f].status = "queued"
      BY <1>8, <2>2, SendRow
    <3>2. LoggedFor(f)' = LoggedFor(f) \cup {worker.id} BY <1>8, <2>2, LogOne
    <3>3. LoggedFor(f) = {} BY <1>0, <3>1 DEF LoggedFor, LoggedSent
    <3> QED BY <3>1, <3>2, <3>3
  <2> QED BY <2>1, <2>2
<1>9. CASE RecordRetry
  <2>1. CASE f # worker.fax
    <3>1. LoggedFor(f)' = LoggedFor(f) BY <1>9, <2>1, LogOne
    <3> QED BY <1>0, <1>3, <1>4, <1>9, <2>1, <3>1, RetryRow
  <2>2. CASE f = worker.fax
    <3>1. /\ InRetry(f) /\ outbound'[f].fax_id = worker.id
          /\ outbound'[f].status \in {"queued", outbound[f].status}
      BY <1>9, <2>2, RetryRow
    <3>2. /\ outbound[f].status # "delivered"
          /\ "busy" \in calls[outbound[f].fax_id].reports
      BY <1>0, <3>1, NoRetryOfDelivered
    <3>3. LoggedFor(f)' = LoggedFor(f) \cup {worker.id} BY <1>9, <2>2, LogOne
    <3>4. \A id \in LoggedFor(f) : "busy" \in calls[id].reports BY <1>0, <3>2
    <3>5. UNCHANGED calls BY <1>9, RetryRow
    <3> QED BY <3>1, <3>2, <3>3, <3>4, <3>5
  <2> QED BY <2>1, <2>2
<1>10. CASE RecordRefusal
  <2>1. CASE f # worker.fax BY <1>5, <1>10, <2>1, RefusedRow
  <2>2. CASE f = worker.fax
    <3>1. outbound'[f].status = "delivered" => outbound[f].status = "delivered"
      BY <1>10, <2>2, RefusedRow
    <3> QED BY <1>5, <1>10, <2>2, <3>1, RefusedRow
  <2> QED BY <2>1, <2>2
<1>11. CASE \E stale \in SUBSET Retrying : RecoverStaleRetrying(stale)
  BY <1>5, <1>11, SweptRows
<1>12. CASE \E g \in Fax : ClaimRetry(g)
  <2>1. PICK g \in Fax : ClaimRetry(g) BY <1>12
  <2>2. /\ UNCHANGED <<web, outbound_attempts>>
        /\ outbound'[f].fax_id = outbound[f].fax_id
        /\ outbound'[f].status = "delivered" => outbound[f].status = "delivered"
    <3>1. CASE f = g BY <2>1, <3>1, ClaimedRow
    <3>2. CASE f # g BY <2>1, <3>2, ClaimedRow
    <3> QED BY <3>1, <3>2
  <2> QED BY <1>5, <2>2
<1>13. CASE \E id \in TelnyxId, kind \in Kinds : WebLoad(id, kind)
  <2>1. PICK id \in TelnyxId, kind \in Kinds : WebLoad(id, kind) BY <1>13
  <2>2. UNCHANGED <<outbound, outbound_attempts>> BY <2>1, LoadedEvent
  <2>3. LoggedFor(f)' = LoggedFor(f) BY <2>2, LogSame
  <2>4. ASSUME web'.pc = "commit", web'.fax = f
        PROVE  web'.id = outbound'[f].fax_id
    <3>1. /\ web'.id = id /\ kind \in calls[id].reports /\ id \in LoggedFor(f)
          /\ id = outbound[f].fax_id \/ kind = "delivered"
      BY <2>1, <2>4, LoadedEvent DEF LoggedFor
    <3>2. id # outbound[f].fax_id => "busy" \in calls[id].reports BY <1>0, <3>1
    <3>3. id = outbound[f].fax_id BY <3>1, <3>2, Verdict
    <3> QED BY <2>2, <3>1, <3>3
  <2> QED BY <1>3, <1>4, <2>2, <2>3, <2>4
<1>14. CASE WebCommit
  <2>1. /\ UNCHANGED <<outbound_attempts, calls>> /\ web'.pc # "commit"
        /\ outbound'[f].fax_id = outbound[f].fax_id
    <3>1. CASE f = web.fax BY <1>14, <3>1, CommittedRow
    <3>2. CASE f # web.fax BY <1>14, <3>2, CommittedRow
    <3> QED BY <1>14, <3>1, <3>2, CommittedRow
  <2>2. LoggedFor(f)' = LoggedFor(f) BY <2>1, LogSame
  <2>3. CASE outbound'[f].status = "delivered" => outbound[f].status = "delivered"
    BY <1>5, <2>1, <2>3
  <2>4. CASE outbound'[f].status = "delivered" /\ outbound[f].status # "delivered"
    <3>1. f = web.fax BY <1>14, <2>4, CommittedRow
    <3>2. /\ web.pc = "commit" /\ web.kind \in Kinds /\ web.id \in TelnyxId
          /\ NewStatus(web.row, web.kind) = "delivered"
      BY <1>14, <2>4, <3>1, CommittedRow
    <3>3. web.kind = "delivered"
      BY <3>2 DEF NewStatus, FailureStatus, StatusMap, Kinds
    <3>4. /\ web.id \in LoggedFor(f) /\ "delivered" \in calls[web.id].reports
          /\ calls[web.id].fax \in Fax /\ UpTo(web.id, "delivered")
      BY <1>0, <3>1, <3>2, <3>3 DEF EventInHand, Reported, InOrderEvents
    <3>5. web.id = outbound[f].fax_id BY <1>0, <3>2, <3>4, Verdict
    <3> QED BY <1>1, <1>3, <2>1, <2>2, <3>2, <3>4, <3>5
  <2> QED BY <2>3, <2>4
<1>15. CASE WebRecord BY <1>5, <1>15, RecordedEvent
<1> QED BY Steps, <1>6, <1>7, <1>8, <1>9, <1>10, <1>11, <1>12, <1>13, <1>14, <1>15

(***************************************************************************)
(* The theorems.                                                           *)
(***************************************************************************)

LEMMA InitRetryInv == Init => RetryInv
<1> SUFFICES ASSUME Init PROVE RetryInv OBVIOUS
<1> USE DEF Init
<1>1. LogPaid
  <2>1. \A f \in Fax : LoggedFor(f) = {} BY DEF LoggedFor
  <2>2. \A f \in Fax : Cardinality(LoggedFor(f)) = 0 BY <2>1, FS_EmptySet
  <2>3. \A f \in Fax : outbound[f].attempts = 0 /\ ~InRetry(f)
    BY DEF InRetry, RetryPhase, At, NoRow
  <2>4. IsFiniteSet(outbound_attempts) BY FS_EmptySet
  <2> QED BY <2>2, <2>3, <2>4 DEF LogPaid
<1>2. EventInHand BY DEF EventInHand, WebIdle
<1>3. \A f \in Fax : ~Awaiting(f) BY DEF Awaiting, InRetry, RetryPhase, At, NoRow
<1>4. ~Loaded BY DEF Loaded, At
<1>5. RetryOfFailure BY <1>3 DEF RetryOfFailure
<1>6. FailureOnce BY <1>3, <1>4 DEF FailureOnce, WebIdle
<1>7. QueuedInRetry /\ GivenUpInRetry
  BY <1>3, <1>4 DEF QueuedInRetry, GivenUpInRetry, Awaiting
<1>8. ScheduledHasDate BY DEF ScheduledHasDate, NoRow
<1>9. CallsReport BY DEF CallsReport, NoCall
<1>10. InOrderEvents BY DEF InOrderEvents, WebIdle
<1>11. DeliveredByNewest
  <2>1. \A f \in Fax : LoggedFor(f) = {} /\ outbound[f].status # "delivered"
    BY DEF LoggedFor, NoRow
  <2> QED BY <2>1 DEF DeliveredByNewest
<1> QED BY <1>1, <1>2, <1>5, <1>6, <1>7, <1>8, <1>9, <1>10, <1>11 DEF RetryInv

\* What the rows remember is inductive together with what is sent.
LEMMA StepRetryInv == IInv /\ RetryInv /\ [Next]_vars => RetryInv'
<1> SUFFICES ASSUME IInv, RetryInv, [Next]_vars PROVE RetryInv' OBVIOUS
<1>1. DeliveredByNewest' BY StepDelivered DEF DeliveredByNewest
<1> QED BY <1>1, StepLogPaid, StepEvents, StepRetryOfFailure, StepFailureOnce, StepQueued,
           StepGivenUp, StepDates, StepCalls, StepOrder DEF RetryInv

\* RetryInv holds in every state of every run.
THEOREM RetryInductive == Spec => []RetryInv
BY InitIInv, StepIInv, InitRetryInv, StepRetryInv, PTL DEF Spec

\* Every id a row ever carried is logged for it, and it never claims fewer
\* sends than the log has: a late webhook finds its fax
\* (_update_outbound_status, process_retries).
THEOREM LogComplete == Spec => []AttemptsTrail
<1>1. IInv /\ RetryInv => AttemptsTrail
  BY DEF IInv, RetryInv, RowsSent, LogPaid, AttemptsTrail, LoggedFor
<1> QED BY <1>1, Inductive, RetryInductive, PTL

\* A scheduled retry has a date, unless a recorded letter of the row arrived or
\* a failure was handled twice: whatever the order of webhooks, sweeps, claims
\* and commits, and for any number of backoffs.
THEOREM RetriesDated == Spec => []ScheduledHasDate
<1>1. RetryInv => ScheduledHasDate BY DEF RetryInv
<1> QED BY <1>1, RetryInductive, PTL

\* A fax is dialled again only by a retry once a send was recorded for it,
\* however often it is reprocessed (delivery.send_reply).
THEOREM SentOnce == Spec => FirstSendOnce
<1>1. ASSUME IInv, [Next]_vars, NEW f \in Fax, letters'[f] > letters[f],
             outbound[f].fax_id # NoId
      PROVE  worker.pc = "redial"
  <2>0. TypeOK /\ WorkerInHand /\ RowsSent /\ letters[f] \in Nat BY <1>1 DEF IInv, TypeOK
  <2> USE DEF tables, telnyx
  <2>1. CASE UNCHANGED letters BY <1>1, <2>0, <2>1
  <2>2. CASE Dial \/ DialLost
    <3>1. /\ worker.pc = "dial" /\ worker.fax \in Fax
          /\ outbound[worker.fax].status = "pending_send"
      BY <2>0, <2>2 DEF Dial, DialLost, WorkerInHand, FirstPhase
    <3>2. f # worker.fax BY <1>1, <2>0, <3>1 DEF RowsSent
    <3>3. PICK id \in TelnyxId : Accept(worker.fax, id) BY <2>2 DEF Dial, DialLost
    <3>4. letters'[f] = letters[f] BY <2>0, <3>1, <3>2, <3>3, AcceptEffect
    <3> QED BY <1>1, <2>0, <3>4
  <2>3. CASE Redial \/ RedialLost BY <2>3 DEF Redial, RedialLost
  <2>4. UNCHANGED letters \/ Dial \/ DialLost \/ Redial \/ RedialLost
    <3>1. CASE WorkerStep
      BY <3>1 DEF WorkerStep, RequeueStale, Claim, ClaimRetry, SkipRetry, NonePending,
         FileUnanswered, ReplyFails, FindPriorSend, CommitIntent, DialFails, RecordSend, Finish,
         RecoverStaleRetrying, EndRetries, RedialFails, RecordRetry, RecordRefusal
    <3>2. CASE WebStep BY <3>2 DEF WebStep, WebLoad, WebCommit, WebRecord
    <3>3. CASE \E g \in Fax : Arrive(g) \/ BackoffElapses(g) BY <3>3 DEF Arrive, BackoffElapses
    <3>4. CASE WorkerError \/ WebError \/ NewDay \/ Crash \/ UNCHANGED vars
      BY <3>4 DEF WorkerError, WebError, NewDay, Crash, vars
    <3> QED BY <1>1, <3>1, <3>2, <3>3, <3>4 DEF Next
  <2> QED BY <2>1, <2>2, <2>3, <2>4
<1>2. IInv /\ [Next]_vars =>
          [\A f \in Fax : letters'[f] > letters[f] /\ outbound[f].fax_id # NoId =>
               worker.pc = "redial"]_vars
  BY <1>1
<1> QED BY <1>2, Inductive, PTL DEF Spec, FirstSendOnce

\* With events in order and one verdict to a call, a delivered row stays so,
\* whatever crashes, sweeps, lost answers and repeated events there are: only
\* after a fault can the failure of an earlier letter be handled twice.
THEOREM DeliveredForGood ==
    ASSUME ~Reordering, OneVerdict
    PROVE  Spec => DeliveredIsFinal
<1>1. ASSUME IInv, RetryInv, [Next]_vars, NEW f \in Fax, outbound[f].status = "delivered",
             ~(faults > 0 /\ Told(f, "busy"))
      PROVE  outbound'[f].status = "delivered"
  <2>0. /\ TypeOK /\ RowsSent /\ EventInHand /\ DeliveredByNewest /\ faults \in Nat /\ Clean(f)
    BY <1>1 DEF IInv, RetryInv, TypeOK, Clean
  <2>1. CASE Quiet \/ Redialled BY <1>1, <2>1 DEF Quiet, Redialled
  <2>2. CASE RecordSend
    <3>1. f = worker.fax => outbound[f].fax_id = NoId BY <1>1, <2>2, SendRow
    <3>2. f # worker.fax BY <1>1, <2>0, <3>1 DEF RowsSent
    <3> QED BY <1>1, <2>2, <3>2, SendRow
  <2>3. CASE RecordRetry \/ RecordRefusal
    <3>1. f = worker.fax => InRetry(f) BY <1>1, <2>3, RetryRow, RefusedRow
    <3>2. f # worker.fax BY <1>1, <2>0, <3>1, NoRetryOfDelivered
    <3> QED BY <1>1, <2>3, <3>2, RetryRow, RefusedRow
  <2>4. CASE \E stale \in SUBSET Retrying : RecoverStaleRetrying(stale)
    BY <1>1, <2>4, SweptRows
  <2>5. CASE \E g \in Fax : ClaimRetry(g) BY <1>1, <2>5, ClaimedRow
  <2>6. CASE WebRecord \/ \E id \in TelnyxId, kind \in Kinds : WebLoad(id, kind)
    BY <1>1, <2>6, LoadedEvent, RecordedEvent
  <2>7. CASE WebCommit
    <3>1. CASE f # web.fax BY <1>1, <2>7, <3>1, CommittedRow
    <3>2. CASE f = web.fax
      <4>1. /\ web.pc = "commit" /\ web.kind \in Kinds /\ web.id \in TelnyxId
            /\ outbound'[f].status \in {outbound[f].status, NewStatus(web.row, web.kind)}
        BY <1>1, <2>7, <3>2, CommittedRow
      <4>2. /\ web.id = outbound[f].fax_id /\ "delivered" \in calls[web.id].reports
            /\ UpTo(web.id, "delivered")
        BY <1>1, <2>0, <3>2, <4>1 DEF DeliveredByNewest
      <4>3. web.kind \in calls[web.id].reports /\ <<web.id, web.kind>> \notin webhook_events
        BY <2>0, <4>1 DEF EventInHand, Reported
      <4>4. web.kind \notin {"queued", "sending"}
        BY <4>2, <4>3 DEF UpTo, Rank
      <4>5. web.kind \notin {"busy", "voice"} BY <1>1, <4>1, <4>2, <4>3, Verdict
      <4>6. web.kind = "delivered" BY <4>1, <4>4, <4>5 DEF Kinds
      <4>7. NewStatus(web.row, web.kind) = "delivered" BY <4>6 DEF NewStatus, StatusMap
      <4> QED BY <1>1, <4>1, <4>7
    <3> QED BY <3>1, <3>2
  <2> QED BY <1>1, Steps, <2>1, <2>2, <2>3, <2>4, <2>5, <2>6, <2>7
<1>2. IInv /\ RetryInv /\ [Next]_vars =>
          [\A f \in Fax : outbound[f].status = "delivered" =>
               \/ outbound'[f].status = "delivered"
               \/ faults > 0 /\ Told(f, "busy")]_vars
  BY <1>1
<1> QED BY <1>2, Inductive, RetryInductive, PTL DEF Spec, DeliveredIsFinal

=============================================================================
