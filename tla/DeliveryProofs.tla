--------------------------- MODULE DeliveryProofs ---------------------------
(***************************************************************************)
(* Theorems about Delivery for every value of its constants.               *)
(***************************************************************************)
EXTENDS DeliveryInv, TLAPS

(***************************************************************************)
(* Types of the operators on rows and process states.                      *)
(***************************************************************************)

\* What the worker writes into an outbound row is a row again.
LEMMA WorkerRows ==
    ASSUME NEW r \in OutboundRow, NEW l \in OutboundRow, NEW id \in TelnyxId
    PROVE  /\ Sent(r, id) \in OutboundRow
           /\ Claimed(r) \in OutboundRow
           /\ Unsent(r, "due") \in OutboundRow
           /\ Retried(r, l, id) \in OutboundRow
           /\ Refused(r, l) \in OutboundRow
<1> USE DEF OutboundRow, OutboundStatus, RetryAt
<1>0. r.attempts + 1 \in Nat OBVIOUS
<1>1. Sent(r, id) \in OutboundRow BY <1>0 DEF Sent
<1>2. Claimed(r) \in OutboundRow BY <1>0 DEF Claimed
<1>3. Unsent(r, "due") \in OutboundRow
  <2>1. CASE Exhausted(r) BY <2>1 DEF Unsent
  <2>2. CASE ~Exhausted(r) BY <2>2 DEF Unsent
  <2> QED BY <2>1, <2>2
<1>4. Retried(r, l, id) \in OutboundRow
  <2>1. OrmWrite(r.status, l.status, "queued") \in OutboundStatus BY DEF OrmWrite
  <2>2. OrmWrite(r.next_retry_at, l.next_retry_at, "null") \in RetryAt BY DEF OrmWrite
  <2> QED BY <2>1, <2>2 DEF Retried
<1>5. Refused(r, l) \in OutboundRow
  <2>1. Unsent(l, "later").status \in {"failed_permanent", "retry_scheduled"} BY DEF Unsent
  <2> QED BY <2>1 DEF Refused, OrmWrite
<1> QED BY <1>1, <1>2, <1>3, <1>4, <1>5

\* So is what the web process writes.
LEMMA WebRows ==
    ASSUME NEW r \in OutboundRow, NEW l \in OutboundRow, NEW kind \in Kinds,
           NEW latest \in BOOLEAN
    PROVE  Updated(r, l, kind, latest) \in OutboundRow
<1> USE DEF OutboundRow, OutboundStatus, RetryAt
<1>1. NewStatus(l, kind) \in OutboundStatus
  BY DEF NewStatus, FailureStatus, StatusMap, Kinds
<1>2. NewRetryAt(r.next_retry_at, l, kind, latest) \in RetryAt
  BY DEF NewRetryAt, OrmWrite
<1> QED BY <1>1, <1>2 DEF Updated, OrmWrite

\* The rows a table starts with.
LEMMA FirstRows == NoRow \in OutboundRow /\ PendingSend \in OutboundRow
BY DEF NoRow, PendingSend, OutboundRow, OutboundStatus, RetryAt

\* The sweep of process_pending keeps the type of an inbound row.
LEMMA InboundRows ==
    ASSUME NEW r \in InboundRow
    PROVE  Requeued(r) \in InboundRow
BY DEF Requeued, InboundRow, InboundStatus

\* The web process loads an event, or drops it and is idle again.
LEMMA WebStates ==
    ASSUME NEW id \in TelnyxId, NEW kind \in Kinds, NEW f \in Fax,
           NEW latest \in BOOLEAN, NEW row \in OutboundRow, NEW line \in ThreadStatus
    PROVE  LET loaded == [WebIdle EXCEPT !.id = id, !.kind = kind]
           IN  /\ WebIdle \in WebState
               /\ [loaded EXCEPT !.pc = "record"] \in WebState
               /\ [WebIdle EXCEPT !.pc = "record", !.id = id, !.kind = kind] \in WebState
               /\ [loaded EXCEPT !.pc = "commit", !.fax = f, !.latest = latest,
                                 !.row = row, !.line = line] \in WebState
BY FirstRows DEF WebIdle, WebState, Kinds, ThreadStatus

LEMMA IdleType == WebIdle \in WebState
BY FirstRows DEF WebIdle, WebState, Kinds, ThreadStatus

LEMMA AtType == \A pc \in PC : At(pc) \in WorkerState
BY FirstRows DEF WorkerState, At

\* The initial state has the declared types.
LEMMA InitType == Init => TypeOK
<1> SUFFICES ASSUME Init PROVE TypeOK OBVIOUS
<1>1. inbound \in [Fax -> InboundRow] BY DEF Init, InboundRow, InboundStatus
<1>2. outbound \in [Fax -> OutboundRow] BY FirstRows DEF Init
<1>3. worker \in WorkerState BY AtType DEF Init, PC
<1>4. web \in WebState BY IdleType DEF Init
<1>5. thread \in [Thread -> ThreadStatus] BY DEF Init, ThreadStatus
<1>6. calls \in [TelnyxId -> [fax : Fax \cup {NoFax}, reports : SUBSET Kinds]]
  BY DEF Init, NoCall
<1>7. letters \in [Fax -> Nat] /\ today \in Nat BY DEF Init
<1> QED BY <1>1, <1>2, <1>3, <1>4, <1>5, <1>6, <1>7 DEF Init, TypeOK

\* A letter accepted keeps the types of what Telnyx holds.
LEMMA AcceptType ==
    ASSUME TypeOK, NEW f \in Fax, NEW id \in TelnyxId, Accept(f, id)
    PROVE  /\ calls' \in [TelnyxId -> [fax : Fax \cup {NoFax}, reports : SUBSET Kinds]]
           /\ letters' \in [Fax -> Nat]
           /\ today' \in Nat
<1>1. PICK h \in Histories : calls' = [calls EXCEPT ![id] = [fax |-> f, reports |-> h]]
  BY DEF Accept
<1>2. h \in SUBSET Kinds BY HistoryAssumption
<1>3. calls' \in [TelnyxId -> [fax : Fax \cup {NoFax}, reports : SUBSET Kinds]]
  BY <1>1, <1>2 DEF TypeOK
<1>4. letters' \in [Fax -> Nat] BY DEF TypeOK, Accept
<1>5. today' \in Nat BY DEF TypeOK, Accept
<1> QED BY <1>3, <1>4, <1>5

\* An attempt logged keeps the types of outbound_attempts and of the count.
LEMMA LogType ==
    ASSUME TypeOK, NEW id \in TelnyxId, LogAttempt(id)
    PROVE  outbound_attempts' \subseteq TelnyxId /\ today' \in Nat
<1>1. today + 1 \in Nat BY DEF TypeOK
<1> QED BY <1>1 DEF TypeOK, LogAttempt

\* The worker's steps preserve the types.
LEMMA WorkerType == TypeOK /\ WorkerInHand /\ (WorkerStep \/ WorkerError) => TypeOK'
<1> SUFFICES ASSUME TypeOK, WorkerInHand, WorkerStep \/ WorkerError PROVE TypeOK'
    OBVIOUS
<1> USE DEF tables, telnyx
<1>0. worker \in WorkerState /\ (worker.pc \in FirstPhase \cup RetryPhase => worker.fax \in Fax)
  BY DEF TypeOK, WorkerInHand
<1>1. ASSUME NEW stale \in SUBSET Processing, RequeueStale(stale) PROVE TypeOK'
  <2>1. inbound' \in [Fax -> InboundRow]
    BY <1>1, InboundRows DEF RequeueStale, TypeOK
  <2>2. worker' \in WorkerState BY <1>1, <1>0 DEF RequeueStale, Goto, WorkerState, PC
  <2> QED BY <1>1, <2>1, <2>2 DEF TypeOK, RequeueStale
<1>2. ASSUME NEW f \in Fax, Claim(f) PROVE TypeOK'
  <2>1. inbound' \in [Fax -> InboundRow]
    <3>1. [status |-> "processing", attempts |-> inbound[f].attempts + 1] \in InboundRow
      BY DEF TypeOK, InboundRow, InboundStatus
    <3> QED BY <1>2, <3>1 DEF Claim, TypeOK
  <2>2. worker' \in WorkerState BY <1>2, <1>0, AtType DEF Claim, At, WorkerState, PC, NoRow
  <2> QED BY <1>2, <2>1, <2>2 DEF TypeOK, Claim
<1>3. ASSUME NEW f \in Fax, ClaimRetry(f) PROVE TypeOK'
  <2>1. Claimed(outbound[f]) \in OutboundRow
    <3>1. outbound[f] \in OutboundRow BY DEF TypeOK
    <3>2. outbound[f].attempts + 1 \in Nat BY <3>1 DEF OutboundRow
    <3> QED BY <3>1, <3>2 DEF Claimed, OutboundRow, OutboundStatus
  <2>2. worker' \in WorkerState BY <1>3, AtType DEF ClaimRetry, WorkerState, PC
  <2> QED BY <1>3, <2>1, <2>2 DEF TypeOK, ClaimRetry
<1>4. ASSUME NEW f \in Fax, SkipRetry(f) PROVE TypeOK'
  BY <1>4 DEF SkipRetry, TypeOK
<1>5. CASE NonePending
  BY <1>5, <1>0 DEF NonePending, TypeOK, Goto, WorkerState, PC
<1>6. CASE FileUnanswered
  <2>1. worker.fax \in Fax BY <1>6, <1>0 DEF FileUnanswered, FirstPhase
  <2>2. inbound' \in [Fax -> InboundRow]
    BY <1>6, <2>1 DEF FileUnanswered, TypeOK, InboundRow, InboundStatus
  <2> QED BY <1>6, <2>2, AtType DEF FileUnanswered, TypeOK, PC
<1>7. CASE ReplyFails
  BY <1>7, AtType DEF ReplyFails, Spend, TypeOK, PC
<1>8. CASE FindPriorSend
  <2>0. PICK stop \in BOOLEAN :
           worker' = [worker EXCEPT !.pc = "finish", !.stop = stop]
    BY <1>8 DEF FindPriorSend
  <2>2. worker' \in WorkerState BY <2>0, <1>0 DEF WorkerState, PC
  <2>3. over_budget' \in BOOLEAN BY <1>8 DEF FindPriorSend, Spend
  <2> QED BY <1>8, <2>2, <2>3 DEF FindPriorSend, TypeOK
<1>9. CASE CommitIntent
  <2>1. worker.fax \in Fax BY <1>9, <1>0 DEF CommitIntent, FirstPhase
  <2>2. worker' = [worker EXCEPT !.pc = "dial"] BY <1>9 DEF CommitIntent, Goto
  <2>3. worker' \in WorkerState BY <2>2, <1>0 DEF WorkerState, PC
  <2>4. outbound' \in [Fax -> OutboundRow] BY <1>9, FirstRows DEF CommitIntent, TypeOK
  <2>5. thread' \in [Thread -> ThreadStatus] BY <1>9 DEF CommitIntent, TypeOK, ThreadStatus
  <2>6. over_budget' \in BOOLEAN BY <1>9 DEF CommitIntent, Spend
  <2> QED BY <1>9, <2>3, <2>4, <2>5, <2>6 DEF CommitIntent, TypeOK
<1>10. CASE Dial
  <2>1. worker.fax \in Fax BY <1>10, <1>0 DEF Dial, FirstPhase
  <2>2. PICK id \in TelnyxId : /\ Accept(worker.fax, id)
                               /\ worker' = [worker EXCEPT !.pc = "accepted", !.id = id]
    BY <1>10 DEF Dial
  <2>3. worker' \in WorkerState BY <2>2, <1>0 DEF WorkerState, PC
  <2> QED BY <1>10, <2>1, <2>2, <2>3, AcceptType DEF Dial, TypeOK
<1>11. CASE DialLost
  <2>1. worker.fax \in Fax BY <1>11, <1>0 DEF DialLost, FirstPhase
  <2>2. PICK id \in TelnyxId : Accept(worker.fax, id) BY <1>11 DEF DialLost
  <2> QED BY <1>11, <2>1, <2>2, AcceptType, AtType DEF DialLost, TypeOK, PC
<1>12. CASE DialFails BY <1>12, AtType DEF DialFails, TypeOK, PC
<1>13. CASE RecordSend
  <2>1. worker.fax \in Fax /\ worker.id \in TelnyxId
    BY <1>13 DEF RecordSend, FirstPhase, WorkerInHand
  <2>2. outbound' \in [Fax -> OutboundRow] BY <1>13, <2>1, WorkerRows DEF RecordSend, TypeOK
  <2>3. worker' \in WorkerState BY <1>13, <1>0 DEF RecordSend, WorkerState, PC
  <2> QED BY <1>13, <2>1, <2>2, <2>3, LogType DEF RecordSend, TypeOK
<1>14. CASE Finish
  <2>1. worker.fax \in Fax BY <1>14, <1>0 DEF Finish, FirstPhase
  <2>2. inbound' \in [Fax -> InboundRow]
    BY <1>14, <2>1 DEF Finish, TypeOK, InboundRow, InboundStatus
  <2>3. thread' \in [Thread -> ThreadStatus] BY <1>14 DEF Finish, TypeOK, ThreadStatus
  <2> QED BY <1>14, <2>2, <2>3, AtType DEF Finish, TypeOK, PC
<1>15. ASSUME NEW stale \in SUBSET Retrying, RecoverStaleRetrying(stale) PROVE TypeOK'
  <2>1. outbound' \in [Fax -> OutboundRow]
    <3>1. \A f \in Fax : Unsent(outbound[f], "due") \in OutboundRow
      <4> TAKE f \in Fax
      <4>1. outbound[f] \in OutboundRow BY DEF TypeOK
      <4>2. CASE Exhausted(outbound[f])
        BY <4>1, <4>2 DEF Unsent, OutboundRow, OutboundStatus, RetryAt
      <4>3. CASE ~Exhausted(outbound[f])
        BY <4>1, <4>3 DEF Unsent, OutboundRow, OutboundStatus, RetryAt
      <4> QED BY <4>2, <4>3
    <3> QED BY <1>15, <3>1 DEF RecoverStaleRetrying, TypeOK
  <2>2. due_ids' \subseteq Fax BY <1>15 DEF RecoverStaleRetrying
  <2> QED BY <1>15, <2>1, <2>2, AtType DEF RecoverStaleRetrying, TypeOK, PC
<1>16. CASE EndRetries BY <1>16, AtType DEF EndRetries, TypeOK, PC
<1>17. CASE Redial
  <2>1. worker.fax \in Fax BY <1>17, <1>0 DEF Redial, RetryPhase
  <2>2. PICK id \in TelnyxId :
           /\ Accept(worker.fax, id)
           /\ worker' = [worker EXCEPT !.pc = "reaccepted", !.id = id,
                                       !.row = outbound[worker.fax]]
    BY <1>17 DEF Redial
  <2>3. outbound[worker.fax] \in OutboundRow BY <2>1 DEF TypeOK
  <2>4. worker' \in WorkerState BY <2>2, <2>3, <1>0 DEF WorkerState, PC
  <2> QED BY <1>17, <2>1, <2>2, <2>4, AcceptType DEF Redial, TypeOK
<1>18. CASE RedialLost
  <2>1. worker.fax \in Fax BY <1>18, <1>0 DEF RedialLost, RetryPhase
  <2>2. PICK id \in TelnyxId : Accept(worker.fax, id) BY <1>18 DEF RedialLost
  <2>3. outbound[worker.fax] \in OutboundRow BY <2>1 DEF TypeOK
  <2>4. worker' \in WorkerState BY <1>18, <2>3, <1>0 DEF RedialLost, WorkerState, PC
  <2> QED BY <1>18, <2>1, <2>2, <2>4, AcceptType DEF RedialLost, TypeOK
<1>19. CASE RedialFails
  <2>1. worker.fax \in Fax BY <1>19, <1>0 DEF RedialFails, RetryPhase
  <2>2. outbound[worker.fax] \in OutboundRow BY <2>1 DEF TypeOK
  <2>3. worker' \in WorkerState BY <1>19, <2>2, <1>0 DEF RedialFails, WorkerState, PC
  <2> QED BY <1>19, <2>3 DEF RedialFails, TypeOK
<1>20. CASE RecordRetry
  <2>1. worker.fax \in Fax /\ worker.id \in TelnyxId /\ worker.row \in OutboundRow
    BY <1>20, <1>0 DEF RecordRetry, RetryPhase, WorkerInHand, WorkerState
  <2>2. outbound' \in [Fax -> OutboundRow] BY <1>20, <2>1, WorkerRows DEF RecordRetry, TypeOK
  <2> QED BY <1>20, <2>1, <2>2, LogType, AtType DEF RecordRetry, TypeOK, PC
<1>21. CASE RecordRefusal
  <2>1. worker.fax \in Fax /\ worker.row \in OutboundRow
    BY <1>21, <1>0 DEF RecordRefusal, RetryPhase, WorkerState
  <2>2. Refused(outbound[worker.fax], worker.row) \in OutboundRow
    <3>1. Unsent(worker.row, "later").status \in {"failed_permanent", "retry_scheduled"}
      BY <2>1 DEF Unsent, OutboundRow
    <3> QED BY <2>1, <3>1 DEF TypeOK, Refused, OrmWrite, OutboundRow, OutboundStatus, RetryAt
  <2> QED BY <1>21, <2>1, <2>2, AtType DEF RecordRefusal, TypeOK, PC
<1>22. CASE WorkerError
  <2>1. faults' \in Nat BY <1>22 DEF WorkerError, TypeOK
  <2>2. worker' \in WorkerState /\ due_ids' \subseteq Fax
    BY <1>22, AtType DEF WorkerError, TypeOK, PC
  <2> QED BY <1>22, <2>1, <2>2 DEF WorkerError, TypeOK
<1> QED
    BY <1>1, <1>2, <1>3, <1>4, <1>5, <1>6, <1>7, <1>8, <1>9, <1>10, <1>11, <1>12,
       <1>13, <1>14, <1>15, <1>16, <1>17, <1>18, <1>19, <1>20, <1>21, <1>22
    DEF WorkerStep

\* So do the steps of the web process.
LEMMA WebType == TypeOK /\ WebInHand /\ (WebStep \/ WebError) => TypeOK'
<1> SUFFICES ASSUME TypeOK, WebInHand, WebStep \/ WebError PROVE TypeOK'
    OBVIOUS
<1> USE DEF tables, telnyx
<1>1. ASSUME NEW id \in TelnyxId, NEW kind \in Kinds, WebLoad(id, kind) PROVE TypeOK'
  <2> DEFINE f == calls[id].fax
  <2>1. f \in Fax BY <1>1 DEF WebLoad, Deliverable, TypeOK
  <2>2. outbound[f] \in OutboundRow /\ thread[ThreadOf[f]] \in ThreadStatus
    BY <2>1, ThreadAssumption DEF TypeOK
  <2>3. (ById(id) # {}) \in BOOLEAN OBVIOUS
  <2>4. web' \in WebState
    <3> HIDE DEF f
    <3>1. CASE ById(id) # {} \/ Superseded(id, kind)
      <4>1. web' = [[WebIdle EXCEPT !.id = id, !.kind = kind] EXCEPT
                       !.pc = "commit", !.fax = f, !.latest = (ById(id) # {}),
                       !.row = outbound[f], !.line = thread[ThreadOf[f]]]
        BY <1>1, <3>1 DEF WebLoad, f
      <4> QED BY <4>1, <2>1, <2>2, <2>3, WebStates
    <3>2. CASE ~(ById(id) # {} \/ Superseded(id, kind))
      <4>1. web' = [[WebIdle EXCEPT !.id = id, !.kind = kind] EXCEPT !.pc = "record"]
        BY <1>1, <3>2 DEF WebLoad
      <4> QED BY <4>1, <2>1, <2>2, WebStates
    <3> QED BY <3>1, <3>2
  <2> QED BY <1>1, <2>4 DEF WebLoad, TypeOK
<1>2. CASE WebCommit
  <2>1. /\ web.fax \in Fax /\ web.row \in OutboundRow /\ web.kind \in Kinds
        /\ web.latest \in BOOLEAN /\ web.id \in TelnyxId \cup {NoId}
    BY <1>2 DEF WebCommit, WebInHand, TypeOK, WebState
  <2>2. outbound' \in [Fax -> OutboundRow]
    <3>1. Updated(outbound[web.fax], web.row, web.kind, web.latest) \in OutboundRow
      BY <2>1, WebRows DEF TypeOK
    <3> QED BY <1>2, <3>1 DEF WebCommit, TypeOK
  <2>3. thread' \in [Thread -> ThreadStatus] BY <1>2 DEF WebCommit, TypeOK, ThreadStatus
  <2>4. web' \in WebState BY <1>2, <2>1, IdleType DEF WebCommit, WebState, WebIdle
  <2> QED BY <1>2, <2>2, <2>3, <2>4 DEF WebCommit, TypeOK
<1>3. CASE WebRecord
  <2>1. <<web.id, web.kind>> \in TelnyxId \X Kinds
    BY <1>3 DEF WebRecord, TypeOK, WebState, WebInHand
  <2> QED BY <1>3, <2>1, IdleType DEF WebRecord, TypeOK
<1>4. CASE WebError
  BY <1>4, IdleType DEF WebError, TypeOK
<1> QED BY <1>1, <1>2, <1>3, <1>4 DEF WebStep

\* Type correctness is kept by every step.
LEMMA StepType == TypeOK /\ WorkerInHand /\ WebInHand /\ [Next]_vars => TypeOK'
<1> SUFFICES ASSUME TypeOK, WorkerInHand, WebInHand, [Next]_vars PROVE TypeOK'
    OBVIOUS
<1> USE DEF tables, telnyx
<1>1. CASE WorkerStep \/ WorkerError BY <1>1, WorkerType
<1>2. CASE WebStep \/ WebError BY <1>2, WebType
<1>3. ASSUME NEW f \in Fax, Arrive(f) PROVE TypeOK'
  BY <1>3 DEF Arrive, TypeOK, InboundRow, InboundStatus
<1>4. ASSUME NEW f \in Fax, BackoffElapses(f) PROVE TypeOK'
  BY <1>4 DEF BackoffElapses, TypeOK, OutboundRow, RetryAt
<1>5. CASE NewDay BY <1>5 DEF NewDay, TypeOK
<1>6. CASE Crash BY <1>6, IdleType, AtType DEF Crash, TypeOK, PC
<1>7. CASE UNCHANGED vars BY <1>7 DEF vars, TypeOK
<1> QED BY <1>1, <1>2, <1>3, <1>4, <1>5, <1>6, <1>7 DEF Next

(***************************************************************************)
(* The inductive invariant.                                                *)
(***************************************************************************)

LEMMA InitIInv == Init => IInv
<1> SUFFICES ASSUME Init PROVE IInv OBVIOUS
<1>1. TypeOK BY InitType
<1>2. WorkerInHand /\ WebInHand
  BY DEF Init, At, WebIdle, WorkerInHand, WebInHand, FirstPhase, RetryPhase
<1>3. RowsSent /\ LoggedSent BY DEF Init, NoRow, RowsSent, LoggedSent
<1>4. TriesLeft BY LimitAssumption DEF Init, TriesLeft
<1>5. LettersPaid BY DEF Init, At, NoRow, LettersPaid, Outstanding, RetriesUsed
<1>6. AttemptsSpent BY LimitAssumption DEF Init, NoRow, AttemptsSpent
<1>7. CapKept BY LimitAssumption DEF Init, At, CapKept
<1> QED BY <1>1, <1>2, <1>3, <1>4, <1>5, <1>6, <1>7 DEF IInv

Outside == WebStep \/ WebError \/ \E f \in Fax : Arrive(f) \/ BackoffElapses(f)

\* What happens outside the worker leaves its state, the log and Telnyx's
\* letters alone; of an outbound row it changes neither the id nor the attempt
\* count, and the status only if the row was sent.
LEMMA OutsideKeeps ==
    IInv /\ Outside =>
        /\ UNCHANGED <<worker, calls, letters, outbound_attempts, today, due_ids>>
        /\ \A f \in Fax :
              /\ outbound'[f].fax_id = outbound[f].fax_id
              /\ outbound'[f].attempts = outbound[f].attempts
              /\ outbound[f].fax_id = NoId => outbound'[f].status = outbound[f].status
              /\ outbound[f].fax_id # NoId => outbound'[f].status \notin {"none", "pending_send"}
              /\ inbound'[f].attempts = inbound[f].attempts
              /\ \/ inbound'[f].status = inbound[f].status
                 \/ inbound[f].status = "absent" /\ inbound'[f].status = "received"
<1> SUFFICES ASSUME IInv, Outside
             PROVE  /\ UNCHANGED <<worker, calls, letters, outbound_attempts, today, due_ids>>
                    /\ \A f \in Fax :
                          /\ outbound'[f].fax_id = outbound[f].fax_id
                          /\ outbound'[f].attempts = outbound[f].attempts
                          /\ outbound[f].fax_id = NoId => outbound'[f].status = outbound[f].status
                          /\ outbound[f].fax_id # NoId =>
                                outbound'[f].status \notin {"none", "pending_send"}
                          /\ inbound'[f].attempts = inbound[f].attempts
                          /\ \/ inbound'[f].status = inbound[f].status
                             \/ inbound[f].status = "absent" /\ inbound'[f].status = "received"
    OBVIOUS
<1> USE DEF tables, telnyx
<1>0. TypeOK /\ WebInHand /\ RowsSent BY DEF IInv
<1>1. ASSUME NEW id \in TelnyxId, NEW kind \in Kinds, WebLoad(id, kind)
      PROVE  UNCHANGED <<worker, calls, letters, outbound_attempts, today, due_ids, outbound, inbound>>
  BY <1>1 DEF WebLoad
<1>2. CASE WebCommit
  <2>1. /\ UNCHANGED <<worker, calls, letters, outbound_attempts, today, due_ids, inbound>>
        /\ outbound' = [outbound EXCEPT ![web.fax] =
                            Updated(@, web.row, web.kind, web.latest)]
    BY <1>2 DEF WebCommit
  <2>2. web.fax \in Fax /\ outbound[web.fax].fax_id # NoId /\ web.kind \in Kinds
    BY <1>0, <1>2 DEF WebCommit, WebInHand, TypeOK, WebState
  <2>3. outbound[web.fax] \in OutboundRow /\ outbound[web.fax].status \notin {"none", "pending_send"}
    BY <1>0, <2>2 DEF TypeOK, RowsSent
  <2>4. NewStatus(web.row, web.kind) \notin {"none", "pending_send"}
    BY <2>2 DEF NewStatus, FailureStatus, StatusMap, Kinds
  <2>5. LET new == Updated(outbound[web.fax], web.row, web.kind, web.latest)
        IN  /\ new.fax_id = outbound[web.fax].fax_id
            /\ new.attempts = outbound[web.fax].attempts
            /\ new.status \notin {"none", "pending_send"}
    BY <2>3, <2>4 DEF Updated, OrmWrite, OutboundRow
  <2>6. \A f \in Fax : outbound'[f] = IF f = web.fax
            THEN Updated(outbound[web.fax], web.row, web.kind, web.latest) ELSE outbound[f]
    BY <2>1, <2>2, <1>0 DEF TypeOK
  <2>7. \A f \in Fax : outbound[f].fax_id # NoId => outbound[f].status \notin {"none", "pending_send"}
    BY <1>0 DEF RowsSent
  <2> QED BY <2>1, <2>2, <2>5, <2>6, <2>7
<1>3. CASE WebRecord \/ WebError
  <2>1. UNCHANGED <<worker, calls, letters, outbound_attempts, today, due_ids, outbound, inbound>>
    BY <1>3 DEF WebRecord, WebError
  <2> QED BY <2>1, <1>0 DEF RowsSent
<1>4. ASSUME NEW f \in Fax, Arrive(f)
      PROVE  /\ UNCHANGED <<worker, calls, letters, outbound_attempts, today, due_ids, outbound>>
             /\ inbound' = [inbound EXCEPT ![f].status = "received"]
             /\ inbound[f].status = "absent"
  BY <1>4 DEF Arrive
<1>5. ASSUME NEW f \in Fax, BackoffElapses(f)
      PROVE  /\ UNCHANGED <<worker, calls, letters, outbound_attempts, today, due_ids, inbound>>
             /\ outbound' = [outbound EXCEPT ![f].next_retry_at = "due"]
  BY <1>5 DEF BackoffElapses
<1>6. CASE \E id \in TelnyxId, kind \in Kinds : WebLoad(id, kind)
  BY <1>6, <1>1, <1>0 DEF RowsSent
<1>7. CASE \E f \in Fax : Arrive(f)
  BY <1>7, <1>4, <1>0 DEF RowsSent, TypeOK, InboundRow
<1>8. CASE \E f \in Fax : BackoffElapses(f)
  BY <1>8, <1>5, <1>0 DEF RowsSent, TypeOK, OutboundRow
<1> QED BY <1>2, <1>3, <1>6, <1>7, <1>8 DEF Outside, WebStep

\* The breaker is asked before every claim, and each claim sends at most once.
LEMMA StepCap == IInv /\ [Next]_vars => CapKept'
<1> SUFFICES ASSUME IInv, [Next]_vars PROVE CapKept'
    OBVIOUS
<1> USE LimitAssumption DEF CapKept, tables, telnyx
<1>0. TypeOK /\ CapKept /\ today \in Nat
  BY DEF IInv, TypeOK
<1>1. CASE Outside BY <1>0, <1>1, OutsideKeeps
<1>2. ASSUME NEW f \in Fax, Claim(f) \/ ClaimRetry(f) PROVE CapKept'
  <2>1. today' = today /\ today < DailyCap
    BY <1>2, <1>0 DEF Claim, ClaimRetry, BreakerTripped, OutboundFaxesToday
  <2> QED BY <2>1, <1>0
<1>3. ASSUME NEW id \in TelnyxId, NEW f \in Fax, Accept(f, id)
      PROVE  today' = today
  BY <1>3, <1>0 DEF Accept
<1>4. ASSUME NEW id \in TelnyxId, LogAttempt(id)
      PROVE  today' = today + 1
  BY <1>4, <1>0 DEF LogAttempt
<1>5. WorkerInHand /\ worker \in WorkerState BY DEF IInv, TypeOK
<1>6. CASE Dial \/ DialLost \/ Redial \/ RedialLost
  <2>1. worker.fax \in Fax /\ worker.pc \in {"dial", "redial"}
    BY <1>5, <1>6 DEF Dial, DialLost, Redial, RedialLost, WorkerInHand, FirstPhase, RetryPhase
  <2>2. today' = today
    BY <1>3, <1>6, <2>1 DEF Dial, DialLost, Redial, RedialLost
  <2> QED BY <2>1, <2>2, <1>0
<1>7. CASE RecordSend \/ RecordRetry
  <2>1. worker.id \in TelnyxId /\ worker.pc \in {"accepted", "reaccepted"}
    BY <1>5, <1>7 DEF RecordSend, RecordRetry, WorkerInHand
  <2>2. today' = today + 1
    BY <1>4, <1>7, <2>1 DEF RecordSend, RecordRetry
  <2>3. worker'.pc \in {"finish", "batch"}
    <3>1. CASE RecordSend BY <3>1, <1>5 DEF RecordSend, WorkerState
    <3>2. CASE RecordRetry BY <3>2 DEF RecordRetry, At
    <3> QED BY <3>1, <3>2, <1>7
  <2> QED BY <2>1, <2>2, <2>3, <1>0
<1>8. CASE \/ \E stale \in SUBSET Processing : RequeueStale(stale)
           \/ \E f \in Fax : SkipRetry(f)
           \/ NonePending \/ FileUnanswered \/ ReplyFails \/ FindPriorSend \/ CommitIntent
           \/ DialFails \/ Finish
           \/ \E stale \in SUBSET Retrying : RecoverStaleRetrying(stale)
           \/ EndRetries \/ RedialFails \/ RecordRefusal \/ WorkerError \/ Crash
  <2>1. today' = today
    BY <1>8 DEF RequeueStale, SkipRetry, NonePending, FileUnanswered, ReplyFails,
        FindPriorSend, CommitIntent, DialFails, Finish, RecoverStaleRetrying, EndRetries,
        RedialFails, RecordRefusal, WorkerError, Crash
  <2>2. CASE \/ FileUnanswered \/ ReplyFails \/ DialFails \/ Finish \/ EndRetries
             \/ \E stale \in SUBSET Retrying : RecoverStaleRetrying(stale)
             \/ RecordRefusal \/ WorkerError \/ Crash
    <3>1. worker'.pc \in {"pick", "batch", "poll"}
      BY <2>2 DEF FileUnanswered, ReplyFails, DialFails, Finish, EndRetries,
          RecoverStaleRetrying, RecordRefusal, WorkerError, Crash, At
    <3> QED BY <3>1, <2>1, <1>0
  <2>3. CASE (\E stale \in SUBSET Processing : RequeueStale(stale)) \/ NonePending
    <3>1. worker'.pc \in {"pick", "retries"}
      BY <2>3, <1>5 DEF RequeueStale, NonePending, Goto, WorkerState
    <3> QED BY <3>1, <2>1, <1>0
  <2>4. CASE \E f \in Fax : SkipRetry(f)
    BY <2>4, <2>1, <1>0 DEF SkipRetry
  <2>5. CASE FindPriorSend \/ CommitIntent
    <3>1. worker.pc = "work" /\ worker'.pc \in {"finish", "dial"}
      BY <2>5, <1>5 DEF FindPriorSend, CommitIntent, Goto, WorkerState
    <3> QED BY <3>1, <2>1, <1>0
  <2>6. CASE RedialFails
    <3>1. worker'.pc = "refused" BY <2>6, <1>5 DEF RedialFails, WorkerState
    <3> QED BY <3>1, <2>1, <1>0
  <2> QED BY <1>8, <2>2, <2>3, <2>4, <2>5, <2>6
<1>9. CASE NewDay
  <2>1. today' = 0 /\ worker' = worker BY <1>9 DEF NewDay
  <2>2. today \in Nat BY <1>0
  <2> QED BY <2>1, <2>2, <1>0
<1>10. CASE UNCHANGED vars BY <1>10, <1>0 DEF vars
<1> QED BY <1>1, <1>2, <1>6, <1>7, <1>8, <1>9, <1>10
        DEF Next, WorkerStep, Outside

\* A fax is requeued only while attempts are left, and claiming spends one.
LEMMA StepTries == IInv /\ [Next]_vars => TriesLeft'
<1> SUFFICES ASSUME IInv, [Next]_vars PROVE TriesLeft'
    OBVIOUS
<1> USE LimitAssumption DEF TriesLeft, tables, telnyx
<1>0. TypeOK /\ TriesLeft /\ \A f \in Fax : inbound[f] \in InboundRow
  BY DEF IInv, TypeOK
<1>1. CASE Outside BY <1>0, <1>1, OutsideKeeps
<1>2. ASSUME NEW f \in Fax, Claim(f) PROVE TriesLeft'
  BY <1>2, <1>0 DEF Claim, TypeOK, InboundRow
<1>3. ASSUME NEW stale \in SUBSET Processing, RequeueStale(stale) PROVE TriesLeft'
  <2>1. \A f \in Fax : Requeued(inbound[f]).attempts = inbound[f].attempts
           /\ (Requeued(inbound[f]).status \in {"absent", "received"} =>
                 inbound[f].attempts < MaxProcessAttempts)
    BY <1>0 DEF Requeued, InboundRow
  <2> QED BY <1>3, <1>0, <2>1 DEF RequeueStale
<1>4. CASE FileUnanswered BY <1>4, <1>0 DEF FileUnanswered, TypeOK, InboundRow
<1>5. CASE Finish BY <1>5, <1>0 DEF Finish, TypeOK, InboundRow
<1>6. ASSUME inbound' = inbound PROVE TriesLeft' BY <1>6, <1>0
<1>7. CASE \/ \E f \in Fax : ClaimRetry(f) \/ SkipRetry(f)
           \/ NonePending \/ ReplyFails \/ FindPriorSend \/ CommitIntent
           \/ Dial \/ DialLost \/ DialFails \/ RecordSend
           \/ \E stale \in SUBSET Retrying : RecoverStaleRetrying(stale)
           \/ EndRetries \/ Redial \/ RedialLost \/ RedialFails
           \/ RecordRetry \/ RecordRefusal \/ WorkerError \/ Crash \/ NewDay
  <2>1. inbound' = inbound
    BY <1>7 DEF ClaimRetry, SkipRetry, NonePending, ReplyFails, FindPriorSend,
        CommitIntent, Dial, DialLost, DialFails, RecordSend, RecoverStaleRetrying,
        EndRetries, Redial, RedialLost, RedialFails, RecordRetry, RecordRefusal,
        WorkerError, Crash, NewDay
  <2> QED BY <2>1, <1>6
<1>8. CASE UNCHANGED vars BY <1>8, <1>6 DEF vars
<1> QED BY <1>1, <1>2, <1>3, <1>4, <1>5, <1>7, <1>8
        DEF Next, WorkerStep, Outside

\* What each write does to the columns of an outbound row.
LEMMA RowColumns ==
    ASSUME NEW r \in OutboundRow, NEW l \in OutboundRow, NEW id \in TelnyxId
    PROVE  /\ Sent(r, id).fax_id = id
           /\ Sent(r, id).attempts = r.attempts + 1
           /\ Sent(r, id).status = "queued"
           /\ Claimed(r).fax_id = r.fax_id
           /\ Claimed(r).attempts = r.attempts + 1
           /\ Claimed(r).status = "retrying"
           /\ Unsent(r, "due").fax_id = r.fax_id
           /\ Unsent(r, "due").attempts = r.attempts
           /\ Unsent(r, "due").status \in {"failed_permanent", "retry_scheduled"}
           /\ Unsent(r, "due").status = "retry_scheduled" => r.attempts <= Backoffs
           /\ Retried(r, l, id).fax_id = id
           /\ Retried(r, l, id).attempts = r.attempts
           /\ Retried(r, l, id).status \in {r.status, "queued"}
           /\ Refused(r, l).fax_id = r.fax_id
           /\ Refused(r, l).attempts = r.attempts
           /\ Refused(r, l).status \in {r.status, "failed_permanent", "retry_scheduled"}
           /\ Refused(r, l).status = "retry_scheduled" =>
                 r.status = "retry_scheduled" \/ l.attempts <= Backoffs
<1> USE LimitAssumption DEF OutboundRow
<1>1. /\ Sent(r, id).fax_id = id
      /\ Sent(r, id).attempts = r.attempts + 1
      /\ Sent(r, id).status = "queued"
  BY DEF Sent
<1>2. /\ Claimed(r).fax_id = r.fax_id
      /\ Claimed(r).attempts = r.attempts + 1
      /\ Claimed(r).status = "retrying"
  BY DEF Claimed
<1>3. /\ Unsent(r, "due").fax_id = r.fax_id
      /\ Unsent(r, "due").attempts = r.attempts
      /\ Unsent(r, "due").status \in {"failed_permanent", "retry_scheduled"}
      /\ Unsent(r, "due").status = "retry_scheduled" => r.attempts <= Backoffs
  <2>1. CASE Exhausted(r) BY <2>1 DEF Unsent
  <2>2. CASE ~Exhausted(r) BY <2>2 DEF Unsent, Exhausted
  <2> QED BY <2>1, <2>2
<1>4. /\ Retried(r, l, id).fax_id = id
      /\ Retried(r, l, id).attempts = r.attempts
      /\ Retried(r, l, id).status \in {r.status, "queued"}
  BY DEF Retried, OrmWrite
<1>5. /\ Refused(r, l).fax_id = r.fax_id
      /\ Refused(r, l).attempts = r.attempts
      /\ Refused(r, l).status = OrmWrite(r.status, l.status, Unsent(l, "later").status)
  BY DEF Refused
<1>6. /\ Unsent(l, "later").status \in {"failed_permanent", "retry_scheduled"}
      /\ Unsent(l, "later").status = "retry_scheduled" => l.attempts <= Backoffs
  <2>1. CASE Exhausted(l) BY <2>1 DEF Unsent
  <2>2. CASE ~Exhausted(l) BY <2>2 DEF Unsent, Exhausted
  <2> QED BY <2>1, <2>2
<1>7. /\ Refused(r, l).status \in {r.status, "failed_permanent", "retry_scheduled"}
      /\ Refused(r, l).status = "retry_scheduled" =>
            r.status = "retry_scheduled" \/ l.attempts <= Backoffs
  BY <1>5, <1>6 DEF OrmWrite
<1> QED BY <1>1, <1>2, <1>3, <1>4, <1>5, <1>7

\* One more letter for f under a new id; nothing else Telnyx holds changes.
LEMMA AcceptEffect ==
    ASSUME TypeOK, NEW f \in Fax, NEW id \in TelnyxId, Accept(f, id)
    PROVE  /\ letters'[f] = letters[f] + 1
           /\ \A g \in Fax : g # f => letters'[g] = letters[g]
           /\ \A g \in Fax : letters'[g] >= letters[g]
           /\ calls'[id].fax = f
           /\ \A j \in TelnyxId : calls[j].fax \in Fax => calls'[j].fax = calls[j].fax
<1>1. PICK h \in Histories : calls' = [calls EXCEPT ![id] = [fax |-> f, reports |-> h]]
  BY DEF Accept
<1>2. calls[id].fax = NoFax BY DEF Accept, FreshId
<1>3. calls'[id].fax = f /\ \A j \in TelnyxId : j # id => calls'[j] = calls[j]
  BY <1>1 DEF TypeOK
<1>4. \A j \in TelnyxId : calls[j].fax \in Fax => calls'[j].fax = calls[j].fax
  BY <1>2, <1>3, FaxAssumption
<1>5. letters' = [letters EXCEPT ![f] = @ + 1] /\ letters \in [Fax -> Nat]
  BY DEF Accept, TypeOK
<1> QED BY <1>3, <1>4, <1>5

\* What the worker has in hand after a step of its own.
LEMMA WorkerFields ==
    ASSUME NEW w \in WorkerState, NEW pc, NEW f, NEW id, NEW row, NEW stop
    PROVE  /\ At(pc).pc = pc /\ At(pc).fax = NoFax
           /\ LET v == [At(pc) EXCEPT !.fax = f] IN v.pc = pc /\ v.fax = f
           /\ LET v == [w EXCEPT !.pc = pc] IN v.pc = pc /\ v.fax = w.fax
           /\ LET v == [w EXCEPT !.pc = pc, !.stop = stop] IN v.pc = pc /\ v.fax = w.fax
           /\ LET v == [w EXCEPT !.pc = pc, !.id = id]
              IN v.pc = pc /\ v.fax = w.fax /\ v.id = id
           /\ LET v == [w EXCEPT !.pc = pc, !.id = id, !.row = row]
              IN v.pc = pc /\ v.fax = w.fax /\ v.id = id /\ v.row = row
           /\ LET v == [w EXCEPT !.pc = pc, !.row = row]
              IN v.pc = pc /\ v.fax = w.fax /\ v.row = row
BY DEF WorkerState, At

Rest == WorkerInHand /\ WebInHand /\ RowsSent /\ LoggedSent /\ LettersPaid /\ AttemptsSpent

\* Steps that leave outbound rows, the log, Telnyx and the web process alone
\* keep what is said of them.
LEMMA StillTables ==
    ASSUME IInv, UNCHANGED <<outbound, outbound_attempts, calls, letters>>,
           web' = web \/ web' = WebIdle
    PROVE  RowsSent' /\ LoggedSent' /\ WebInHand' /\ AttemptsSpent'
<1>1. RowsSent' /\ LoggedSent' BY DEF IInv, RowsSent, LoggedSent
<1>2. WebInHand' /\ AttemptsSpent' BY DEF IInv, WebInHand, AttemptsSpent, WebIdle
<1> QED BY <1>1, <1>2

\* The worker drops what it has in hand.
LEMMA WorkerDrops ==
    ASSUME IInv, UNCHANGED <<outbound, letters>>,
           \A f \in Fax : inbound'[f].attempts = inbound[f].attempts,
           worker'.pc \in {"poll", "pick", "retries", "batch"}
    PROVE  WorkerInHand' /\ LettersPaid'
<1>1. WorkerInHand' BY DEF WorkerInHand, FirstPhase, RetryPhase
<1>2. \A f \in Fax : Outstanding(f)' = 0 /\ Outstanding(f) \in {0, 1}
  BY DEF Outstanding
<1>3. \A f \in Fax : letters[f] \in Nat /\ inbound[f].attempts \in Nat
                     /\ outbound[f].attempts \in Nat
  BY DEF IInv, TypeOK, InboundRow, OutboundRow
<1>4. \A f \in Fax : RetriesUsed(outbound[f])' = RetriesUsed(outbound[f])
  BY DEF RetriesUsed
<1>5. \A f \in Fax : RetriesUsed(outbound[f]) \in Nat BY <1>3 DEF RetriesUsed
<1> QED BY <1>1, <1>2, <1>3, <1>4, <1>5 DEF IInv, LettersPaid

\* The steps of the worker that write none of the tables of Rest.
LEMMA QuietSteps ==
    ASSUME IInv,
           \/ \E stale \in SUBSET Processing : RequeueStale(stale)
           \/ \E f \in Fax : Claim(f) \/ SkipRetry(f)
           \/ NonePending \/ FileUnanswered \/ ReplyFails \/ FindPriorSend
           \/ DialFails \/ Finish \/ EndRetries \/ RedialFails \/ WorkerError
           \/ Crash \/ NewDay \/ UNCHANGED vars
    PROVE  Rest'
<1> USE DEF tables, telnyx
<1>0. /\ TypeOK /\ WorkerInHand /\ RowsSent /\ LettersPaid
      /\ worker \in WorkerState
      /\ \A f \in Fax : /\ inbound[f] \in InboundRow /\ outbound[f] \in OutboundRow
                        /\ letters[f] \in Nat
  BY DEF IInv, TypeOK
<1>1. RowsSent' /\ LoggedSent' /\ WebInHand' /\ AttemptsSpent'
  <2>1. /\ UNCHANGED <<outbound, outbound_attempts, calls, letters>>
        /\ web' = web \/ web' = WebIdle
    BY DEF RequeueStale, Claim, SkipRetry, NonePending, FileUnanswered, ReplyFails,
        FindPriorSend, DialFails, Finish, EndRetries, RedialFails, WorkerError, Crash,
        NewDay, vars
  <2> QED BY <2>1, StillTables
<1>2. SUFFICES WorkerInHand' /\ LettersPaid' BY <1>1 DEF Rest
<1>3. ASSUME NEW stale \in SUBSET Processing, RequeueStale(stale)
      PROVE  WorkerInHand' /\ LettersPaid'
  <2>1. worker'.pc = "pick" BY <1>3, <1>0, WorkerFields DEF RequeueStale, Goto
  <2>2. \A f \in Fax : inbound'[f].attempts = inbound[f].attempts
    BY <1>3, <1>0 DEF RequeueStale, Requeued, InboundRow
  <2> QED BY <1>3, <2>1, <2>2, WorkerDrops DEF RequeueStale
<1>4. ASSUME NEW f \in Fax, Claim(f) PROVE WorkerInHand' /\ LettersPaid'
  <2>1. worker'.pc = "work" /\ worker'.fax = f
    BY <1>4, <1>0, WorkerFields DEF Claim
  <2>2. inbound' = [inbound EXCEPT ![f] =
                       [status |-> "processing", attempts |-> inbound[f].attempts + 1]]
    BY <1>4 DEF Claim
  <2>3. inbound'[f].status = "processing" /\ inbound'[f].attempts = inbound[f].attempts + 1
        /\ \A g \in Fax : g # f => inbound'[g] = inbound[g]
    BY <2>2 DEF IInv, TypeOK
  <2>4. WorkerInHand' BY <2>1, <2>3 DEF WorkerInHand, FirstPhase, RetryPhase
  <2>5. UNCHANGED <<letters, outbound>> /\ worker.pc = "pick" BY <1>4 DEF Claim
  <2>6. \A g \in Fax : Outstanding(g) = 0 BY <2>5 DEF Outstanding
  <2>7. \A g \in Fax : Outstanding(g)' = IF g = f THEN 1 ELSE 0 BY <2>1 DEF Outstanding
  <2>8. \A g \in Fax : /\ RetriesUsed(outbound[g])' = RetriesUsed(outbound[g])
                       /\ RetriesUsed(outbound[g]) \in Nat
    BY <2>5, <1>0 DEF RetriesUsed, OutboundRow
  <2>9. \A g \in Fax : inbound[g].attempts \in Nat BY <1>0 DEF InboundRow
  <2>10. LettersPaid'
    BY <1>0, <2>3, <2>5, <2>6, <2>7, <2>8, <2>9 DEF LettersPaid
  <2> QED BY <2>4, <2>10
<1>5. ASSUME NEW f \in Fax, SkipRetry(f) PROVE WorkerInHand' /\ LettersPaid'
  BY <1>5, <1>0 DEF SkipRetry, WorkerInHand, LettersPaid, Outstanding, RetriesUsed
<1>6. CASE \/ NonePending \/ FileUnanswered \/ ReplyFails \/ DialFails \/ Finish
           \/ EndRetries \/ WorkerError \/ Crash
  <2>1. worker'.pc \in {"poll", "pick", "retries", "batch"}
    <3>1. CASE NonePending BY <3>1, <1>0 DEF NonePending, Goto, WorkerState
    <3>2. CASE \/ FileUnanswered \/ ReplyFails \/ DialFails \/ Finish \/ EndRetries
               \/ WorkerError \/ Crash
      BY <3>2 DEF FileUnanswered, ReplyFails, DialFails, Finish, EndRetries,
          WorkerError, Crash, At
    <3> QED BY <3>1, <3>2, <1>6
  <2>2. UNCHANGED <<outbound, letters>>
    BY <1>6 DEF NonePending, FileUnanswered, ReplyFails, DialFails, Finish,
        EndRetries, WorkerError, Crash
  <2>3. \A f \in Fax : inbound'[f].attempts = inbound[f].attempts
    BY <1>6, <1>0 DEF NonePending, FileUnanswered, ReplyFails, DialFails, Finish,
        EndRetries, WorkerError, Crash, TypeOK, InboundRow
  <2> QED BY <2>1, <2>2, <2>3, WorkerDrops
<1>7. CASE FindPriorSend
  <2>0. PICK stop \in BOOLEAN : worker' = [worker EXCEPT !.pc = "finish", !.stop = stop]
    BY <1>7 DEF FindPriorSend
  <2>1. worker'.pc = "finish" /\ worker'.fax = worker.fax /\ worker.pc = "work"
    BY <1>7, <2>0, <1>0 DEF FindPriorSend, WorkerState
  <2>2. UNCHANGED <<inbound, outbound, letters>> /\ outbound[worker.fax].fax_id # NoId
    BY <1>7 DEF FindPriorSend, PriorSend
  <2>3. WorkerInHand'
    BY <1>0, <2>1, <2>2 DEF WorkerInHand, FirstPhase, RetryPhase
  <2>4. \A f \in Fax : Outstanding(f)' = 0 /\ Outstanding(f) \in {0, 1}
    BY <2>1 DEF Outstanding
  <2>5. \A f \in Fax : /\ inbound[f].attempts \in Nat
                       /\ RetriesUsed(outbound[f])' = RetriesUsed(outbound[f])
                       /\ RetriesUsed(outbound[f]) \in Nat
    BY <1>0, <2>2 DEF InboundRow, OutboundRow, RetriesUsed
  <2> QED BY <1>0, <2>2, <2>3, <2>4, <2>5 DEF LettersPaid
<1>8. CASE RedialFails
  <2>1. /\ worker'.pc = "refused" /\ worker'.fax = worker.fax /\ worker.pc = "redial"
        /\ worker'.row = outbound[worker.fax]
    BY <1>8, <1>0, WorkerFields DEF RedialFails
  <2>2. UNCHANGED <<inbound, outbound, letters>> BY <1>8 DEF RedialFails
  <2>3. WorkerInHand'
    BY <1>0, <2>1, <2>2 DEF WorkerInHand, FirstPhase, RetryPhase
  <2>4. \A f \in Fax : Outstanding(f)' = 0 /\ Outstanding(f) \in {0, 1}
    BY <2>1 DEF Outstanding
  <2>5. \A f \in Fax : /\ inbound[f].attempts \in Nat
                       /\ RetriesUsed(outbound[f])' = RetriesUsed(outbound[f])
                       /\ RetriesUsed(outbound[f]) \in Nat
    BY <1>0, <2>2 DEF InboundRow, OutboundRow, RetriesUsed
  <2> QED BY <1>0, <2>2, <2>3, <2>4, <2>5 DEF LettersPaid
<1>9. CASE NewDay \/ UNCHANGED vars
  <2>1. UNCHANGED <<inbound, outbound, letters, worker, calls>>
    BY <1>9 DEF NewDay, vars
  <2> QED BY <1>0, <2>1 DEF WorkerInHand, LettersPaid, Outstanding, RetriesUsed
<1> QED BY <1>3, <1>4, <1>5, <1>6, <1>7, <1>8, <1>9

\* A letter leaves while the row is unsent (first phase) or claimed (retry).
LEMMA LetterSteps ==
    ASSUME IInv, Dial \/ DialLost \/ Redial \/ RedialLost
    PROVE  Rest'
<1> USE DEF tables, telnyx
<1>0. /\ TypeOK /\ WorkerInHand /\ RowsSent /\ LoggedSent /\ LettersPaid /\ WebInHand
      /\ AttemptsSpent /\ worker \in WorkerState
      /\ \A f \in Fax : /\ inbound[f].attempts \in Nat /\ outbound[f].attempts \in Nat
                        /\ letters[f] \in Nat
  BY DEF IInv, TypeOK, InboundRow, OutboundRow
<1> DEFINE g == worker.fax
<1>1. /\ worker.pc \in {"dial", "redial"} /\ g \in Fax
      /\ UNCHANGED <<inbound, outbound, outbound_attempts, web>>
  BY <1>0 DEF Dial, DialLost, Redial, RedialLost, WorkerInHand, FirstPhase, RetryPhase
<1>2. PICK id \in TelnyxId :
         /\ Accept(g, id)
         /\ \/ worker.pc = "dial" /\ worker' = [worker EXCEPT !.pc = "accepted", !.id = id]
            \/ worker' = At("pick")
            \/ /\ worker.pc = "redial"
               /\ worker' = [worker EXCEPT !.pc = "reaccepted", !.id = id, !.row = outbound[g]]
            \/ /\ worker.pc = "redial"
               /\ worker' = [worker EXCEPT !.pc = "refused", !.row = outbound[g]]
  BY DEF Dial, DialLost, Redial, RedialLost
<1> HIDE DEF g
<1>3. /\ letters'[g] = letters[g] + 1
      /\ \A f \in Fax : f # g => letters'[f] = letters[f]
      /\ \A f \in Fax : letters'[f] >= letters[f]
      /\ calls'[id].fax = g
      /\ \A j \in TelnyxId : calls[j].fax \in Fax => calls'[j].fax = calls[j].fax
  BY <1>0, <1>1, <1>2, AcceptEffect
<1>4. RowsSent'
  <2>1. \A f \in Fax : letters[f] > 0 => letters'[f] > 0
    BY <1>0, <1>3
  <2>2. \A f \in Fax : outbound[f].fax_id # NoId =>
           calls[outbound[f].fax_id].fax = f /\ outbound[f].fax_id \in TelnyxId
    BY <1>0 DEF RowsSent, TypeOK
  <2> QED BY <1>0, <1>1, <1>3, <2>1, <2>2 DEF RowsSent
<1>5. LoggedSent' BY <1>0, <1>1, <1>3 DEF LoggedSent, TypeOK
<1>6. WebInHand' /\ AttemptsSpent' BY <1>0, <1>1 DEF WebInHand, AttemptsSpent
<1>7. /\ worker'.pc \in {"accepted", "pick", "reaccepted", "refused"}
      /\ worker'.pc = "accepted" => worker.pc = "dial" /\ worker'.id = id
      /\ worker'.pc = "reaccepted" => worker.pc = "redial" /\ worker'.id = id
      /\ worker'.pc = "refused" => worker.pc = "redial"
      /\ worker'.pc \in {"reaccepted", "refused"} => worker'.row = outbound[g]
      /\ worker'.pc # "pick" => worker'.fax = g
  <2>1. CASE worker.pc = "dial" /\ worker' = [worker EXCEPT !.pc = "accepted", !.id = id]
    BY <2>1, <1>0 DEF WorkerState, g
  <2>2. CASE worker' = At("pick") BY <2>2 DEF At
  <2>3. CASE /\ worker.pc = "redial"
             /\ worker' = [worker EXCEPT !.pc = "reaccepted", !.id = id, !.row = outbound[g]]
    BY <2>3, <1>0 DEF WorkerState, g
  <2>4. CASE /\ worker.pc = "redial"
             /\ worker' = [worker EXCEPT !.pc = "refused", !.row = outbound[g]]
    BY <2>4, <1>0 DEF WorkerState, g
  <2> QED BY <1>2, <2>1, <2>2, <2>3, <2>4
<1>8. WorkerInHand'
  BY <1>0, <1>1, <1>3, <1>7 DEF WorkerInHand, FirstPhase, RetryPhase, g
<1>9. LettersPaid'
  <2>1. Outstanding(g) = 1 /\ \A f \in Fax : f # g => Outstanding(f) = 0
    BY <1>1 DEF Outstanding, g
  <2>2. \A f \in Fax : Outstanding(f)' = 0 BY <1>7 DEF Outstanding
  <2>3. \A f \in Fax : /\ RetriesUsed(outbound[f])' = RetriesUsed(outbound[f])
                       /\ RetriesUsed(outbound[f]) \in Nat
    BY <1>0, <1>1 DEF RetriesUsed
  <2> QED BY <1>0, <1>1, <1>3, <2>1, <2>2, <2>3 DEF LettersPaid
<1> QED BY <1>4, <1>5, <1>6, <1>8, <1>9 DEF Rest

\* The intent is committed: the row exists, and is still unsent.
LEMMA IntentStep == ASSUME IInv, CommitIntent PROVE Rest'
<1> USE DEF tables, telnyx
<1>0. /\ TypeOK /\ WorkerInHand /\ RowsSent /\ LoggedSent /\ LettersPaid /\ WebInHand
      /\ AttemptsSpent /\ worker \in WorkerState
      /\ \A f \in Fax : outbound[f] \in OutboundRow
  BY DEF IInv, TypeOK
<1> DEFINE g == worker.fax
<1>1. /\ worker.pc = "work" /\ g \in Fax /\ outbound[g].fax_id = NoId
      /\ UNCHANGED <<inbound, outbound_attempts, calls, letters, web>>
  BY <1>0 DEF CommitIntent, PriorSend, WorkerInHand, FirstPhase
<1>2. outbound' = [outbound EXCEPT ![g] =
                      IF outbound[g].status = "none" THEN PendingSend ELSE outbound[g]]
  BY DEF CommitIntent
<1>3. worker' = [worker EXCEPT !.pc = "dial"]
  BY DEF CommitIntent, Goto
<1>4. worker'.pc = "dial" /\ worker'.fax = g BY <1>3, <1>0 DEF WorkerState
<1> HIDE DEF g
<1>5. /\ outbound'[g].status = "pending_send" /\ outbound'[g].fax_id = NoId
      /\ outbound'[g].attempts = 0 /\ outbound[g].attempts = 0
      /\ \A f \in Fax : f # g => outbound'[f] = outbound[f]
  <2>1. outbound[g].status \in {"none", "pending_send"} /\ outbound[g].attempts = 0
    BY <1>0, <1>1 DEF RowsSent
  <2>2. PendingSend.status = "pending_send" /\ PendingSend.fax_id = NoId
        /\ PendingSend.attempts = 0
    BY DEF PendingSend, NoRow
  <2> QED BY <1>0, <1>1, <1>2, <2>1, <2>2 DEF TypeOK
<1>6. RowsSent' BY <1>0, <1>1, <1>5 DEF RowsSent
<1>7. LoggedSent' BY <1>0, <1>1, <1>5 DEF LoggedSent
<1>8. WebInHand' BY <1>0, <1>1, <1>5 DEF WebInHand
<1>9. AttemptsSpent' BY <1>0, <1>1, <1>5, LimitAssumption DEF AttemptsSpent
<1>10. WorkerInHand'
  BY <1>0, <1>1, <1>4, <1>5 DEF WorkerInHand, FirstPhase, RetryPhase, g
<1>11. LettersPaid'
  <2>1. \A f \in Fax : Outstanding(f)' = Outstanding(f)
    BY <1>1, <1>4 DEF Outstanding, g
  <2>2. \A f \in Fax : RetriesUsed(outbound[f])' = RetriesUsed(outbound[f])
    BY <1>5 DEF RetriesUsed
  <2> QED BY <1>0, <1>1, <2>1, <2>2 DEF LettersPaid
<1> QED BY <1>6, <1>7, <1>8, <1>9, <1>10, <1>11 DEF Rest

\* The id is stored and logged: the row is sent, for the first time or again.
LEMMA RecordSteps == ASSUME IInv, RecordSend \/ RecordRetry PROVE Rest'
<1> USE LimitAssumption DEF tables, telnyx
<1>0. /\ TypeOK /\ WorkerInHand /\ RowsSent /\ LoggedSent /\ LettersPaid /\ WebInHand
      /\ AttemptsSpent /\ worker \in WorkerState
      /\ \A f \in Fax : /\ outbound[f] \in OutboundRow /\ outbound[f].attempts \in Nat
                        /\ inbound[f].attempts \in Nat /\ letters[f] \in Nat
  BY DEF IInv, TypeOK, OutboundRow, InboundRow
<1> DEFINE g == worker.fax
           id == worker.id
           row == worker.row
<1>1. /\ worker.pc \in {"accepted", "reaccepted"} /\ g \in Fax /\ id \in TelnyxId
      /\ calls[id].fax = g /\ row \in OutboundRow
      /\ outbound_attempts' = outbound_attempts \cup {id}
      /\ UNCHANGED <<inbound, calls, letters, web>>
  BY <1>0 DEF RecordSend, RecordRetry, LogAttempt, WorkerInHand, FirstPhase, RetryPhase,
      WorkerState
<1>2. /\ outbound' = [outbound EXCEPT ![g] = IF worker.pc = "accepted"
                         THEN Sent(outbound[g], id) ELSE Retried(outbound[g], row, id)]
      /\ worker.pc = "accepted" => worker' = [worker EXCEPT !.pc = "finish", !.id = NoId]
      /\ worker.pc = "reaccepted" => worker' = At("batch")
  BY DEF RecordSend, RecordRetry
<1>3. /\ worker'.pc \in {"finish", "batch"}
      /\ worker'.pc = "finish" => worker'.fax = g /\ worker.pc = "accepted"
  <2>1. CASE worker.pc = "accepted" BY <2>1, <1>2, <1>0 DEF WorkerState
  <2>2. CASE worker.pc = "reaccepted" BY <2>2, <1>2 DEF At
  <2> QED BY <2>1, <2>2, <1>1
<1>4. /\ worker.pc = "accepted" => outbound[g].fax_id = NoId /\ outbound[g].attempts = 0
                                   /\ letters[g] > 0
      /\ worker.pc = "reaccepted" => outbound[g].fax_id # NoId /\ outbound[g].attempts > 0
                                   /\ letters[g] > 0
                                   /\ outbound[g].status \notin {"none", "pending_send"}
  BY <1>0, <1>1 DEF WorkerInHand, RowsSent, RetryPhase
<1>5. worker.pc = "accepted" => inbound[g].status = "processing"
  BY <1>0 DEF WorkerInHand, FirstPhase
<1> HIDE DEF g, id, row
<1>6. /\ outbound'[g].fax_id = id
      /\ outbound'[g].attempts = IF worker.pc = "accepted" THEN 1 ELSE outbound[g].attempts
      /\ outbound'[g].status \notin {"none", "pending_send"}
      /\ outbound'[g].status = "retry_scheduled" => outbound[g].status = "retry_scheduled"
      /\ \A f \in Fax : f # g => outbound'[f] = outbound[f]
  <2>1. \A f \in Fax : f # g => outbound'[f] = outbound[f] BY <1>2, <1>0 DEF TypeOK
  <2>2. CASE worker.pc = "accepted"
    <3>1. outbound'[g] = Sent(outbound[g], id) BY <2>2, <1>0, <1>1, <1>2 DEF TypeOK
    <3> QED BY <2>1, <2>2, <3>1, <1>0, <1>1, <1>4, RowColumns
  <2>3. CASE worker.pc = "reaccepted"
    <3>1. outbound'[g] = Retried(outbound[g], row, id)
      BY <2>3, <1>0, <1>1, <1>2 DEF TypeOK
    <3> QED BY <2>1, <2>3, <3>1, <1>0, <1>1, <1>4, RowColumns
  <2> QED BY <2>2, <2>3, <1>1
<1>7. id # NoId BY <1>1, FaxAssumption
<1>8. RowsSent' BY <1>0, <1>1, <1>4, <1>6, <1>7 DEF RowsSent
<1>9. LoggedSent' BY <1>0, <1>1, <1>6, <1>7 DEF LoggedSent, TypeOK
<1>10. WebInHand' BY <1>0, <1>1, <1>6, <1>7 DEF WebInHand
<1>11. AttemptsSpent'
  <2>1. outbound[g].attempts \in Nat /\ Backoffs \in Nat BY <1>0, <1>1
  <2>2. CASE worker.pc = "accepted"
    <3>1. outbound'[g].attempts = 1 /\ outbound'[g].status # "retry_scheduled"
      BY <2>2, <1>0, <1>1, <1>4, <1>6 DEF RowsSent
    <3>2. ~(web.pc = "commit" /\ web.fax = g) BY <2>2, <1>0, <1>4 DEF WebInHand
    <3> QED BY <3>1, <3>2, <1>0, <1>1, <1>6 DEF AttemptsSpent
  <2>3. CASE worker.pc = "reaccepted"
    <3>1. /\ outbound'[g].attempts = outbound[g].attempts
          /\ outbound'[g].status = "retry_scheduled" => outbound[g].status = "retry_scheduled"
      BY <2>3, <1>6
    <3> QED BY <3>1, <1>0, <1>1, <1>6 DEF AttemptsSpent
  <2> QED BY <2>2, <2>3, <1>1
<1>12. WorkerInHand'
  BY <1>1, <1>3, <1>5, <1>6, <1>7 DEF WorkerInHand, FirstPhase, RetryPhase
<1>13. LettersPaid'
  <2>1. \A f \in Fax : Outstanding(f)' = 0 /\ Outstanding(f) = 0
    BY <1>1, <1>3 DEF Outstanding
  <2>2. \A f \in Fax : RetriesUsed(outbound[f])' = RetriesUsed(outbound[f])
    BY <1>0, <1>1, <1>4, <1>6 DEF RetriesUsed
  <2> QED BY <1>0, <1>1, <2>1, <2>2 DEF LettersPaid
<1> QED BY <1>8, <1>9, <1>10, <1>11, <1>12, <1>13 DEF Rest

\* A retry is claimed from a row that was sent; its attempt pays for the letter.
LEMMA ClaimStep == ASSUME IInv, NEW f \in Fax, ClaimRetry(f) PROVE Rest'
<1> USE LimitAssumption DEF tables, telnyx
<1>0. /\ TypeOK /\ WorkerInHand /\ RowsSent /\ LoggedSent /\ LettersPaid /\ WebInHand
      /\ AttemptsSpent
      /\ \A h \in Fax : /\ outbound[h] \in OutboundRow /\ outbound[h].attempts \in Nat
                        /\ inbound[h].attempts \in Nat /\ letters[h] \in Nat
  BY DEF IInv, TypeOK, OutboundRow, InboundRow
<1>1. /\ worker.pc = "batch" /\ outbound[f].status = "retry_scheduled"
      /\ UNCHANGED <<inbound, calls, letters, web, outbound_attempts>>
      /\ outbound' = [outbound EXCEPT ![f] = Claimed(outbound[f])]
  BY DEF ClaimRetry
<1>2. worker'.pc = "redial" /\ worker'.fax = f
  <2>1. worker' = [At("redial") EXCEPT !.fax = f] BY DEF ClaimRetry
  <2> QED BY <2>1 DEF At
<1>3. /\ outbound'[f].fax_id = outbound[f].fax_id
      /\ outbound'[f].attempts = outbound[f].attempts + 1
      /\ outbound'[f].status = "retrying"
      /\ \A h \in Fax : h # f => outbound'[h] = outbound[h]
  <2>1. /\ Claimed(outbound[f]).fax_id = outbound[f].fax_id
        /\ Claimed(outbound[f]).attempts = outbound[f].attempts + 1
        /\ Claimed(outbound[f]).status = "retrying"
    BY <1>0 DEF Claimed, OutboundRow
  <2> QED BY <1>0, <1>1, <2>1 DEF TypeOK
<1>4. outbound[f].fax_id # NoId /\ outbound[f].attempts > 0
  BY <1>0, <1>1 DEF RowsSent
<1>5. RowsSent' BY <1>0, <1>1, <1>3, <1>4 DEF RowsSent
<1>6. LoggedSent' BY <1>0, <1>1, <1>3 DEF LoggedSent
<1>7. WebInHand' BY <1>0, <1>1, <1>3 DEF WebInHand
<1>8. AttemptsSpent'
  <2>1. /\ outbound'[f].attempts <= Backoffs + 2
        /\ outbound'[f].status # "retry_scheduled"
        /\ web.pc = "commit" /\ web.fax = f /\ web.row.attempts <= Backoffs =>
              outbound'[f].attempts <= Backoffs + 1
    BY <1>0, <1>1, <1>3 DEF AttemptsSpent
  <2> QED BY <1>0, <1>1, <1>3, <2>1 DEF AttemptsSpent
<1>9. WorkerInHand' BY <1>2, <1>3, <1>4 DEF WorkerInHand, FirstPhase, RetryPhase
<1>10. LettersPaid'
  <2>1. \A h \in Fax : Outstanding(h)' = (IF h = f THEN 1 ELSE 0) /\ Outstanding(h) = 0
    BY <1>1, <1>2 DEF Outstanding
  <2>2. \A h \in Fax : RetriesUsed(outbound[h])' =
                          (IF h = f THEN RetriesUsed(outbound[h]) + 1
                                    ELSE RetriesUsed(outbound[h]))
    BY <1>0, <1>3, <1>4 DEF RetriesUsed
  <2>3. \A h \in Fax : RetriesUsed(outbound[h]) \in Nat BY <1>0 DEF RetriesUsed
  <2> QED BY <1>0, <1>1, <2>1, <2>2, <2>3 DEF LettersPaid
<1> QED BY <1>5, <1>6, <1>7, <1>8, <1>9, <1>10 DEF Rest

\* The sweep and a refused retry change the status of rows that were sent, and
\* schedule again only what is not exhausted.
LEMMA UnsentSteps ==
    ASSUME IInv,
           (\E stale \in SUBSET Retrying : RecoverStaleRetrying(stale)) \/ RecordRefusal
    PROVE  Rest'
<1> USE LimitAssumption DEF tables, telnyx
<1>0. /\ TypeOK /\ WorkerInHand /\ RowsSent /\ LoggedSent /\ LettersPaid /\ WebInHand
      /\ AttemptsSpent /\ worker \in WorkerState
      /\ \A h \in Fax : /\ outbound[h] \in OutboundRow /\ outbound[h].attempts \in Nat
                        /\ inbound[h].attempts \in Nat /\ letters[h] \in Nat
  BY DEF IInv, TypeOK, OutboundRow, InboundRow
<1>1. /\ UNCHANGED <<inbound, calls, letters, web, outbound_attempts>>
      /\ worker'.pc = "batch" /\ worker.pc \in {"retries", "refused"}
  BY DEF RecoverStaleRetrying, RecordRefusal, At
<1>2. \A f \in Fax :
         /\ outbound'[f].fax_id = outbound[f].fax_id
         /\ outbound'[f].attempts = outbound[f].attempts
         /\ outbound[f].fax_id = NoId => outbound'[f] = outbound[f]
         /\ outbound[f].fax_id # NoId => outbound'[f].status \notin {"none", "pending_send"}
         /\ outbound'[f].status = "retry_scheduled" =>
               outbound[f].status = "retry_scheduled" \/ outbound[f].attempts <= Backoffs
  <2>0. \A f \in Fax : outbound[f].fax_id # NoId => outbound[f].status \notin {"none", "pending_send"}
    BY <1>0 DEF RowsSent
  <2>1. ASSUME NEW stale \in SUBSET Retrying, RecoverStaleRetrying(stale), NEW f \in Fax
        PROVE  /\ outbound'[f].fax_id = outbound[f].fax_id
               /\ outbound'[f].attempts = outbound[f].attempts
               /\ outbound[f].fax_id = NoId => outbound'[f] = outbound[f]
               /\ outbound[f].fax_id # NoId =>
                     outbound'[f].status \notin {"none", "pending_send"}
               /\ outbound'[f].status = "retry_scheduled" =>
                     outbound[f].status = "retry_scheduled" \/ outbound[f].attempts <= Backoffs
    <3>1. outbound'[f] = IF f \in stale THEN Unsent(outbound[f], "due") ELSE outbound[f]
      BY <2>1 DEF RecoverStaleRetrying
    <3>2. f \in stale => outbound[f].fax_id # NoId
      BY <1>0 DEF Retrying, RowsSent
    <3>3. /\ Unsent(outbound[f], "due").fax_id = outbound[f].fax_id
          /\ Unsent(outbound[f], "due").attempts = outbound[f].attempts
          /\ Unsent(outbound[f], "due").status \in {"failed_permanent", "retry_scheduled"}
          /\ Unsent(outbound[f], "due").status = "retry_scheduled" =>
                outbound[f].attempts <= Backoffs
      <4>1. outbound[f] \in OutboundRow BY <1>0
      <4>2. CASE Exhausted(outbound[f]) BY <4>1, <4>2 DEF Unsent, OutboundRow
      <4>3. CASE ~Exhausted(outbound[f]) BY <4>1, <4>3 DEF Unsent, Exhausted, OutboundRow
      <4> QED BY <4>2, <4>3
    <3> QED BY <3>1, <3>2, <3>3, <2>0
  <2>2. CASE RecordRefusal
    <3> DEFINE g == worker.fax
               row == worker.row
    <3>1. /\ g \in Fax /\ row \in OutboundRow /\ row.attempts = outbound[g].attempts
          /\ outbound[g].fax_id # NoId
      BY <2>2, <1>0 DEF RecordRefusal, WorkerInHand, RetryPhase, WorkerState
    <3>2. outbound' = [outbound EXCEPT ![g] = Refused(outbound[g], row)]
      BY <2>2 DEF RecordRefusal
    <3> HIDE DEF g, row
    <3>3. outbound'[g] = Refused(outbound[g], row)
          /\ \A f \in Fax : f # g => outbound'[f] = outbound[f]
      BY <3>1, <3>2, <1>0 DEF TypeOK
    <3>4. /\ Refused(outbound[g], row).fax_id = outbound[g].fax_id
          /\ Refused(outbound[g], row).attempts = outbound[g].attempts
          /\ Refused(outbound[g], row).status \in
                {outbound[g].status, "failed_permanent", "retry_scheduled"}
          /\ Refused(outbound[g], row).status = "retry_scheduled" =>
                outbound[g].status = "retry_scheduled" \/ row.attempts <= Backoffs
      <4>1. outbound[g] \in OutboundRow BY <3>1, <1>0
      <4>2. /\ Unsent(row, "later").status \in {"failed_permanent", "retry_scheduled"}
            /\ Unsent(row, "later").status = "retry_scheduled" => row.attempts <= Backoffs
        <5>1. CASE Exhausted(row) BY <3>1, <5>1 DEF Unsent, OutboundRow
        <5>2. CASE ~Exhausted(row) BY <3>1, <5>2 DEF Unsent, Exhausted, OutboundRow
        <5> QED BY <5>1, <5>2
      <4> QED BY <4>1, <4>2 DEF Refused, OrmWrite, OutboundRow
    <3> QED BY <3>1, <3>3, <3>4, <2>0
  <2> QED BY <2>1, <2>2
<1>3. RowsSent' BY <1>0, <1>1, <1>2 DEF RowsSent
<1>4. LoggedSent' BY <1>0, <1>1, <1>2 DEF LoggedSent
<1>5. WebInHand' BY <1>0, <1>1, <1>2 DEF WebInHand
<1>6. AttemptsSpent' BY <1>0, <1>1, <1>2 DEF AttemptsSpent
<1>7. WorkerInHand' BY <1>1 DEF WorkerInHand, FirstPhase, RetryPhase
<1>8. LettersPaid'
  <2>1. \A h \in Fax : Outstanding(h)' = 0 /\ Outstanding(h) = 0
    BY <1>1 DEF Outstanding
  <2>2. \A h \in Fax : RetriesUsed(outbound[h])' = RetriesUsed(outbound[h])
    BY <1>2 DEF RetriesUsed
  <2> QED BY <1>0, <1>1, <2>1, <2>2 DEF LettersPaid
<1> QED BY <1>3, <1>4, <1>5, <1>6, <1>7, <1>8 DEF Rest

\* Webhooks, arrivals and elapsing backoffs.
LEMMA OutsideSteps == ASSUME IInv, Outside PROVE Rest'
<1> USE LimitAssumption DEF tables, telnyx
<1>0. /\ TypeOK /\ WorkerInHand /\ RowsSent /\ LoggedSent /\ LettersPaid /\ WebInHand
      /\ AttemptsSpent /\ web \in WebState
      /\ \A h \in Fax : /\ outbound[h] \in OutboundRow /\ outbound[h].attempts \in Nat
                        /\ inbound[h].attempts \in Nat /\ letters[h] \in Nat
  BY DEF IInv, TypeOK, OutboundRow, InboundRow
<1>1. /\ UNCHANGED <<worker, calls, letters, outbound_attempts, today, due_ids>>
      /\ \A f \in Fax :
            /\ outbound'[f].fax_id = outbound[f].fax_id
            /\ outbound'[f].attempts = outbound[f].attempts
            /\ outbound[f].fax_id = NoId => outbound'[f].status = outbound[f].status
            /\ outbound[f].fax_id # NoId => outbound'[f].status \notin {"none", "pending_send"}
            /\ inbound'[f].attempts = inbound[f].attempts
            /\ \/ inbound'[f].status = inbound[f].status
               \/ inbound[f].status = "absent" /\ inbound'[f].status = "received"
  BY OutsideKeeps
<1>2. RowsSent' BY <1>0, <1>1 DEF RowsSent
<1>3. LoggedSent' BY <1>0, <1>1 DEF LoggedSent
<1>4. WorkerInHand' BY <1>0, <1>1 DEF WorkerInHand, FirstPhase, RetryPhase, RowsSent
<1>5. LettersPaid'
  <2>1. \A h \in Fax : Outstanding(h)' = Outstanding(h) BY <1>1 DEF Outstanding
  <2>2. \A h \in Fax : RetriesUsed(outbound[h])' = RetriesUsed(outbound[h])
    BY <1>1 DEF RetriesUsed
  <2> QED BY <1>0, <1>1, <2>1, <2>2 DEF LettersPaid
<1>6. ASSUME NEW id \in TelnyxId, NEW kind \in Kinds, WebLoad(id, kind)
      PROVE  WebInHand' /\ AttemptsSpent'
  <2> DEFINE f == calls[id].fax
  <2>1. f \in Fax /\ web.pc = "idle" /\ outbound' = outbound
    BY <1>6, <1>0 DEF WebLoad, Deliverable, TypeOK
  <2>2. ById(id) # {} \/ Superseded(id, kind) => outbound[f].fax_id # NoId
    <3>1. CASE ById(id) # {}
      <4>1. PICK h \in Fax : outbound[h].fax_id = id BY <3>1 DEF ById
      <4>2. calls[id].fax = h /\ id # NoId BY <4>1, <1>0, FaxAssumption DEF RowsSent
      <4> QED BY <4>1, <4>2
    <3>2. CASE Superseded(id, kind) BY <3>2, <1>0 DEF Superseded, LoggedSent
    <3> QED BY <3>1, <3>2
  <2>3. /\ web'.pc \in {"commit", "record"}
        /\ web'.id = id
        /\ web'.pc = "commit" => /\ web'.fax = f
                                 /\ web'.row = outbound[f]
                                 /\ ById(id) # {} \/ Superseded(id, kind)
    <3>1. CASE ById(id) # {} \/ Superseded(id, kind)
      <4>1. web' = [[WebIdle EXCEPT !.id = id, !.kind = kind] EXCEPT
                       !.pc = "commit", !.fax = f, !.latest = (ById(id) # {}),
                       !.row = outbound[f], !.line = thread[ThreadOf[f]]]
        BY <1>6, <3>1 DEF WebLoad
      <4> HIDE DEF f
      <4> QED BY <4>1, <3>1 DEF WebIdle
    <3>2. CASE ~(ById(id) # {} \/ Superseded(id, kind))
      <4>1. web' = [[WebIdle EXCEPT !.id = id, !.kind = kind] EXCEPT !.pc = "record"]
        BY <1>6, <3>2 DEF WebLoad
      <4> QED BY <4>1 DEF WebIdle
    <3> QED BY <3>1, <3>2
  <2>4. WebInHand' BY <2>1, <2>2, <2>3 DEF WebInHand
  <2> HIDE DEF f
  <2>5. AttemptsSpent' BY <2>1, <2>3, <1>0 DEF AttemptsSpent
  <2> QED BY <2>4, <2>5
<1>7. ASSUME WebCommit PROVE WebInHand' /\ AttemptsSpent'
  <2> DEFINE g == web.fax
  <2>1. /\ g \in Fax /\ web.row \in OutboundRow /\ web.kind \in Kinds /\ web.pc = "commit"
        /\ web.id \in TelnyxId
    BY <1>7, <1>0 DEF WebCommit, WebInHand, WebState
  <2>2. web'.pc = "record" /\ web'.id = web.id BY <1>7 DEF WebCommit, WebIdle
  <2>3. NewStatus(web.row, web.kind) = "retry_scheduled" => web.row.attempts <= Backoffs
    BY <2>1 DEF NewStatus, FailureStatus, StatusMap, Kinds, RetriesUsed, OutboundRow
  <2>4. outbound' = [outbound EXCEPT ![g] = Updated(outbound[g], web.row, web.kind, web.latest)]
    BY <1>7 DEF WebCommit
  <2>5. Updated(outbound[g], web.row, web.kind, web.latest).status =
           OrmWrite(outbound[g].status, web.row.status, NewStatus(web.row, web.kind))
    BY <2>1, <1>0 DEF Updated, OutboundRow
  <2>6. outbound'[g].status = OrmWrite(outbound[g].status, web.row.status,
                                       NewStatus(web.row, web.kind))
        /\ \A f \in Fax : f # g => outbound'[f] = outbound[f]
    BY <2>1, <2>4, <2>5, <1>0 DEF TypeOK
  <2>7. outbound'[g].status = "retry_scheduled" =>
           \/ outbound[g].status = "retry_scheduled"
           \/ web.row.attempts <= Backoffs
    BY <2>3, <2>6 DEF OrmWrite
  <2>8. AttemptsSpent'
    BY <1>0, <1>1, <2>1, <2>2, <2>6, <2>7 DEF AttemptsSpent
  <2>9. WebInHand' BY <2>1, <2>2 DEF WebInHand
  <2> QED BY <2>8, <2>9
<1>8. ASSUME WebRecord \/ WebError PROVE WebInHand' /\ AttemptsSpent'
  <2>1. web' = WebIdle /\ outbound' = outbound BY <1>8 DEF WebRecord, WebError
  <2>2. web'.pc = "idle" BY <2>1 DEF WebIdle
  <2>3. WebInHand' BY <2>2 DEF WebInHand
  <2>4. AttemptsSpent' BY <1>0, <2>1, <2>2 DEF AttemptsSpent
  <2> QED BY <2>3, <2>4
<1>9. ASSUME \E f \in Fax : Arrive(f) PROVE WebInHand' /\ AttemptsSpent'
  <2>1. web' = web /\ outbound' = outbound BY <1>9 DEF Arrive
  <2>2. WebInHand' BY <1>0, <2>1 DEF WebInHand
  <2>3. AttemptsSpent' BY <1>0, <2>1 DEF AttemptsSpent
  <2> QED BY <2>2, <2>3
<1>10. ASSUME \E f \in Fax : BackoffElapses(f) PROVE WebInHand' /\ AttemptsSpent'
  <2>1. PICK f \in Fax : BackoffElapses(f) BY <1>10
  <2>2. /\ web' = web
        /\ outbound' = [outbound EXCEPT ![f] = [outbound[f] EXCEPT !.next_retry_at = "due"]]
    BY <2>1 DEF BackoffElapses
  <2>3. \A h \in Fax : outbound'[h].status = outbound[h].status
    BY <2>2, <1>0 DEF TypeOK, OutboundRow
  <2>4. WebInHand' BY <2>2, <1>0, <1>1 DEF WebInHand
  <2>5. AttemptsSpent' BY <2>2, <2>3, <1>0, <1>1 DEF AttemptsSpent
  <2> QED BY <2>4, <2>5
<1>11. WebInHand' /\ AttemptsSpent'
  <2>1. ASSUME \E id \in TelnyxId, kind \in Kinds : WebLoad(id, kind)
        PROVE  WebInHand' /\ AttemptsSpent'
    BY <2>1, <1>6
  <2> QED BY <2>1, <1>7, <1>8, <1>9, <1>10 DEF Outside, WebStep
<1> QED BY <1>2, <1>3, <1>4, <1>5, <1>11 DEF Rest

\* The invariant is inductive.
LEMMA StepIInv == IInv /\ [Next]_vars => IInv'
<1> SUFFICES ASSUME IInv, [Next]_vars PROVE IInv'
    OBVIOUS
<1>1. TypeOK' BY StepType DEF IInv
<1>2. TriesLeft' /\ CapKept' BY StepTries, StepCap
<1>3. Rest'
  BY QuietSteps, LetterSteps, IntentStep, RecordSteps, ClaimStep, UnsentSteps, OutsideSteps
  DEF Next, WorkerStep, Outside
<1> QED BY <1>1, <1>2, <1>3 DEF IInv, Rest

THEOREM Inductive == Spec => []IInv
BY InitIInv, StepIInv, PTL DEF Spec

\* All the tables and process states have the types models.py and the code
\* give them, at every moment of every run.
THEOREM TypeCorrect == Spec => []TypeOK
<1>1. IInv => TypeOK BY DEF IInv
<1> QED BY <1>1, Inductive, PTL

\* However the worker crashes, loses Telnyx's answers or hears twice of a
\* failure, a row spends no more than Backoffs + 2 attempts.
THEOREM AttemptsBounded == Spec => []BoundedAttempts
<1>1. IInv => BoundedAttempts BY DEF IInv, AttemptsSpent, BoundedAttempts, AttemptLimit
<1> QED BY <1>1, Inductive, PTL

\* "Bounded at-least-once", the upper half: one letter for each processing
\* attempt and for each retry, never more.
THEOREM LettersBounded == Spec => []BoundedLetters
<1>1. IInv => BoundedLetters
  <2> SUFFICES ASSUME IInv, NEW f \in Fax PROVE letters[f] <= LetterLimit
      BY DEF BoundedLetters
  <2> USE LimitAssumption
  <2>1. /\ letters[f] \in Nat /\ inbound[f].attempts \in Nat /\ outbound[f].attempts \in Nat
    BY DEF IInv, TypeOK, InboundRow, OutboundRow
  <2>2. letters[f] + Outstanding(f) <= inbound[f].attempts + RetriesUsed(outbound[f])
    BY DEF IInv, LettersPaid
  <2>3. Outstanding(f) \in {0, 1} BY DEF Outstanding
  <2>4. RetriesUsed(outbound[f]) \in Nat /\ RetriesUsed(outbound[f]) <= Backoffs + 1
    BY <2>1 DEF IInv, AttemptsSpent, RetriesUsed
  <2>5. inbound[f].attempts <= MaxProcessAttempts BY DEF IInv, TriesLeft
  <2> QED BY <2>1, <2>2, <2>3, <2>4, <2>5 DEF LetterLimit, AttemptLimit
<1> QED BY <1>1, Inductive, PTL

\* The sends on record today never exceed the daily cap, retries included.
THEOREM CapRespected == Spec => []CapHolds
<1>1. IInv => CapHolds BY DEF IInv, CapKept, CapHolds, OutboundFaxesToday
<1> QED BY <1>1, Inductive, PTL

\* pending_send is the state of exactly the rows that carry no id.
THEOREM PendingMeansUnsent == Spec => []PendingIffUnsent
<1>1. IInv => PendingIffUnsent BY DEF IInv, RowsSent, PendingIffUnsent
<1> QED BY <1>1, Inductive, PTL

=============================================================================
