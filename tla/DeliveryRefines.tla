-------------------------- MODULE DeliveryRefines ---------------------------
(***************************************************************************)
(* Delivery implements ReplyContract, for every value of the constants:    *)
(* each step of worker, web process, clock and Telnyx is one step of the   *)
(* contract, or none.                                                      *)
(***************************************************************************)
EXTENDS DeliveryProofs

outcome == [f \in Fax |-> Outcome(inbound[f].status)]

\* The four outcomes, status by status.
LEMMA Outcomes ==
    /\ Outcome("absent") = "expected"
    /\ Outcome("received") = "open" /\ Outcome("processing") = "open"
    /\ Outcome("replied") = "answered"
    /\ \A status \in {"ignored_optout", "ignored_cap", "failed_processing"} :
          Outcome(status) = "unanswered"
BY DEF Outcome

\* A letter is allowed while its claim is outstanding.
LEMMA RoomForOne == ASSUME IInv, NEW f \in Fax, Outstanding(f) = 1
                    PROVE  letters[f] < LetterLimit
<1> USE LimitAssumption
<1>1. /\ letters[f] \in Nat /\ inbound[f].attempts \in Nat /\ outbound[f].attempts \in Nat
  BY DEF IInv, TypeOK, InboundRow, OutboundRow
<1>2. letters[f] + 1 <= inbound[f].attempts + RetriesUsed(outbound[f])
  BY DEF IInv, LettersPaid
<1>3. RetriesUsed(outbound[f]) \in Nat /\ RetriesUsed(outbound[f]) <= Backoffs + 1
  BY <1>1 DEF IInv, AttemptsSpent, RetriesUsed
<1>4. inbound[f].attempts <= MaxProcessAttempts BY DEF IInv, TriesLeft
<1> QED BY <1>1, <1>2, <1>3, <1>4 DEF LetterLimit, AttemptLimit

\* Dialling, first or again, whether or not the answer reaches the worker.
LEMMA PostStep == ASSUME IInv, Dial \/ DialLost \/ Redial \/ RedialLost
                  PROVE  \E f \in Fax : Contract!Post(f)
<1> DEFINE g == worker.fax
<1>1. worker.pc \in {"dial", "redial"} /\ UNCHANGED inbound
  BY DEF Dial, DialLost, Redial, RedialLost, tables
<1>2. g \in Fax BY <1>1 DEF IInv, WorkerInHand, FirstPhase, RetryPhase
<1>3. Outstanding(g) = 1 BY <1>1 DEF Outstanding
<1>4. letters[g] < LetterLimit BY <1>2, <1>3, RoomForOne
<1>5. letters' = [letters EXCEPT ![g] = @ + 1]
  BY DEF Dial, DialLost, Redial, RedialLost, Accept
<1>6. outcome[g] = "open" \/ letters[g] > 0
  <2>1. CASE worker.pc = "dial"
    <3>1. inbound[g].status = "processing" BY <2>1 DEF IInv, WorkerInHand, FirstPhase
    <3> QED BY <3>1, <1>2, Outcomes DEF outcome
  <2>2. CASE worker.pc = "redial"
    <3>1. outbound[g].fax_id # NoId BY <2>2 DEF IInv, WorkerInHand, RetryPhase
    <3> QED BY <3>1, <1>2 DEF IInv, RowsSent
  <2> QED BY <2>1, <2>2, <1>1
<1>7. UNCHANGED outcome BY <1>1 DEF outcome
<1> QED BY <1>2, <1>4, <1>5, <1>6, <1>7 DEF Contract!Post, outcome

\* The steps that close faxes, or open one.
LEMMA CloseStep ==
    ASSUME IInv, \/ \E stale \in SUBSET Processing : RequeueStale(stale)
                 \/ \E f \in Fax : Arrive(f) \/ Claim(f)
                 \/ FileUnanswered \/ Finish
    PROVE  Contract!Next \/ UNCHANGED <<letters, outcome>>
<1> USE Outcomes
<1>0. /\ inbound \in [Fax -> InboundRow] /\ IInv BY DEF IInv, TypeOK
<1>1. CASE \E stale \in SUBSET Processing : RequeueStale(stale)
  <2>1. PICK stale \in SUBSET Processing : RequeueStale(stale) BY <1>1
  <2> DEFINE given == {f \in stale : inbound[f].attempts >= MaxProcessAttempts}
  <2>2. /\ UNCHANGED letters
        /\ inbound' = [f \in Fax |-> IF f \in stale THEN Requeued(inbound[f])
                                                    ELSE inbound[f]]
    BY <2>1 DEF RequeueStale, telnyx
  <2>3. \A f \in stale : f \in Fax /\ inbound[f].status = "processing" BY DEF Processing
  <2>4. \A f \in Fax : inbound'[f].status =
           IF f \in given THEN "failed_processing"
           ELSE IF f \in stale THEN "received" ELSE inbound[f].status
    BY <2>2, <2>3, <1>0 DEF Requeued, InboundRow
  <2>5. \A f \in Fax : Outcome(inbound'[f].status) =
           IF f \in given THEN "unanswered" ELSE Outcome(inbound[f].status)
    BY <2>3, <2>4
  <2>6. \A f \in given : outcome[f] = "open" BY <2>3 DEF outcome
  <2>7. outcome' = [f \in Fax |-> IF f \in given THEN "unanswered" ELSE outcome[f]]
    BY <2>5 DEF outcome
  <2>8. given \in SUBSET Fax BY <2>3
  <2> HIDE DEF given
  <2> QED BY <2>2, <2>6, <2>7, <2>8 DEF Contract!Next, Contract!GiveUp, outcome
<1>2. CASE \E f \in Fax : Arrive(f)
  <2>1. PICK f \in Fax : Arrive(f) BY <1>2
  <2>2. UNCHANGED letters /\ inbound[f].status = "absent"
        /\ inbound' = [inbound EXCEPT ![f].status = "received"]
    BY <2>1 DEF Arrive, telnyx
  <2>3. \A h \in Fax : inbound'[h].status = IF h = f THEN "received" ELSE inbound[h].status
    BY <2>2, <1>0 DEF InboundRow
  <2>4. outcome' = [outcome EXCEPT ![f] = "open"] BY <2>3 DEF outcome
  <2>5. outcome[f] = "expected" BY <2>2 DEF outcome
  <2> QED BY <2>2, <2>4, <2>5 DEF Contract!Next, Contract!Receive, outcome
<1>3. CASE \E f \in Fax : Claim(f)
  <2>1. PICK f \in Fax : Claim(f) BY <1>3
  <2>2. /\ UNCHANGED letters /\ inbound[f].status = "received"
        /\ inbound' = [inbound EXCEPT ![f] = [status |-> "processing",
                                              attempts |-> inbound[f].attempts + 1]]
    BY <2>1 DEF Claim, telnyx
  <2>3. \A h \in Fax : Outcome(inbound'[h].status) = Outcome(inbound[h].status)
    BY <2>2, <1>0
  <2> QED BY <2>2, <2>3 DEF outcome
<1>4. CASE FileUnanswered
  <2> DEFINE g == worker.fax
  <2>1. g \in Fax /\ inbound[g].status = "processing"
    BY <1>4 DEF IInv, WorkerInHand, FirstPhase, FileUnanswered
  <2>2. PICK status \in {"ignored_optout", "ignored_cap"} :
           inbound' = [inbound EXCEPT ![g].status = status]
    BY <1>4 DEF FileUnanswered
  <2>3. UNCHANGED letters BY <1>4 DEF FileUnanswered, telnyx
  <2> HIDE DEF g
  <2>4. \A h \in Fax : inbound'[h].status = IF h = g THEN status ELSE inbound[h].status
    BY <2>1, <2>2, <1>0 DEF InboundRow
  <2>5. outcome' = [f \in Fax |-> IF f \in {g} THEN "unanswered" ELSE outcome[f]]
    BY <2>4 DEF outcome
  <2>6. \A f \in {g} : outcome[f] = "open" BY <2>1 DEF outcome
  <2>7. {g} \in SUBSET Fax BY <2>1
  <2> QED BY <2>3, <2>5, <2>6, <2>7 DEF Contract!Next, Contract!GiveUp, outcome
<1>5. CASE Finish
  <2> DEFINE g == worker.fax
  <2>1. g \in Fax /\ inbound[g].status = "processing" /\ letters[g] > 0
    BY <1>5 DEF IInv, WorkerInHand, FirstPhase, RowsSent, Finish
  <2>2. UNCHANGED letters /\ inbound' = [inbound EXCEPT ![g].status = "replied"]
    BY <1>5 DEF Finish, telnyx
  <2> HIDE DEF g
  <2>3. \A h \in Fax : inbound'[h].status = IF h = g THEN "replied" ELSE inbound[h].status
    BY <2>1, <2>2, <1>0 DEF InboundRow
  <2>4. outcome' = [outcome EXCEPT ![g] = "answered"] BY <2>3 DEF outcome
  <2>5. outcome[g] = "open" BY <2>1 DEF outcome
  <2> QED BY <2>1, <2>2, <2>4, <2>5 DEF Contract!Next, Contract!Answer, outcome
<1> QED BY <1>1, <1>2, <1>3, <1>4, <1>5

\* Everything else leaves inbound_faxes and Telnyx's letters as they were.
LEMMA OtherSteps ==
    ASSUME [Next]_vars
    PROVE  \/ Dial \/ DialLost \/ Redial \/ RedialLost
           \/ \E stale \in SUBSET Processing : RequeueStale(stale)
           \/ \E f \in Fax : Arrive(f) \/ Claim(f)
           \/ FileUnanswered \/ Finish
           \/ UNCHANGED <<letters, inbound>>
<1> USE DEF tables, telnyx
<1>1. CASE WorkerStep
  <2>1. CASE \/ NonePending \/ ReplyFails \/ FindPriorSend \/ CommitIntent
             \/ DialFails \/ RecordSend
    BY <2>1 DEF NonePending, ReplyFails, FindPriorSend, CommitIntent, DialFails, RecordSend
  <2>2. CASE \/ EndRetries \/ RedialFails \/ RecordRetry \/ RecordRefusal
    BY <2>2 DEF EndRetries, RedialFails, RecordRetry, RecordRefusal
  <2>3. CASE \E f \in Fax : ClaimRetry(f) \/ SkipRetry(f)
    BY <2>3 DEF ClaimRetry, SkipRetry
  <2>4. CASE \E stale \in SUBSET Retrying : RecoverStaleRetrying(stale)
    BY <2>4 DEF RecoverStaleRetrying
  <2> QED BY <1>1, <2>1, <2>2, <2>3, <2>4 DEF WorkerStep
<1>2. CASE WebStep \/ WebError BY <1>2 DEF WebStep, WebLoad, WebCommit, WebRecord, WebError
<1>3. CASE \/ WorkerError \/ NewDay \/ Crash \/ UNCHANGED vars
           \/ \E f \in Fax : BackoffElapses(f)
  BY <1>3 DEF WorkerError, NewDay, Crash, vars, BackoffElapses
<1> QED BY <1>1, <1>2, <1>3 DEF Next

\* Delivery promises what ReplyContract says: letters are bounded, a fax is
\* answered only after a letter went out, and what is closed stays closed.
THEOREM Implements == Spec => ImplementsContract
<1>1. Init => Contract!Init BY Outcomes DEF Init, Contract!Init
<1>2. IInv /\ [Next]_vars => [Contract!Next]_(Contract!contract)
  <2> SUFFICES ASSUME IInv, [Next]_vars
               PROVE  Contract!Next \/ UNCHANGED <<letters, outcome>>
      BY DEF Contract!contract, outcome
  <2>1. CASE Dial \/ DialLost \/ Redial \/ RedialLost
    BY <2>1, PostStep DEF Contract!Next
  <2>2. CASE \/ \E stale \in SUBSET Processing : RequeueStale(stale)
             \/ \E f \in Fax : Arrive(f) \/ Claim(f)
             \/ FileUnanswered \/ Finish
    BY <2>2, CloseStep
  <2>3. CASE UNCHANGED <<letters, inbound>> BY <2>3 DEF outcome
  <2> QED BY <2>1, <2>2, <2>3, OtherSteps
<1> QED BY <1>1, <1>2, Inductive, PTL DEF Spec, ImplementsContract, Contract!Spec
=============================================================================
