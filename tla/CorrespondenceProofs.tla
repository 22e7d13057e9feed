------------------------ MODULE CorrespondenceProofs ------------------------
(***************************************************************************)
(* Theorems about Correspondence for every value of its constants.         *)
(***************************************************************************)
EXTENDS CorrespondenceInv, FiniteSetTheorems, TLAPS

(***************************************************************************)
(* Counting faxes.                                                         *)
(***************************************************************************)

\* A set of faxes has a number of elements, which a smaller set does not exceed.
LEMMA CountFaxes ==
    ASSUME NEW S \in SUBSET Fax, NEW R \in SUBSET S
    PROVE  /\ Cardinality(S) \in Nat /\ Cardinality(R) \in Nat
           /\ Cardinality(R) <= Cardinality(S)
<1>1. IsFiniteSet(S) BY QueueAssumption, FS_Subset
<1>2. IsFiniteSet(R) /\ Cardinality(R) <= Cardinality(S) BY <1>1, FS_Subset
<1> QED BY <1>1, <1>2, FS_CardinalityType

\* What is in a smaller set of faxes keeps to a bound the larger one keeps to.
LEMMA CountBelow ==
    ASSUME NEW S \in SUBSET Fax, NEW R \in SUBSET S, NEW n \in Nat, Cardinality(S) <= n
    PROVE  Cardinality(R) <= n
<1>1. /\ Cardinality(S) \in Nat /\ Cardinality(R) \in Nat
      /\ Cardinality(R) <= Cardinality(S) BY CountFaxes
<1> QED BY <1>1

(***************************************************************************)
(* The choice of a thread.                                                 *)
(***************************************************************************)

\* The thread found by the sender's number is the sender's, and none is found
\* only when all of them have left the window.
LEMMA FoundByAni ==
    ASSUME NEW c, NEW t \in FindThreadByAni(c)
    PROVE  /\ t # NoThread => t \in Of(c)
           /\ t = NoThread => \A u \in Of(c) : ~(thread[u].last + WindowDays > day)
BY ThreadsAssumption DEF FindThreadByAni, Of

\* Whatever is quoted, a fax is filed under a thread of its sender or under one
\* that nobody has used; under the latter only if none was found.
LEMMA Filed ==
    ASSUME TypeOK, FoundThread, worker.pc = "think",
           NEW ref, NEW c, c = inbound[worker.fax].from,
           NEW t \in IF Resolve(worker.found, ref, c) # {}
                     THEN Resolve(worker.found, ref, c) ELSE Unused
    PROVE  /\ t \in Thread
           /\ \/ thread[t].caller = c
              \/ thread[t].caller = NoCaller /\ worker.found = NoThread
<1>1. worker.found \in Thread \cup {NoThread} BY DEF TypeOK, WorkerState
<1>2. CASE Resolve(worker.found, ref, c) # {}
  <2>1. CASE FindThreadByRef(ref, c) # {}
    BY <1>2, <2>1 DEF Resolve, FindThreadByRef, Of
  <2>2. CASE FindThreadByRef(ref, c) = {}
    BY <1>1, <1>2, <2>2 DEF Resolve, FoundThread
  <2> QED BY <2>1, <2>2
<1>3. CASE Resolve(worker.found, ref, c) = {}
  <2>1. worker.found = NoThread BY <1>3 DEF Resolve
  <2> QED BY <1>3, <2>1 DEF Unused, Of
<1> QED BY <1>2, <1>3

\* Compose files the fax at hand under a thread t, which becomes its sender's if
\* it was nobody's.
LEMMA ComposeFiles ==
    ASSUME TypeOK, FoundThread, Compose
    PROVE  \E t \in Thread, stop \in BOOLEAN :
              /\ \/ thread[t].caller = inbound[worker.fax].from
                 \/ thread[t].caller = NoCaller /\ worker.found = NoThread
              /\ File(t, stop)
<1> DEFINE c == inbound[worker.fax].from
<1>1. PICK ref \in Thread \cup {NoThread}, stop \in BOOLEAN :
         \E t \in IF Resolve(worker.found, ref, c) # {}
                  THEN Resolve(worker.found, ref, c) ELSE Unused : File(t, stop)
  BY DEF Compose
<1>2. PICK t \in IF Resolve(worker.found, ref, c) # {}
                 THEN Resolve(worker.found, ref, c) ELSE Unused : File(t, stop)
  BY <1>1
<1>3. /\ t \in Thread
      /\ \/ thread[t].caller = c
         \/ thread[t].caller = NoCaller /\ worker.found = NoThread
  BY <1>2, Filed DEF Compose
<1> QED BY <1>2, <1>3

\* A worker without a fax.
LEMMA IdleType == WorkerIdle \in WorkerState
BY CapAssumption DEF WorkerState, WorkerIdle, Days

\* The worker goes on to dial with the same fax and what the gates decided.
LEMMA Dialling ==
    ASSUME worker \in WorkerState, NEW stop,
           worker' = [worker EXCEPT !.pc = "dial", !.stop = stop]
    PROVE  /\ worker'.pc = "dial" /\ worker'.fax = worker.fax /\ worker'.stop = stop
           /\ worker'.capped = worker.capped /\ worker'.day = worker.day
<1>1. DOMAIN worker = {"pc", "fax", "found", "capped", "day", "stop"} BY DEF WorkerState
<1> QED BY <1>1, Zenon

(***************************************************************************)
(* The initial state.                                                      *)
(***************************************************************************)
\* Nothing is on file yet.
LEMMA InitIInv == Init => IInv
<1> SUFFICES ASSUME Init PROVE IInv OBVIOUS
<1> USE QueueAssumption, ThreadsAssumption, CapAssumption DEF Init
<1>1. TypeOK
  <2>1. day \in Days /\ faults \in 0..MaxFaults BY DEF Days
  <2>2. inbound \in [Fax -> InboundRow] BY <2>1 DEF InboundRow, Status, Days
  <2>3. outbound \in [Fax -> OutboundRow] BY DEF OutboundRow
  <2>4. thread \in [Thread -> ThreadRow] BY DEF ThreadRow, Days
  <2>5. worker \in WorkerState BY DEF WorkerState, WorkerIdle, Days
  <2> QED BY <2>1, <2>2, <2>3, <2>4, <2>5 DEF TypeOK
<1>2. /\ InHand /\ FoundThread /\ RoomLeft /\ SilenceAfterStop
  BY DEF WorkerIdle, InHand, FoundThread, RoomLeft, SilenceAfterStop
<1>3. RowsReceived /\ CallerBound /\ PastOptOut
  BY DEF RowsReceived, CallerBound, PastOptOut, WorkerIdle, Of
<1>4. RefusedExceeded BY DEF RefusedExceeded, WorkerIdle
<1>5. CapPerCaller
  <2> SUFFICES ASSUME NEW c \in Caller, NEW d \in Days
               PROVE  /\ Cardinality(Answered(c, d, {FALSE})) <= PerAniDailyCap
                      /\ Cardinality(Answered(c, d, BOOLEAN)) <= PerAniDailyCap + 1
      BY DEF CapPerCaller
  <2>1. \A kinds : Answered(c, d, kinds) = {} BY DEF Answered, Received
  <2> QED BY <2>1, FS_EmptySet
<1> QED BY <1>1, <1>2, <1>3, <1>4, <1>5 DEF IInv

(***************************************************************************)
(* Types, what is on file, and under whose threads.                        *)
(***************************************************************************)
\* The part of IInv about the tables and the fax in hand.
Filing == TypeOK /\ InHand /\ RowsReceived /\ CallerBound

\* A step that only moves the fax f to another status, with its sender and its
\* thread as they were, leaves every fax under its sender's threads.
LEMMA SameThreads ==
    ASSUME CallerBound, UNCHANGED thread,
           \A f \in Fax : /\ inbound'[f].thread = inbound[f].thread
                          /\ outbound'[f].thread = outbound[f].thread
                          /\ \/ inbound'[f].from = inbound[f].from
                             \/ /\ inbound[f].thread = NoThread
                                /\ outbound[f].thread = NoThread
    PROVE  CallerBound'
BY DEF CallerBound

\* The steps of the queue and of the web process on one inbound row.
LEMMA RowSteps ==
    ASSUME Filing, NEW f \in Fax, Claim(f) \/ RequeueStale(f) \/ Arrive(f) \/ Redeliver(f)
    PROVE  Filing'
<1> USE QueueAssumption, CapAssumption DEF Filing
<1>0. /\ inbound \in [Fax -> InboundRow] /\ outbound \in [Fax -> OutboundRow]
      /\ inbound[f].attempts \in 0..MaxProcessAttempts /\ inbound[f].day \in Days /\ day \in Days
      /\ inbound[f].from \in Caller \cup {NoCaller}
  BY DEF TypeOK, InboundRow
<1>1. CASE Claim(f)
  <2>1. inbound[f].attempts < MaxProcessAttempts BY <1>1 DEF Claim, RowsReceived
  <2>2. inbound' \in [Fax -> InboundRow] BY <1>0, <1>1, <2>1 DEF Claim, InboundRow, Status
  <2>3. worker' \in WorkerState BY <1>1, IdleType DEF Claim, WorkerState
  <2>4. TypeOK' BY <1>1, <2>2, <2>3 DEF Claim, TypeOK
  <2>5. RowsReceived' BY <1>0, <1>1 DEF Claim, RowsReceived
  <2>6. InHand' BY <1>0, <1>1 DEF Claim, InHand, RowsReceived, WorkerIdle
  <2>7. CallerBound' BY <1>0, <1>1, SameThreads DEF Claim
  <2> QED BY <2>4, <2>5, <2>6, <2>7
<1>2. CASE RequeueStale(f)
  <2>1. inbound' \in [Fax -> InboundRow]
    BY <1>0, <1>2 DEF RequeueStale, Requeued, InboundRow, Status
  <2>2. TypeOK' BY <1>2, <2>1 DEF RequeueStale, TypeOK
  <2>3. RowsReceived' BY <1>0, <1>2 DEF RequeueStale, Requeued, RowsReceived
  <2>4. InHand' BY <1>2 DEF RequeueStale, InHand
  <2>5. CallerBound' BY <1>0, <1>2, SameThreads DEF RequeueStale
  <2> QED BY <2>2, <2>3, <2>4, <2>5
<1>3. CASE Arrive(f)
  <2>1. PICK c \in Caller, status \in {"received", "failed_download"} :
           inbound' = [inbound EXCEPT ![f].from = c, ![f].status = status, ![f].day = day]
    BY <1>3 DEF Arrive
  <2>2. /\ inbound[f].status = "unsent" /\ inbound[f].from = NoCaller
        /\ UNCHANGED <<outbound, thread, letters, worker, day, faults>>
    BY <1>3 DEF Arrive, RowsReceived
  <2>3. inbound' \in [Fax -> InboundRow]
    <3>1. status \in Status BY DEF Status
    <3>2. [inbound[f] EXCEPT !.from = c, !.status = status, !.day = day] \in InboundRow
      BY <1>0, <3>1 DEF InboundRow
    <3>3. inbound' = [inbound EXCEPT ![f] = [@ EXCEPT !.from = c, !.status = status, !.day = day]]
      BY <1>0, <2>1
    <3> QED BY <1>0, <3>2, <3>3
  <2>4. TypeOK' BY <2>2, <2>3 DEF TypeOK
  <2>5. RowsReceived' BY <1>0, <2>1, <2>2 DEF RowsReceived
  <2>6. InHand' BY <1>0, <2>1, <2>2 DEF InHand
  <2>7. inbound[f].thread = NoThread /\ outbound[f].thread = NoThread
    BY <2>2 DEF RowsReceived
  <2>8. CallerBound' BY <1>0, <2>1, <2>2, <2>7, SameThreads
  <2> QED BY <2>4, <2>5, <2>6, <2>8
<1>4. CASE Redeliver(f)
  <2>1. inbound' \in [Fax -> InboundRow] BY <1>0, <1>4 DEF Redeliver, InboundRow, Status
  <2>2. TypeOK' BY <1>4, <2>1 DEF Redeliver, TypeOK
  <2>3. RowsReceived' BY <1>0, <1>4 DEF Redeliver, RowsReceived
  <2>4. InHand' BY <1>0, <1>4 DEF Redeliver, InHand
  <2>5. CallerBound' BY <1>0, <1>4, SameThreads DEF Redeliver
  <2> QED BY <2>2, <2>3, <2>4, <2>5
<1> QED BY <1>1, <1>2, <1>3, <1>4

\* A status written on the fax in hand, which the worker then lets go.
LEMMA ClosingStep ==
    ASSUME Filing, worker.pc # "idle", NEW status \in Status,
           status \notin {"unsent", "failed_download", "received"},
           inbound' = [inbound EXCEPT ![worker.fax].status = status],
           UNCHANGED <<outbound, thread, letters, day, faults>>, worker' = WorkerIdle
    PROVE  Filing'
<1> USE QueueAssumption DEF Filing
<1>0. inbound \in [Fax -> InboundRow] /\ worker.fax \in Fax BY DEF TypeOK, InHand
<1>1. inbound' \in [Fax -> InboundRow] BY <1>0 DEF InboundRow
<1>2. TypeOK' BY <1>1, IdleType DEF TypeOK
<1>3. RowsReceived' BY <1>0 DEF RowsReceived, InHand
<1>4. InHand' BY DEF InHand, WorkerIdle
<1>5. CallerBound' BY <1>0, SameThreads
<1> QED BY <1>2, <1>3, <1>4, <1>5

\* What is filed was received.
LEMMA FiledReceived ==
    ASSUME RowsReceived, NEW f \in Fax,
           inbound[f].thread # NoThread \/ outbound[f].thread # NoThread
    PROVE  inbound[f].from # NoCaller
BY DEF RowsReceived

\* The fax in hand is filed under a thread of its sender or a new one.
LEMMA ComposeFiling == Filing /\ FoundThread /\ Compose => Filing'
<1> SUFFICES ASSUME Filing, FoundThread, Compose PROVE Filing' OBVIOUS
<1> USE QueueAssumption, ThreadsAssumption DEF Filing
<1> DEFINE f == worker.fax
<1>0. /\ worker.pc = "think" /\ UNCHANGED <<letters, day, faults>>
      /\ f \in Fax /\ inbound[f].status = "processing" /\ inbound[f].from \in Caller
      /\ inbound \in [Fax -> InboundRow] /\ outbound \in [Fax -> OutboundRow]
      /\ thread \in [Thread -> ThreadRow] /\ worker \in WorkerState /\ day \in Days
  BY DEF Compose, InHand, TypeOK
<1>1. PICK t \in Thread, stop \in BOOLEAN :
         /\ thread[t].caller = inbound[f].from \/ thread[t].caller = NoCaller
         /\ File(t, stop)
  BY ComposeFiles
<1>2. thread' = [thread EXCEPT ![t] =
                    [caller |-> inbound[f].from, last |-> day,
                     status |-> IF stop THEN "opted_out" ELSE thread[t].status]]
  BY <1>0, <1>1 DEF File, Touched
<1>3. PICK status \in {"processing", "capped", "replied"} :
         inbound' = [inbound EXCEPT ![f].thread = t, ![f].status = status]
  BY <1>1 DEF File, FiledUnder, Outcome
<1>4. \/ worker' = WorkerIdle
      \/ worker' = [worker EXCEPT !.pc = "dial", !.stop = stop] /\ inbound'[f].status = "processing"
  BY <1>0, <1>1 DEF File, FiledUnder, InboundRow
<1>5. \/ outbound' = outbound
      \/ outbound' = [outbound EXCEPT ![f] = [status |-> "pending_send", thread |-> t]]
  BY <1>1 DEF File
<1>6. TypeOK'
  <2>1. inbound' \in [Fax -> InboundRow]
    <3>1. status \in Status BY DEF Status
    <3>2. [inbound[f] EXCEPT !.thread = t, !.status = status] \in InboundRow
      BY <1>0, <3>1 DEF InboundRow
    <3>3. inbound' = [inbound EXCEPT ![f] = [@ EXCEPT !.thread = t, !.status = status]]
      BY <1>0, <1>3
    <3> QED BY <1>0, <3>2, <3>3
  <2>2. outbound' \in [Fax -> OutboundRow] BY <1>0, <1>5 DEF OutboundRow
  <2>3. thread' \in [Thread -> ThreadRow] BY <1>0, <1>2 DEF ThreadRow
  <2>4. worker' \in WorkerState BY <1>0, <1>4, IdleType DEF WorkerState
  <2> QED BY <1>0, <2>1, <2>2, <2>3, <2>4 DEF TypeOK
<1>7. InHand'
  <2>1. CASE worker' = WorkerIdle BY <2>1 DEF InHand, WorkerIdle
  <2>2. CASE ~(worker' = WorkerIdle)
    <3>1. worker'.fax = f /\ worker'.pc = "dial" /\ inbound'[f].status = "processing"
      BY <1>0, <1>4, <2>2 DEF WorkerState
    <3>2. inbound'[f].from = inbound[f].from BY <1>0, <1>3 DEF InboundRow
    <3>3. outbound'[f].status # "none" BY <1>0, <1>1, <2>2, <1>5 DEF File
    <3> QED BY <1>0, <3>1, <3>2, <3>3 DEF InHand
  <2> QED BY <2>1, <2>2
<1>8. RowsReceived' BY <1>0, <1>3, <1>5 DEF RowsReceived
<1>9. CallerBound'
  <2> SUFFICES ASSUME NEW g \in Fax, NEW u, u # NoThread,
                      u = inbound'[g].thread \/ u = outbound'[g].thread
               PROVE  thread'[u].caller = inbound'[g].from
      BY DEF CallerBound
  <2>1. inbound'[g].from = inbound[g].from BY <1>0, <1>3
  <2>2. CASE u # t
    <3>1. u = inbound[g].thread \/ u = outbound[g].thread BY <1>0, <1>3, <1>5, <2>2
    <3>2. thread'[u] = thread[u] BY <1>0, <1>2, <2>2, <3>1 DEF InboundRow, OutboundRow
    <3> QED BY <2>1, <3>1, <3>2 DEF CallerBound
  <2>3. CASE u = t
    <3>1. thread'[u].caller = inbound[f].from BY <1>0, <1>2, <2>3
    <3>2. CASE g = f BY <2>1, <3>1, <3>2
    <3>3. CASE g # f
      <4>1. u = inbound[g].thread \/ u = outbound[g].thread BY <1>0, <1>3, <1>5, <3>3
      <4>2. thread[u].caller = inbound[g].from BY <4>1 DEF CallerBound
      <4>3. inbound[g].from # NoCaller BY <4>1, FiledReceived
      <4> QED BY <1>1, <2>1, <2>3, <3>1, <4>2, <4>3
    <3> QED BY <3>2, <3>3
  <2> QED BY <2>2, <2>3
<1> QED BY <1>6, <1>7, <1>8, <1>9

\* The other steps of the worker, and those on no inbound row.
LEMMA OtherFiling ==
    ASSUME Filing, \/ Gate \/ Dial \/ Close \/ Interrupted \/ NewDay \/ UNCHANGED vars
                   \/ \E f \in Fax : Undeliverable(f)
    PROVE  Filing'
<1> USE QueueAssumption, ThreadsAssumption DEF Filing
<1> DEFINE f == worker.fax
<1>0. /\ inbound \in [Fax -> InboundRow] /\ outbound \in [Fax -> OutboundRow]
      /\ thread \in [Thread -> ThreadRow] /\ letters \in [Fax -> SUBSET Letter]
      /\ worker \in WorkerState /\ day \in Days /\ faults \in 0..MaxFaults
  BY DEF TypeOK
<1>1. CASE Gate
  <2>1. worker.pc = "work" /\ UNCHANGED <<outbound, thread, letters, day, faults>>
    BY <1>1 DEF Gate
  <2>2. CASE \E status \in {"ignored_optout", "ignored_cap"} : Ignore(status)
    <3>1. PICK status \in {"ignored_optout", "ignored_cap"} : Ignore(status) BY <2>2
    <3>2. status \in Status BY DEF Status
    <3> QED BY <2>1, <3>1, <3>2, ClosingStep DEF Ignore
  <2>3. CASE /\ UNCHANGED inbound
             /\ \E t \in FindThreadByAni(inbound[f].from), capped \in BOOLEAN :
                   worker' = [worker EXCEPT !.pc = "think", !.found = t, !.day = day,
                                            !.capped = capped]
    <3>1. PICK t \in FindThreadByAni(inbound[f].from), capped \in BOOLEAN :
             worker' = [worker EXCEPT !.pc = "think", !.found = t, !.day = day, !.capped = capped]
      BY <2>3
    <3>2. t \in Thread \cup {NoThread} BY FoundByAni DEF Of
    <3>3. worker' \in WorkerState BY <1>0, <3>1, <3>2 DEF WorkerState
    <3>4. TypeOK' BY <2>1, <2>3, <3>3 DEF TypeOK
    <3>5. InHand' BY <1>0, <2>1, <2>3, <3>1 DEF InHand, WorkerState
    <3>6. RowsReceived' /\ CallerBound' BY <2>1, <2>3 DEF RowsReceived, CallerBound
    <3> QED BY <3>4, <3>5, <3>6
  <2> QED BY <1>1, <2>2, <2>3 DEF Gate
<1>2. CASE Dial
  <2>1. /\ worker.pc = "dial" /\ f \in Fax /\ UNCHANGED <<inbound, thread, day>>
        /\ inbound[f].status = "processing" /\ inbound[f].from \in Caller
        /\ letters' = [letters EXCEPT ![f] = @ \cup {[capped |-> worker.capped, day |-> worker.day]}]
        /\ faults' \in 0..MaxFaults
    BY <1>0, <1>2, CapAssumption DEF Dial, InHand, Fault
  <2>2. outbound' = outbound \/ outbound' = [outbound EXCEPT ![f].status = "sent"]
    BY <1>2 DEF Dial
  <2>3. worker' = WorkerIdle \/ worker' = [worker EXCEPT !.pc = "close"] BY <1>2 DEF Dial
  <2>4. outbound' \in [Fax -> OutboundRow] BY <1>0, <2>1, <2>2 DEF OutboundRow
  <2>5. [capped |-> worker.capped, day |-> worker.day] \in Letter
    BY <1>0 DEF WorkerState, Letter
  <2>6. letters' \in [Fax -> SUBSET Letter] BY <1>0, <2>1, <2>5
  <2>7. worker' \in WorkerState BY <1>0, <2>3, IdleType DEF WorkerState
  <2>8. TypeOK' BY <1>0, <2>1, <2>4, <2>6, <2>7 DEF TypeOK
  <2>9. InHand' BY <1>0, <2>1, <2>3 DEF InHand, WorkerIdle, WorkerState
  <2>10. \A g \in Fax : outbound'[g].thread = outbound[g].thread
    BY <1>0, <2>1, <2>2 DEF OutboundRow
  <2>11. CallerBound' BY <2>1, <2>10, SameThreads
  <2>12. RowsReceived'
    <3>1. \A g \in Fax : outbound'[g].status # "none" => outbound[g].thread # NoThread
      BY <1>0, <2>1, <2>2 DEF InHand, RowsReceived
    <3>2. \A g \in Fax : g # f => letters'[g] = letters[g] BY <1>0, <2>1
    <3> QED BY <1>0, <2>1, <2>10, <3>1, <3>2 DEF RowsReceived
  <2> QED BY <2>8, <2>9, <2>11, <2>12
<1>3. CASE Close
  <2>1. Outcome \in Status /\ Outcome \in {"capped", "replied"} BY DEF Outcome, Status
  <2> QED BY <1>3, <2>1, ClosingStep DEF Close
<1>4. CASE Interrupted
  <2>1. TypeOK' BY <1>0, <1>4, IdleType, CapAssumption DEF TypeOK, Interrupted, Fault
  <2>2. InHand' BY <1>4 DEF Interrupted, InHand, WorkerIdle
  <2>3. RowsReceived' /\ CallerBound' BY <1>4 DEF Interrupted, RowsReceived, CallerBound
  <2> QED BY <2>1, <2>2, <2>3
<1>5. CASE NewDay
  <2>1. day' \in Days BY <1>0, <1>5, CapAssumption DEF NewDay, Days
  <2>2. TypeOK' BY <1>5, <2>1 DEF TypeOK, NewDay
  <2>3. InHand' /\ RowsReceived' /\ CallerBound'
    BY <1>5 DEF NewDay, InHand, RowsReceived, CallerBound
  <2> QED BY <2>2, <2>3
<1>6. CASE UNCHANGED vars
  BY <1>6 DEF vars, TypeOK, InHand, RowsReceived, CallerBound
<1>7. ASSUME NEW g \in Fax, Undeliverable(g) PROVE Filing'
  <2> DEFINE t == outbound[g].thread
  <2>1. t \in Thread BY <1>0, <1>7 DEF Undeliverable, RowsReceived, OutboundRow
  <2>2. /\ thread' = [thread EXCEPT ![t].status = "undeliverable"]
        /\ UNCHANGED <<inbound, outbound, letters, worker, day, faults>>
    BY <1>7 DEF Undeliverable
  <2>3. thread' \in [Thread -> ThreadRow] BY <1>0, <2>1, <2>2 DEF ThreadRow
  <2>4. TypeOK' BY <2>2, <2>3 DEF TypeOK
  <2>5. InHand' /\ RowsReceived' BY <2>2 DEF InHand, RowsReceived
  <2>6. \A u \in Thread : thread'[u].caller = thread[u].caller BY <1>0, <2>1, <2>2
  <2>7. CallerBound' BY <1>0, <2>2, <2>6 DEF CallerBound, InboundRow, OutboundRow
  <2> QED BY <2>4, <2>5, <2>7
<1> QED BY <1>1, <1>2, <1>3, <1>4, <1>5, <1>6, <1>7

\* So every step keeps what is on file in order.
LEMMA FilingStep == Filing /\ FoundThread /\ [Next]_vars => Filing'
BY RowSteps, ComposeFiling, OtherFiling DEF Next

\* Whoever sent a fax, and when, stays on record; the fax in hand is one that
\* was received.
LEMMA Frame ==
    ASSUME Filing, FoundThread, [Next]_vars, NEW f \in Fax, inbound[f].from \in Caller
    PROVE  inbound'[f].from = inbound[f].from /\ inbound'[f].day = inbound[f].day
<1> USE QueueAssumption DEF Filing
<1>0. inbound \in [Fax -> InboundRow] BY DEF TypeOK
<1>1. ASSUME NEW g \in Fax, NEW status, NEW n,
             inbound' = [inbound EXCEPT ![g].status = status, ![g].attempts = n]
      PROVE  inbound'[f].from = inbound[f].from /\ inbound'[f].day = inbound[f].day
  BY <1>0, <1>1 DEF InboundRow
<1>2. ASSUME NEW g \in Fax, NEW status, inbound' = [inbound EXCEPT ![g].status = status]
      PROVE  inbound'[f].from = inbound[f].from /\ inbound'[f].day = inbound[f].day
  BY <1>0, <1>2 DEF InboundRow
<1>3. ASSUME NEW g \in Fax, Arrive(g)
      PROVE  inbound'[f].from = inbound[f].from /\ inbound'[f].day = inbound[f].day
  <2>1. g # f BY <1>3 DEF Arrive, RowsReceived
  <2> QED BY <1>0, <1>3, <2>1 DEF Arrive
<1>4. CASE Compose
  <2>1. PICK t \in Thread, stop \in BOOLEAN : File(t, stop) BY <1>4, ComposeFiles
  <2>2. PICK status : FiledUnder(t, status) BY <2>1 DEF File
  <2>3. worker.fax \in Fax BY <1>4 DEF Compose, InHand
  <2> QED BY <1>0, <2>2, <2>3 DEF FiledUnder, InboundRow
<1>5. CASE Gate
  BY <1>2, <1>5 DEF Gate, Ignore, InHand
<1>6. ASSUME NEW g \in Fax, Claim(g) \/ RequeueStale(g) \/ Redeliver(g) \/ Undeliverable(g)
      PROVE  inbound'[f].from = inbound[f].from /\ inbound'[f].day = inbound[f].day
  BY <1>1, <1>2, <1>6 DEF Claim, RequeueStale, Redeliver, Undeliverable
<1>7. CASE Dial \/ Close \/ Interrupted \/ NewDay \/ UNCHANGED vars
  BY <1>2, <1>7 DEF Dial, Close, Interrupted, NewDay, InHand, vars
<1> QED BY <1>3, <1>4, <1>5, <1>6, <1>7 DEF Next

(***************************************************************************)
(* The thread found and the opt-out.                                       *)
(***************************************************************************)
\* The part of IInv about the thread found and the opt-out.
Gates == FoundThread /\ PastOptOut /\ SilenceAfterStop

\* A worker that neither thinks nor dials.
LEMMA GatesElsewhere ==
    ASSUME PastOptOut, UNCHANGED thread, worker'.pc \notin {"think", "dial"}
    PROVE  Gates'
BY DEF Gates, PastOptOut, FoundThread, SilenceAfterStop, Of

\* A step that changes neither the worker nor the threads, nor whom the fax in
\* hand is from; days go by.
LEMMA GatesKept ==
    ASSUME TypeOK, Gates, UNCHANGED <<worker, thread>>, day' = day \/ day' = day + 1,
           worker.pc # "idle" => inbound'[worker.fax].from = inbound[worker.fax].from
    PROVE  Gates'
<1>1. PastOptOut' /\ SilenceAfterStop' BY DEF Gates, PastOptOut, SilenceAfterStop, Of
<1>2. FoundThread'
  <2>1. \A u \in Thread : thread[u].last \in Nat BY CapAssumption DEF TypeOK, ThreadRow, Days
  <2>2. day \in Nat BY CapAssumption DEF TypeOK, Days
  <2> QED BY <2>1, <2>2, CapAssumption DEF Gates, FoundThread, Of
<1> QED BY <1>1, <1>2 DEF Gates

\* The gates are passed by a number that has no thread opted out.
LEMMA GatesPassed == Filing /\ Gates /\ Gate => Gates'
<1> SUFFICES ASSUME Filing, Gates, Gate PROVE Gates' OBVIOUS
<1>1. UNCHANGED <<thread, day>> /\ worker \in WorkerState BY DEF Gate, Filing, TypeOK
<1>2. CASE \E status : Ignore(status)
  BY <1>1, <1>2, GatesElsewhere DEF Ignore, WorkerIdle, Gates
<1>3. CASE ~(\E status : Ignore(status))
  <2> DEFINE c == inbound[worker.fax].from
  <2>1. PICK t \in FindThreadByAni(c) :
           worker' = [worker EXCEPT !.pc = "think", !.found = t, !.day = day,
                                    !.capped = (ExchangesToday(c) = PerAniDailyCap + 1)]
    BY <1>3 DEF Gate
  <2>2. ~AniOptedOut(c) /\ UNCHANGED inbound BY <1>3 DEF Gate
  <2>3. worker'.pc = "think" /\ worker'.found = t /\ worker'.fax = worker.fax
    BY <1>1, <2>1 DEF WorkerState
  <2>4. PastOptOut' BY <1>1, <2>2, <2>3 DEF Gates, PastOptOut, AniOptedOut, Of
  <2>5. FoundThread'
    <3>1. t # NoThread => thread[t].caller = c BY FoundByAni DEF Of
    <3>2. t = NoThread => \A u \in Of(c) : thread[u].last + WindowDays <= day
      <4>1. \A u \in Thread : thread[u].last \in Nat
        BY CapAssumption DEF Filing, TypeOK, ThreadRow, Days
      <4>2. day \in Nat BY CapAssumption DEF Filing, TypeOK, Days
      <4> QED BY <4>1, <4>2, FoundByAni, CapAssumption DEF Of
    <3> QED BY <1>1, <2>2, <2>3, <3>1, <3>2 DEF FoundThread, Of
  <2>6. SilenceAfterStop' BY <2>3 DEF SilenceAfterStop
  <2> QED BY <2>4, <2>5, <2>6 DEF Gates
<1> QED BY <1>2, <1>3

\* When the worker dials, a thread of the number is opted out only if the fax
\* at hand said so.
LEMMA GatesComposed == Filing /\ Gates /\ Compose => Gates'
<1> SUFFICES ASSUME Filing, Gates, Compose PROVE Gates' OBVIOUS
<1> USE QueueAssumption
<1> DEFINE f == worker.fax
<1>0. /\ worker.pc = "think" /\ f \in Fax /\ inbound[f].from \in Caller
      /\ thread \in [Thread -> ThreadRow] /\ inbound \in [Fax -> InboundRow]
      /\ worker \in WorkerState
  BY DEF Compose, Filing, InHand, TypeOK
<1>1. PICK t \in Thread, stop \in BOOLEAN :
         /\ thread[t].caller = inbound[f].from \/ thread[t].caller = NoCaller
         /\ File(t, stop)
  BY ComposeFiles DEF Filing, Gates
<1>2. thread' = [thread EXCEPT ![t] =
                    [caller |-> inbound[f].from, last |-> day,
                     status |-> IF stop THEN "opted_out" ELSE thread[t].status]]
  BY <1>0, <1>1 DEF File, Touched
<1>3. inbound'[f].from = inbound[f].from BY <1>0, <1>1 DEF File, FiledUnder, InboundRow
<1>4. \/ worker'.pc = "idle"
      \/ worker'.pc = "dial" /\ worker'.stop = stop /\ worker'.fax = f
  <2>1. \/ worker' = WorkerIdle
        \/ worker' = [worker EXCEPT !.pc = "dial", !.stop = stop]
    BY <1>1 DEF File
  <2>2. CASE worker' = WorkerIdle BY <2>2 DEF WorkerIdle
  <2>3. CASE worker' = [worker EXCEPT !.pc = "dial", !.stop = stop]
    BY <1>0, <2>3, Dialling
  <2> QED BY <2>1, <2>2, <2>3
<1>5. FoundThread' BY <1>4 DEF FoundThread
<1>6. PastOptOut'
  <2>1. \A u \in Thread : thread'[u].caller = NoCaller => thread'[u] = thread[u]
    BY <1>0, <1>2
  <2> QED BY <1>4, <2>1 DEF Gates, PastOptOut, Of
<1>7. SilenceAfterStop'
  <2> SUFFICES ASSUME worker'.pc = "dial", NEW u \in Thread,
                      thread'[u].caller = inbound[f].from, thread'[u].status = "opted_out"
               PROVE  stop
      BY <1>3, <1>4 DEF SilenceAfterStop
  <2>1. CASE u = t BY <1>0, <1>1, <1>2, <2>1 DEF Gates, PastOptOut, Of
  <2>2. CASE u # t BY <1>0, <1>2, <2>2 DEF Gates, PastOptOut, Of
  <2> QED BY <2>1, <2>2
<1> QED BY <1>5, <1>6, <1>7 DEF Gates

\* Every step keeps what the gates decided true of the threads.
LEMMA GatesStep == Filing /\ Gates /\ [Next]_vars => Gates'
<1> SUFFICES ASSUME Filing, Gates, [Next]_vars PROVE Gates' OBVIOUS
<1>0. /\ PastOptOut /\ FoundThread
      /\ worker.pc # "idle" => inbound'[worker.fax].from = inbound[worker.fax].from
  BY Frame DEF Gates, Filing, InHand
<1>1. CASE NewDay \/ UNCHANGED vars
  BY <1>0, <1>1, GatesKept DEF NewDay, Filing, vars
<1>2. CASE Close \/ Interrupted \/ Dial
  <2>1. worker \in WorkerState BY DEF Filing, TypeOK
  <2>2. worker'.pc \in {"idle", "close"}
    BY <1>2, <2>1 DEF Close, Interrupted, Dial, WorkerIdle, WorkerState
  <2> QED BY <1>0, <1>2, <2>2, GatesElsewhere DEF Close, Interrupted, Dial
<1>3. ASSUME NEW f \in Fax, Arrive(f) \/ Redeliver(f) \/ RequeueStale(f) PROVE Gates'
  BY <1>0, <1>3, GatesKept DEF Arrive, Redeliver, RequeueStale, Filing
<1>4. ASSUME NEW f \in Fax, Claim(f) PROVE Gates'
  <2>1. worker'.pc = "work" BY <1>4 DEF Claim, WorkerIdle
  <2> QED BY <1>0, <1>4, <2>1, GatesElsewhere DEF Claim
<1>5. ASSUME NEW f \in Fax, Undeliverable(f) PROVE Gates'
  <2>1. /\ thread' = [thread EXCEPT ![outbound[f].thread].status = "undeliverable"]
        /\ UNCHANGED <<inbound, worker, day>> /\ thread \in [Thread -> ThreadRow]
    BY <1>5 DEF Undeliverable, Filing, TypeOK
  <2>2. \A u \in Thread : /\ thread'[u].caller = thread[u].caller
                          /\ thread'[u].last = thread[u].last
                          /\ thread'[u].status = thread[u].status
                             \/ thread'[u].status = "undeliverable"
    BY <2>1 DEF ThreadRow
  <2>3. FoundThread'
    <3>1. worker.found \in Thread \cup {NoThread} BY DEF Filing, TypeOK, WorkerState
    <3> QED BY <2>1, <2>2, <3>1 DEF Gates, FoundThread, Of
  <2>4. PastOptOut' BY <2>1, <2>2 DEF Gates, PastOptOut, Of
  <2>5. SilenceAfterStop' BY <2>1, <2>2 DEF Gates, SilenceAfterStop
  <2> QED BY <2>3, <2>4, <2>5 DEF Gates
<1> QED BY <1>1, <1>2, <1>3, <1>4, <1>5, GatesPassed, GatesComposed DEF Next

(***************************************************************************)
(* The cap.                                                                *)
(***************************************************************************)
\* The part of IInv about the cap.
Room == RoomLeft /\ CapPerCaller

\* Faxes answered, and the one at hand, are faxes.
LEMMA AnsweredFaxes ==
    \A c, d, kinds : Answered(c, d, kinds) \subseteq Fax /\ AtHand(d) \subseteq Fax
BY DEF Answered, Received, AtHand

\* What has been dialled stays what it was, and no fax that was answered is
\* received anew, or on another day, or taken back from among the given up.
NothingAnswered ==
    \A f \in Fax :
        /\ letters'[f] = letters[f]
        /\ \/ letters[f] = {}
           \/ /\ inbound'[f].from = inbound[f].from /\ inbound'[f].day = inbound[f].day
              /\ inbound[f].status \in Failed => inbound'[f].status \in Failed

\* Then no more faxes are answered than before, and where the worker goes on
\* with the same fax there is still room.
LEMMA RoomKept ==
    ASSUME Room, NothingAnswered,
           worker'.pc \in {"think", "dial"} =>
              /\ worker.pc \in {"think", "dial"}
              /\ worker'.fax = worker.fax /\ worker'.day = worker.day
              /\ worker'.capped = worker.capped
              /\ inbound'[worker.fax].from = inbound[worker.fax].from
              /\ inbound'[worker.fax].day = inbound[worker.fax].day
    PROVE  Room'
<1> USE CapAssumption DEF Room
<1>1. \A c, d, kinds : Answered(c, d, kinds)' \subseteq Answered(c, d, kinds)
  BY DEF NothingAnswered, Answered, Received
<1>2. CapPerCaller'
  <2> SUFFICES ASSUME NEW c \in Caller, NEW d \in Days
               PROVE  /\ Cardinality(Answered(c, d, {FALSE})') <= PerAniDailyCap
                      /\ Cardinality(Answered(c, d, BOOLEAN)') <= PerAniDailyCap + 1
      BY DEF CapPerCaller, Days
  <2>1. /\ Cardinality(Answered(c, d, {FALSE})) <= PerAniDailyCap
        /\ Cardinality(Answered(c, d, BOOLEAN)) <= PerAniDailyCap + 1
    BY DEF CapPerCaller
  <2>2. PerAniDailyCap + 1 \in Nat OBVIOUS
  <2> QED BY <1>1, <2>1, <2>2, AnsweredFaxes, CountBelow
<1>3. RoomLeft'
  <2> DEFINE c == inbound[worker.fax].from
             d == worker.day
  <2> SUFFICES ASSUME worker'.pc \in {"think", "dial"}
               PROVE  /\ Cardinality(Answered(c, d, BOOLEAN)' \cup AtHand(d)') <= PerAniDailyCap + 1
                      /\ ~worker.capped =>
                           Cardinality(Answered(c, d, {FALSE})' \cup AtHand(d)') <= PerAniDailyCap
      BY DEF RoomLeft, Answered, Received, AtHand
  <2>1. AtHand(d)' = AtHand(d) BY DEF AtHand
  <2>2. /\ Cardinality(Answered(c, d, BOOLEAN) \cup AtHand(d)) <= PerAniDailyCap + 1
        /\ ~worker.capped =>
             Cardinality(Answered(c, d, {FALSE}) \cup AtHand(d)) <= PerAniDailyCap
    BY DEF RoomLeft
  <2>3. \A kinds : /\ Answered(c, d, kinds) \cup AtHand(d) \in SUBSET Fax
                   /\ Answered(c, d, kinds)' \cup AtHand(d)'
                        \in SUBSET (Answered(c, d, kinds) \cup AtHand(d))
    BY <1>1, <2>1, AnsweredFaxes
  <2>4. PerAniDailyCap + 1 \in Nat OBVIOUS
  <2> QED BY <2>2, <2>3, <2>4, CountBelow
<1> QED BY <1>2, <1>3

\* The fax in hand is counted by the gate, with all that were answered that day.
LEMMA RoomPassed == Filing /\ Room /\ Gate => Room'
<1> SUFFICES ASSUME Filing, Room, Gate PROVE Room' OBVIOUS
<1> USE CapAssumption
<1> DEFINE f == worker.fax
           c == inbound[f].from
           count == ExchangesToday(c)
           S == {g \in Received(c) : inbound[g].day = day /\ inbound[g].status \notin Failed}
<1>0. /\ f \in Fax /\ inbound[f].status = "processing" /\ worker \in WorkerState
      /\ inbound \in [Fax -> InboundRow] /\ UNCHANGED <<letters, day>>
  BY DEF Gate, Filing, InHand, TypeOK
<1>1. CASE \E status \in {"ignored_optout", "ignored_cap"} : Ignore(status)
  <2>1. PICK status \in {"ignored_optout", "ignored_cap"} : Ignore(status) BY <1>1
  <2>2. NothingAnswered BY <1>0, <2>1 DEF Ignore, NothingAnswered, InboundRow, Failed
  <2>3. worker'.pc = "idle" BY <2>1 DEF Ignore, WorkerIdle
  <2> QED BY <2>2, <2>3, RoomKept
<1>2. CASE /\ count <= PerAniDailyCap + 1 /\ UNCHANGED inbound
           /\ \E t : worker' = [worker EXCEPT !.pc = "think", !.found = t, !.day = day,
                                              !.capped = (count = PerAniDailyCap + 1)]
  <2>1. PICK t : worker' = [worker EXCEPT !.pc = "think", !.found = t, !.day = day,
                                          !.capped = (count = PerAniDailyCap + 1)]
    BY <1>2
  <2>2. DOMAIN worker = {"pc", "fax", "found", "capped", "day", "stop"}
    BY <1>0 DEF WorkerState
  <2>3. worker'.pc = "think" /\ worker'.fax = f /\ worker'.day = day BY <2>1, <2>2
  <2>4. worker'.capped = (count = PerAniDailyCap + 1) BY <2>1, <2>2, Zenon
  <2>5. S \in SUBSET Fax /\ count = Cardinality(S) BY DEF ExchangesToday, Received
  <2>6. count \in Nat BY <2>5, CountFaxes
  <2>7. \A kinds : Answered(c, day, kinds) \cup AtHand(day) \in SUBSET S
    BY <1>0 DEF Answered, AtHand, Received, Failed
  <2>8. Cardinality(Answered(c, day, BOOLEAN) \cup AtHand(day)) <= PerAniDailyCap + 1
    BY <1>2, <2>5, <2>7, CountBelow
  <2>9. ~worker'.capped =>
           Cardinality(Answered(c, day, {FALSE}) \cup AtHand(day)) <= PerAniDailyCap
    <3>1. SUFFICES ASSUME ~worker'.capped
                   PROVE  Cardinality(Answered(c, day, {FALSE}) \cup AtHand(day)) <= PerAniDailyCap
      OBVIOUS
    <3>2. count # PerAniDailyCap + 1 BY <2>4, <3>1, Zenon
    <3>3. count <= PerAniDailyCap BY <1>2, <2>6, <3>2
    <3> QED BY <2>5, <2>7, <3>3, CountBelow
  <2>10. /\ UNCHANGED <<inbound, letters>>
         /\ AtHand(day)' = AtHand(day)
         /\ \A a, d, kinds : Answered(a, d, kinds)' = Answered(a, d, kinds)
    BY <1>0, <1>2, <2>3 DEF AtHand, Answered, Received
  <2>11. CapPerCaller'
    <3> SUFFICES ASSUME NEW a \in Caller, NEW d \in Days
                 PROVE  /\ Cardinality(Answered(a, d, {FALSE})') <= PerAniDailyCap
                        /\ Cardinality(Answered(a, d, BOOLEAN)') <= PerAniDailyCap + 1
        BY DEF CapPerCaller, Days
    <3>1. /\ Answered(a, d, {FALSE})' = Answered(a, d, {FALSE})
          /\ Answered(a, d, BOOLEAN)' = Answered(a, d, BOOLEAN)
      BY <2>10
    <3> QED BY <3>1 DEF Room, CapPerCaller
  <2>12. RoomLeft' BY <1>0, <2>3, <2>8, <2>9, <2>10 DEF RoomLeft, Answered, Received, AtHand
  <2> QED BY <2>11, <2>12 DEF Room
<1> QED BY <1>1, <1>2 DEF Gate

\* A letter is dialled only where there was room for it.
LEMMA RoomDialled == Filing /\ Room /\ Dial => Room'
<1> SUFFICES ASSUME Filing, Room, Dial PROVE Room' OBVIOUS
<1> USE CapAssumption
<1> DEFINE f == worker.fax
           letter == [capped |-> worker.capped, day |-> worker.day]
<1>0. /\ f \in Fax /\ worker.pc = "dial" /\ worker \in WorkerState /\ UNCHANGED inbound
      /\ letters \in [Fax -> SUBSET Letter] /\ letters' = [letters EXCEPT ![f] = @ \cup {letter}]
  BY DEF Dial, Filing, InHand, TypeOK
<1>1. worker'.pc \notin {"think", "dial"} BY <1>0 DEF Dial, WorkerIdle, WorkerState
<1>2. RoomLeft' BY <1>1 DEF RoomLeft
<1>3. ASSUME NEW c, NEW d, NEW kinds, ~(c = inbound[f].from /\ d = worker.day /\ worker.capped \in kinds)
      PROVE  Answered(c, d, kinds)' \subseteq Answered(c, d, kinds)
  <2> SUFFICES ASSUME NEW g \in Answered(c, d, kinds)' PROVE g \in Answered(c, d, kinds)
      OBVIOUS
  <2>1. /\ g \in Fax /\ inbound[g].from = c /\ inbound[g].day = d /\ inbound[g].status \notin Failed
        /\ \E l \in letters'[g] : l.day = d /\ l.capped \in kinds
    BY <1>0 DEF Answered, Received
  <2>2. PICK l \in letters'[g] : l.day = d /\ l.capped \in kinds BY <2>1
  <2>3. l \in letters[g] BY <1>0, <1>3, <2>1, <2>2
  <2> QED BY <2>1, <2>2, <2>3 DEF Answered, Received
<1>4. \A c, d, kinds : Answered(c, d, kinds)' \subseteq Answered(c, d, kinds) \cup AtHand(d)
  BY <1>0 DEF Answered, Received, AtHand
<1>5. CapPerCaller'
  <2> SUFFICES ASSUME NEW c \in Caller, NEW d \in Days
               PROVE  /\ Cardinality(Answered(c, d, {FALSE})') <= PerAniDailyCap
                      /\ Cardinality(Answered(c, d, BOOLEAN)') <= PerAniDailyCap + 1
      BY DEF CapPerCaller, Days
  <2>1. PerAniDailyCap + 1 \in Nat OBVIOUS
  <2>2. /\ Cardinality(Answered(c, d, {FALSE})) <= PerAniDailyCap
        /\ Cardinality(Answered(c, d, BOOLEAN)) <= PerAniDailyCap + 1
    BY DEF Room, CapPerCaller
  <2>3. \A kinds : Answered(c, d, kinds) \cup AtHand(d) \in SUBSET Fax BY AnsweredFaxes
  <2>4. Cardinality(Answered(c, d, {FALSE})') <= PerAniDailyCap
    <3>1. CASE c = inbound[f].from /\ d = worker.day /\ ~worker.capped
      <4>1. Cardinality(Answered(c, d, {FALSE}) \cup AtHand(d)) <= PerAniDailyCap
        BY <1>0, <3>1 DEF Room, RoomLeft
      <4> QED BY <1>4, <2>3, <4>1, CountBelow
    <3>2. CASE ~(c = inbound[f].from /\ d = worker.day /\ ~worker.capped)
      <4>1. worker.capped \in {FALSE} => ~worker.capped OBVIOUS
      <4>2. Answered(c, d, {FALSE})' \subseteq Answered(c, d, {FALSE}) BY <1>3, <3>2, <4>1
      <4> QED BY <2>2, <4>2, AnsweredFaxes, CountBelow
    <3> QED BY <3>1, <3>2
  <2>5. Cardinality(Answered(c, d, BOOLEAN)') <= PerAniDailyCap + 1
    <3>1. CASE c = inbound[f].from /\ d = worker.day
      <4>1. Cardinality(Answered(c, d, BOOLEAN) \cup AtHand(d)) <= PerAniDailyCap + 1
        BY <1>0, <3>1 DEF Room, RoomLeft
      <4> QED BY <1>4, <2>1, <2>3, <4>1, CountBelow
    <3>2. CASE ~(c = inbound[f].from /\ d = worker.day)
      <4>1. Answered(c, d, BOOLEAN)' \subseteq Answered(c, d, BOOLEAN) BY <1>3, <3>2
      <4> QED BY <2>1, <2>2, <4>1, AnsweredFaxes, CountBelow
    <3> QED BY <3>1, <3>2
  <2> QED BY <2>4, <2>5
<1> QED BY <1>2, <1>5 DEF Room

\* Every step keeps to the cap.
LEMMA RoomStep == Filing /\ Room /\ FoundThread /\ [Next]_vars => Room'
<1> SUFFICES ASSUME Filing, Room, FoundThread, [Next]_vars PROVE Room' OBVIOUS
<1> USE QueueAssumption
<1> DEFINE f == worker.fax
           InFlight == worker'.pc \in {"think", "dial"} =>
                          /\ worker.pc \in {"think", "dial"} /\ worker'.fax = worker.fax
                          /\ worker'.day = worker.day /\ worker'.capped = worker.capped
<1>0. /\ inbound \in [Fax -> InboundRow] /\ worker \in WorkerState
      /\ \A g \in Fax : inbound[g].from \in Caller =>
            inbound'[g].from = inbound[g].from /\ inbound'[g].day = inbound[g].day
      /\ worker.pc # "idle" => /\ f \in Fax /\ inbound[f].status = "processing"
                               /\ inbound[f].from \in Caller
      /\ \A g \in Fax : inbound[g].status # "unsent" => inbound[g].from \in Caller
      /\ \A g \in Fax : inbound[g].status \in {"unsent", "failed_download"} => letters[g] = {}
  BY Frame DEF Filing, TypeOK, InHand, RowsReceived, InboundRow
<1>1. ASSUME UNCHANGED letters, InFlight,
             \A g \in Fax : \/ inbound[g].status \in {"unsent", "failed_download"}
                            \/ inbound[g].status \in Failed => inbound'[g].status \in Failed
      PROVE  Room'
  <2>1. NothingAnswered BY <1>0, <1>1 DEF NothingAnswered
  <2> QED BY <1>0, <1>1, <2>1, RoomKept
<1>2. CASE Compose
  <2>1. PICK t \in Thread, stop \in BOOLEAN : File(t, stop)
    BY <1>2, ComposeFiles DEF Filing
  <2>2. PICK status \in {"processing", "capped", "replied"} : FiledUnder(t, status)
    BY <2>1 DEF File, Outcome
  <2>3. UNCHANGED letters /\ worker.pc = "think" BY <1>2 DEF Compose
  <2>4. InFlight
    <3>1. CASE worker' = WorkerIdle BY <3>1 DEF WorkerIdle
    <3>2. CASE worker' = [worker EXCEPT !.pc = "dial", !.stop = stop]
      BY <1>0, <2>3, <3>2, Dialling
    <3> QED BY <2>1, <3>1, <3>2 DEF File
  <2>5. \A g \in Fax : inbound[g].status \in Failed => inbound'[g].status = inbound[g].status
    BY <1>0, <2>2, <2>3 DEF FiledUnder, Failed, InboundRow
  <2> QED BY <1>1, <2>3, <2>4, <2>5
<1>3. CASE Close \/ Interrupted \/ NewDay \/ UNCHANGED vars
  <2>1. UNCHANGED letters /\ InFlight
    BY <1>3 DEF Close, Interrupted, NewDay, vars, WorkerIdle
  <2>2. \A g \in Fax : inbound[g].status \in Failed => inbound'[g].status = inbound[g].status
    BY <1>0, <1>3 DEF Close, Interrupted, NewDay, vars, Failed, InboundRow
  <2> QED BY <1>1, <2>1, <2>2
<1>4. ASSUME NEW g \in Fax, Claim(g) PROVE Room'
  <2>1. UNCHANGED letters /\ InFlight BY <1>4 DEF Claim, WorkerIdle
  <2>2. \A h \in Fax : inbound[h].status \in Failed => inbound'[h].status = inbound[h].status
    BY <1>0, <1>4 DEF Claim, Failed, InboundRow
  <2> QED BY <1>1, <2>1, <2>2
<1>5. ASSUME NEW g \in Fax, RequeueStale(g) \/ Arrive(g) \/ Redeliver(g) \/ Undeliverable(g)
      PROVE  Room'
  <2>1. UNCHANGED letters /\ InFlight
    BY <1>5 DEF RequeueStale, Arrive, Redeliver, Undeliverable
  <2>2. \A h \in Fax : \/ inbound[h].status \in {"unsent", "failed_download"}
                       \/ inbound[h].status \in Failed => inbound'[h].status = inbound[h].status
    BY <1>0, <1>5 DEF RequeueStale, Arrive, Redeliver, Undeliverable, Failed, InboundRow
  <2> QED BY <1>1, <2>1, <2>2
<1> QED BY <1>2, <1>3, <1>4, <1>5, RoomPassed, RoomDialled DEF Next

(***************************************************************************)
(* Who is refused.                                                         *)
(***************************************************************************)

\* What a number sent on a day is not taken back.
LEMMA ExceededStays ==
    ASSUME Filing, FoundThread, [Next]_vars, NEW c \in Caller, Exceeded(c)
    PROVE  Exceeded(c)'
<1>1. PICK d \in Days : ~(Cardinality(SentOn(c, d)) <= PerAniDailyCap) BY DEF Exceeded
<1>2. SentOn(c, d) \in SUBSET Fax /\ SentOn(c, d)' \in SUBSET Fax BY DEF SentOn, Received
<1>3. SentOn(c, d) \subseteq SentOn(c, d)' BY Frame DEF SentOn, Received
<1>4. ~(Cardinality(SentOn(c, d)') <= PerAniDailyCap)
  BY <1>1, <1>2, <1>3, CountBelow, CapAssumption
<1> QED BY <1>4 DEF Exceeded, Days

\* Every step refuses only whom the count shows to be over the cap.
LEMMA RefusedStep == Filing /\ RefusedExceeded /\ FoundThread /\ [Next]_vars => RefusedExceeded'
<1> SUFFICES ASSUME Filing, RefusedExceeded, FoundThread, [Next]_vars PROVE RefusedExceeded' OBVIOUS
<1> USE QueueAssumption, CapAssumption
<1> DEFINE f == worker.fax
           Refused == {"capped", "ignored_cap"}
           Past == {"think", "dial", "close"}
<1>0. /\ inbound \in [Fax -> InboundRow] /\ worker \in WorkerState
      /\ \A g \in Fax : inbound[g].status # "unsent" => inbound[g].from \in Caller
      /\ \A g \in Fax : inbound[g].from \in Caller => inbound'[g].from = inbound[g].from
      /\ worker.pc # "idle" => f \in Fax /\ inbound[f].from \in Caller
      /\ \A c \in Caller : Exceeded(c) => Exceeded(c)'
  BY Frame, ExceededStays DEF Filing, TypeOK, InHand, RowsReceived, InboundRow
\* It is enough that whoever is newly refused, or about to be, has exceeded the cap.
<1>1. ASSUME \A g \in Fax : inbound'[g].status \in Refused =>
                \/ inbound[g].status \in Refused
                \/ inbound[g].from \in Caller /\ Exceeded(inbound[g].from),
             worker'.pc \in Past /\ worker'.capped =>
                /\ worker'.fax = f /\ worker.pc # "idle"
                /\ Exceeded(inbound[f].from)
      PROVE  RefusedExceeded'
  <2>1. ASSUME NEW g \in Fax, inbound[g].from \in Caller, Exceeded(inbound[g].from)
        PROVE  Exceeded(inbound[g].from)'
    <3>1. PICK c \in Caller : c = inbound[g].from /\ c = inbound'[g].from BY <1>0, <2>1
    <3>2. Exceeded(c)' BY <1>0, <2>1, <3>1
    <3> QED BY <3>1, <3>2 DEF Exceeded, SentOn, Received
  <2>2. ASSUME NEW g \in Fax, inbound'[g].status \in Refused
        PROVE  Exceeded(inbound[g].from)'
    BY <1>0, <1>1, <2>1, <2>2 DEF RefusedExceeded
  <2>3. ASSUME worker'.pc \in Past, worker'.capped PROVE Exceeded(inbound[worker.fax].from)'
    <3>1. PICK g \in Fax : g = worker.fax /\ g = worker'.fax BY <1>0, <1>1, <2>3
    <3>2. Exceeded(inbound[g].from)' BY <1>0, <1>1, <2>1, <2>3, <3>1
    <3> QED BY <3>1, <3>2
  <2> QED BY <2>2, <2>3 DEF RefusedExceeded
<1>2. CASE Gate
  <2> DEFINE c == inbound[f].from
             count == ExchangesToday(c)
             S == {g \in Received(c) : inbound[g].day = day /\ inbound[g].status \notin Failed}
  <2>1. worker.pc = "work" /\ f \in Fax /\ c \in Caller BY <1>0, <1>2 DEF Gate
  <2>2. count > PerAniDailyCap => Exceeded(c)
    <3>1. S \in SUBSET SentOn(c, day) /\ SentOn(c, day) \in SUBSET Fax
      BY DEF SentOn, Received
    <3>2. day \in Days BY DEF Filing, TypeOK
    <3>3. count = Cardinality(S) BY DEF ExchangesToday
    <3>4. /\ Cardinality(S) \in Nat /\ Cardinality(SentOn(c, day)) \in Nat
          /\ Cardinality(S) <= Cardinality(SentOn(c, day))
      BY <3>1, CountFaxes
    <3> QED BY <3>2, <3>3, <3>4 DEF Exceeded
  <2>3. CASE \E status \in {"ignored_optout", "ignored_cap"} :
                Ignore(status) /\ (status = "ignored_cap" => count > PerAniDailyCap + 1)
    <3>1. PICK status \in {"ignored_optout", "ignored_cap"} :
             Ignore(status) /\ (status = "ignored_cap" => count > PerAniDailyCap + 1)
      BY <2>3
    <3>2. count \in Nat
      <4>1. S \in SUBSET Fax BY DEF Received
      <4> QED BY <4>1, CountFaxes DEF ExchangesToday
    <3>3. status = "ignored_cap" => Exceeded(c) BY <2>2, <3>1, <3>2
    <3>4. worker'.pc = "idle" BY <3>1 DEF Ignore, WorkerIdle
    <3>5. \A g \in Fax : inbound'[g].status \in Refused =>
             inbound[g].status \in Refused \/ (g = f /\ status = "ignored_cap")
      BY <1>0, <2>1, <3>1 DEF Ignore, InboundRow
    <3> QED BY <1>1, <2>1, <3>3, <3>4, <3>5
  <2>4. CASE /\ UNCHANGED inbound
             /\ \E t : worker' = [worker EXCEPT !.pc = "think", !.found = t, !.day = day,
                                                !.capped = (count = PerAniDailyCap + 1)]
    <3>1. PICK t : worker' = [worker EXCEPT !.pc = "think", !.found = t, !.day = day,
                                            !.capped = (count = PerAniDailyCap + 1)]
      BY <2>4
    <3>2. DOMAIN worker = {"pc", "fax", "found", "capped", "day", "stop"}
      BY <1>0 DEF WorkerState
    <3>3. worker'.fax = f BY <3>1, <3>2
    <3>4. worker'.capped = (count = PerAniDailyCap + 1) BY <3>1, <3>2, Zenon
    <3>5. worker'.capped => count = PerAniDailyCap + 1 BY <3>4, Zenon
    <3>6. worker'.capped => Exceeded(c) BY <2>2, <3>5
    <3> QED BY <1>1, <2>1, <2>4, <3>3, <3>6
  <2> QED BY <1>2, <2>3, <2>4 DEF Gate
<1>3. CASE Compose \/ Close
  <2>1. /\ f \in Fax /\ worker.pc \in Past
        /\ Outcome = "capped" <=> worker.capped
        /\ worker.capped => Exceeded(inbound[f].from)
    BY <1>0, <1>3 DEF Compose, Close, Outcome, RefusedExceeded
  <2>2. \A g \in Fax : inbound'[g].status \in Refused =>
           inbound[g].status \in Refused \/ (g = f /\ worker.capped)
    <3>1. CASE Close BY <1>0, <2>1, <3>1 DEF Close, Outcome, InboundRow
    <3>2. CASE Compose
      <4>1. PICK t \in Thread, stop \in BOOLEAN : File(t, stop)
        BY <3>2, ComposeFiles DEF Filing
      <4>2. PICK status \in {"processing", Outcome} : FiledUnder(t, status)
        BY <4>1 DEF File
      <4> QED BY <1>0, <2>1, <4>2 DEF FiledUnder, Outcome, InboundRow
    <3> QED BY <1>3, <3>1, <3>2
  <2>3. worker'.pc \in Past => worker'.fax = f /\ worker'.capped = worker.capped
    <3>1. CASE Close BY <3>1 DEF Close, WorkerIdle
    <3>2. CASE Compose
      <4>1. PICK t \in Thread, stop \in BOOLEAN : File(t, stop)
        BY <3>2, ComposeFiles DEF Filing
      <4>2. CASE worker' = WorkerIdle BY <4>2 DEF WorkerIdle
      <4>3. CASE worker' = [worker EXCEPT !.pc = "dial", !.stop = stop]
        BY <1>0, <4>3, Dialling
      <4> QED BY <4>1, <4>2, <4>3 DEF File
    <3> QED BY <1>3, <3>1, <3>2
  <2> QED BY <1>0, <1>1, <2>1, <2>2, <2>3
<1>4. CASE Dial \/ Interrupted \/ NewDay \/ UNCHANGED vars
  <2>1. UNCHANGED inbound BY <1>4 DEF Dial, Interrupted, NewDay, vars
  <2>2. worker'.pc \in Past => /\ worker'.fax = f /\ worker'.capped = worker.capped
                               /\ worker.pc \in Past
    BY <1>0, <1>4 DEF Dial, Interrupted, NewDay, vars, WorkerIdle, WorkerState
  <2> QED BY <1>1, <2>1, <2>2 DEF RefusedExceeded
<1>5. ASSUME NEW g \in Fax, \/ Claim(g) \/ RequeueStale(g) \/ Arrive(g)
                            \/ Redeliver(g) \/ Undeliverable(g)
      PROVE  RefusedExceeded'
  <2>1. \A h \in Fax : inbound'[h].status \in Refused => inbound[h].status \in Refused
    <3>1. CASE Claim(g) BY <1>0, <3>1 DEF Claim, InboundRow
    <3>2. CASE RequeueStale(g) BY <1>0, <3>2 DEF RequeueStale, Requeued, InboundRow
    <3>3. CASE Arrive(g) BY <1>0, <3>3 DEF Arrive, InboundRow
    <3>4. CASE Redeliver(g) \/ Undeliverable(g)
      BY <1>0, <3>4 DEF Redeliver, Undeliverable, InboundRow
    <3> QED BY <1>5, <3>1, <3>2, <3>3, <3>4
  <2>2. worker'.pc \in Past => UNCHANGED worker
    BY <1>5 DEF Claim, RequeueStale, Arrive, Redeliver, Undeliverable, WorkerIdle
  <2> QED BY <1>1, <2>1, <2>2 DEF RefusedExceeded
<1> QED BY <1>2, <1>3, <1>4, <1>5 DEF Next

(***************************************************************************)
(* The theorems.                                                           *)
(***************************************************************************)
\* The four parts together are preserved by every step.
LEMMA StepIInv == IInv /\ [Next]_vars => IInv'
BY FilingStep, GatesStep, RoomStep, RefusedStep DEF IInv, Filing, Gates, Room

\* IInv holds at every moment of every run.
THEOREM CorrespondenceInductive == Spec => []IInv
BY InitIInv, StepIInv, PTL DEF Spec

\* The rows and the worker's state have the types models.py and the code give
\* them; in particular no fax is claimed more often than max_process_attempts.
THEOREM RowsTyped == Spec => []TypeOK
<1>1. IInv => TypeOK BY DEF IInv
<1> QED BY <1>1, CorrespondenceInductive, PTL

\* However many numbers write, whatever they quote, and however often a fax is
\* processed, it and its letter stay under a thread of its sender.
THEOREM FiledWithItsSender == Spec => []CallerBound
<1>1. IInv => CallerBound BY DEF IInv
<1> QED BY <1>1, CorrespondenceInductive, PTL

\* A number with a thread opted out is dialled, as a first send, only for the
\* fax that said STOP.
THEOREM PermanentSilence == Spec => []SilenceAfterStop
<1>1. IInv => SilenceAfterStop BY DEF IInv
<1> QED BY <1>1, CorrespondenceInductive, PTL

\* For every cap, any number of faxes, days, crashes and lost answers: at most
\* PerAniDailyCap replies, and one letter more, to what a number sends in a day.
THEOREM CapPerCallerKept == Spec => []CapPerCaller
<1>1. IInv => CapPerCaller BY DEF IInv
<1> QED BY <1>1, CorrespondenceInductive, PTL

\* Nobody who keeps to the cap every day is told otherwise.
THEOREM NobodyWronged == Spec => []WithinAllotment
<1>1. IInv => WithinAllotment
  BY DEF IInv, RefusedExceeded, WithinAllotment, Exceeded, SentOn, Received
<1> QED BY <1>1, CorrespondenceInductive, PTL

\* A thread is opened for a number only when all its others have left the window.
THEOREM NoSplit == Spec => OneConversation
<1> DEFINE Opened == \A t \in Thread : thread[t].caller = NoCaller /\ thread'[t].caller # NoCaller =>
                        \A u \in Thread : thread[u].caller = thread'[t].caller =>
                            thread[u].last + WindowDays <= day
<1>1. IInv /\ [Next]_vars => [Opened]_vars
  <2> SUFFICES ASSUME IInv, [Next]_vars, NEW t \in Thread,
                      thread[t].caller = NoCaller, thread'[t].caller # NoCaller,
                      NEW u \in Thread, thread[u].caller = thread'[t].caller
               PROVE  thread[u].last + WindowDays <= day
      OBVIOUS
  <2>0. thread \in [Thread -> ThreadRow] BY DEF IInv, TypeOK
  <2>1. Compose
    <3>1. UNCHANGED thread => FALSE OBVIOUS
    <3>2. ASSUME NEW f \in Fax, Undeliverable(f) PROVE FALSE
      BY <2>0, <3>2 DEF Undeliverable, ThreadRow
    <3> QED BY <3>1, <3>2
        DEF Next, Claim, RequeueStale, Arrive, Redeliver, Gate, Dial, Close, Interrupted, NewDay, vars
  <2>2. PICK s \in Thread, stop \in BOOLEAN :
           /\ \/ thread[s].caller = inbound[worker.fax].from
              \/ thread[s].caller = NoCaller /\ worker.found = NoThread
           /\ File(s, stop)
    BY <2>1, ComposeFiles DEF IInv
  <2>3. s = t /\ thread'[t].caller = inbound[worker.fax].from
    BY <2>0, <2>2 DEF File, Touched
  <2>4. inbound[worker.fax].from # NoCaller
    BY <2>1, QueueAssumption DEF IInv, InHand, Compose
  <2>5. worker.found = NoThread BY <2>2, <2>3, <2>4
  <2> QED BY <2>1, <2>3, <2>5 DEF IInv, FoundThread, Compose, Of
<1> QED BY <1>1, CorrespondenceInductive, PTL DEF Spec, OneConversation
=============================================================================
