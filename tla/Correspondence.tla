--------------------------- MODULE Correspondence ---------------------------
(***************************************************************************)
(* Who is answered, how often, and in which thread: the gates and the      *)
(* filing of pipeline._process_one for several faxes and threads of one    *)
(* number over several days, with the counts of app/worker/policy.py.      *)
(*                                                                         *)
(* Sending is one step here (module Delivery has retries and webhooks);    *)
(* removals and the gallery are in module Records. The breaker only delays *)
(* a claim, and is left out.                                               *)
(***************************************************************************)
EXTENDS Naturals, FiniteSets

CONSTANTS
    Fax,      \* ids of inbound_faxes, in the order of arrival
    Caller, NoCaller,
    Thread,   \* ids of threads, in the order of creation (bound)
    NoFax, NoThread,
    PerAniDailyCap, WindowDays, MaxProcessAttempts,
    MaxDay,   \* bound: midnights
    MaxFaults \* bound: exchanges interrupted, answers lost

ASSUME QueueAssumption ==
    /\ IsFiniteSet(Fax) /\ Fax \subseteq Nat /\ NoFax \notin Fax
    /\ NoCaller \notin Caller
ASSUME ThreadsAssumption == Thread \subseteq Nat /\ NoThread \notin Thread
ASSUME CapAssumption ==
    /\ PerAniDailyCap \in Nat /\ WindowDays \in Nat
    /\ MaxProcessAttempts \in Nat \ {0} /\ MaxDay \in Nat /\ MaxFaults \in Nat

VARIABLES
    inbound,  \* inbound_faxes: [Fax -> [from, status, attempts, day, thread]]
    outbound, \* outbound_faxes: [Fax -> [status, thread]]
    thread,   \* threads: [Thread -> [caller, status, last]], last_activity_at as a day
    letters,  \* what was dialled for a fax: [Fax -> SUBSET Letter]
    worker,   \* local state of _process_one
    day,      \* the date (UTC)
    faults

vars == <<inbound, outbound, thread, letters, worker, day, faults>>

Days == 0..MaxDay
Status == {"unsent", "failed_download", "received", "processing", "ignored_optout",
           "ignored_cap", "capped", "replied", "failed_processing"}
InboundRow == [from : Caller \cup {NoCaller}, status : Status, attempts : 0..MaxProcessAttempts, day : Days,
               thread : Thread \cup {NoThread}]
OutboundRow == [status : {"none", "pending_send", "sent"}, thread : Thread \cup {NoThread}]
ThreadRow == [caller : Caller \cup {NoCaller}, status : {"active", "opted_out", "undeliverable"},
              last : Days]

\* day: that of the gates, when the letter's kind was decided.
Letter == [capped : BOOLEAN, day : Days]

\* found: the provisional thread; capped: the brain is not asked.
WorkerState == [pc : {"idle", "work", "think", "dial", "close"}, fax : Fax \cup {NoFax},
                found : Thread \cup {NoThread}, capped : BOOLEAN, day : Days, stop : BOOLEAN]
WorkerIdle == [pc |-> "idle", fax |-> NoFax, found |-> NoThread, capped |-> FALSE,
               day |-> 0, stop |-> FALSE]

Fault == faults < MaxFaults /\ faults' = faults + 1
Of(c) == {t \in Thread : thread[t].caller = c}
Received(c) == {f \in Fax : inbound[f].from = c}

(***************************************************************************)
(* Policy and the choice of a thread.                                      *)
(***************************************************************************)
\* Mutant of AniOptedOut: the thread in use is asked, not the number.
AniOptedOutRecently(c) ==
    \E t \in Of(c) : thread[t].status = "opted_out" /\ thread[t].last + WindowDays > day

AniOptedOut(c) == \E t \in Of(c) : thread[t].status = "opted_out"

Failed == {"failed_download", "failed_processing"}

\* Mutant of ExchangesToday: what was answered, without the fax in hand.
ExchangesAnswered(c) ==
    Cardinality({f \in Received(c) : inbound[f].day = day
                                     /\ inbound[f].status \in {"replied", "capped"}})

\* Mutant of ExchangesToday: not only those of today.
ExchangesEver(c) == Cardinality({f \in Received(c) : inbound[f].status \notin Failed})

\* Received since midnight, the fax in hand among them if it came today.
ExchangesToday(c) ==
    Cardinality({f \in Received(c) : inbound[f].day = day /\ inbound[f].status \notin Failed})

\* What _find_thread_by_ani may answer: the latest thread in the window. Of
\* threads last active on one day, or just WindowDays ago, either may be it.
FindThreadByAni(c) ==
    LET recent == {t \in Of(c) : thread[t].last + WindowDays >= day}
        latest == {t \in recent : \A u \in recent : thread[u].last <= thread[t].last} IN
    latest \cup (IF \E t \in Of(c) : thread[t].last + WindowDays > day THEN {} ELSE {NoThread})

\* Mutant of FindThreadByRef: whoever quotes it.
FindThreadByRefOpen(ref, c) == {t \in Thread : t = ref /\ thread[t].caller # NoCaller}

FindThreadByRef(ref, c) == {t \in Of(c) : t = ref}

\* Mutant of Resolve: a reference that is not on file loses the thread found.
ResolveByRefOnly(found, ref, c) ==
    IF ref = NoThread THEN {found} \ {NoThread} ELSE FindThreadByRef(ref, c)

\* Thread correction; the empty set asks for a new thread.
Resolve(found, ref, c) ==
    LET byRef == FindThreadByRef(ref, c) IN
    IF byRef # {} THEN byRef ELSE {found} \ {NoThread}

Unused == {t \in Of(NoCaller) : \A u \in Of(NoCaller) : t <= u}

(***************************************************************************)
(* The worker.                                                             *)
(***************************************************************************)
Claim(f) ==
    /\ worker.pc = "idle"
    /\ inbound[f].status = "received"
    /\ \A g \in Fax : inbound[g].status = "received" => f <= g
    /\ inbound' = [inbound EXCEPT ![f].status = "processing", ![f].attempts = @ + 1]
    /\ worker' = [WorkerIdle EXCEPT !.pc = "work", !.fax = f]
    /\ UNCHANGED <<outbound, thread, letters, day, faults>>

Ignore(status) ==
    /\ inbound' = [inbound EXCEPT ![worker.fax].status = status]
    /\ worker' = WorkerIdle

\* The policy gates and the provisional thread.
Gate ==
    LET c == inbound[worker.fax].from
        count == ExchangesToday(c) IN
    /\ worker.pc = "work"
    /\ \/ AniOptedOut(c) /\ Ignore("ignored_optout")
       \/ ~AniOptedOut(c) /\ count > PerAniDailyCap + 1 /\ Ignore("ignored_cap")
       \/ /\ ~AniOptedOut(c) /\ count <= PerAniDailyCap + 1
          /\ \E t \in FindThreadByAni(c) :
                worker' = [worker EXCEPT !.pc = "think", !.found = t, !.day = day,
                                         !.capped = (count = PerAniDailyCap + 1)]
          /\ UNCHANGED inbound
    /\ UNCHANGED <<outbound, thread, letters, day, faults>>

\* The rows of worker.fax once it is filed under t.
FiledUnder(t, status) ==
    inbound' = [inbound EXCEPT ![worker.fax].thread = t, ![worker.fax].status = status]
Touched(t, stop) ==
    thread' = [thread EXCEPT ![t] = [caller |-> inbound[worker.fax].from, last |-> day,
                                     status |-> IF stop THEN "opted_out" ELSE @.status]]

Outcome == IF worker.capped THEN "capped" ELSE "replied"

\* The letter is filed under t. A first send commits that with its intent, and
\* keeps the thread of an earlier intent; when a send is on record nothing is
\* dialled, and the filing is committed with the status.
File(t, stop) ==
    LET f == worker.fax IN
    /\ Touched(t, stop)
    /\ IF outbound[f].status = "sent"
       THEN /\ FiledUnder(t, Outcome)
            /\ worker' = WorkerIdle
            /\ UNCHANGED outbound
       ELSE /\ FiledUnder(t, "processing")
            /\ outbound' = IF outbound[f].status = "pending_send" THEN outbound
                  ELSE [outbound EXCEPT ![f] = [status |-> "pending_send", thread |-> t]]
            /\ worker' = [worker EXCEPT !.pc = "dial", !.stop = stop]

\* The letter is written, whatever the brain read: a reference, on file or not,
\* and STOP. (A denial or an oversize letter is one without STOP.)
Compose ==
    /\ worker.pc = "think"
    /\ \E ref \in Thread \cup {NoThread}, stop \in BOOLEAN :
          /\ worker.capped => ref = NoThread /\ ~stop
          /\ LET known == Resolve(worker.found, ref, inbound[worker.fax].from) IN
             \E t \in IF known # {} THEN known ELSE Unused : File(t, stop)
    /\ UNCHANGED <<letters, day, faults>>

\* The letter is accepted; its id is recorded, or the answer is lost.
Dial ==
    LET f == worker.fax IN
    /\ worker.pc = "dial"
    /\ letters' = [letters EXCEPT ![f] = @ \cup {[capped |-> worker.capped, day |-> worker.day]}]
    /\ \/ /\ outbound' = [outbound EXCEPT ![f].status = "sent"]
          /\ worker' = [worker EXCEPT !.pc = "close"]
          /\ UNCHANGED faults
       \/ /\ Fault
          /\ worker' = WorkerIdle
          /\ UNCHANGED outbound
    /\ UNCHANGED <<inbound, thread, day>>

Close ==
    /\ worker.pc = "close"
    /\ inbound' = [inbound EXCEPT ![worker.fax].status = Outcome]
    /\ worker' = WorkerIdle
    /\ UNCHANGED <<outbound, thread, letters, day, faults>>

\* Something raises, or the process dies: the fax stays in "processing".
Interrupted ==
    /\ worker.pc # "idle"
    /\ Fault
    /\ worker' = WorkerIdle
    /\ UNCHANGED <<inbound, outbound, thread, letters, day>>

\* Mutant of Requeued: one attempt too many.
RequeuedLate(row) == IF row.attempts > MaxProcessAttempts THEN "failed_processing" ELSE "received"

Requeued(row) == IF row.attempts >= MaxProcessAttempts THEN "failed_processing" ELSE "received"

RequeueStale(f) ==
    /\ worker.pc = "idle"
    /\ inbound[f].status = "processing"
    /\ inbound' = [inbound EXCEPT ![f].status = Requeued(inbound[f])]
    /\ UNCHANGED <<outbound, thread, letters, worker, day, faults>>

(***************************************************************************)
(* The web process and the calendar.                                       *)
(***************************************************************************)
\* fax.received from any number: the row is inserted, with or without its pages (module Intake).
Arrive(f) ==
    /\ inbound[f].status = "unsent"
    /\ \A g \in Fax : g < f => inbound[g].status # "unsent"
    /\ \E c \in Caller, status \in {"received", "failed_download"} :
          inbound' = [inbound EXCEPT ![f].from = c, ![f].status = status, ![f].day = day]
    /\ UNCHANGED <<outbound, thread, letters, worker, day, faults>>

\* The download succeeds at last; received_at stays.
Redeliver(f) ==
    /\ inbound[f].status = "failed_download"
    /\ inbound' = [inbound EXCEPT ![f].status = "received"]
    /\ UNCHANGED <<outbound, thread, letters, worker, day, faults>>

\* handle_failure on a letter of the thread (its race with an opt-out is in
\* module Delivery).
Undeliverable(f) ==
    LET t == outbound[f].thread IN
    /\ outbound[f].status = "sent"
    /\ thread[t].status = "active"
    /\ thread' = [thread EXCEPT ![t].status = "undeliverable"]
    /\ UNCHANGED <<inbound, outbound, letters, worker, day, faults>>

NewDay ==
    /\ day < MaxDay
    /\ day' = day + 1
    /\ UNCHANGED <<inbound, outbound, thread, letters, worker, faults>>

Init ==
    /\ inbound = [f \in Fax |-> [from |-> NoCaller, status |-> "unsent", attempts |-> 0,
                                 day |-> 0, thread |-> NoThread]]
    /\ outbound = [f \in Fax |-> [status |-> "none", thread |-> NoThread]]
    /\ thread = [t \in Thread |-> [caller |-> NoCaller, status |-> "active", last |-> 0]]
    /\ letters = [f \in Fax |-> {}]
    /\ worker = WorkerIdle
    /\ day = 0
    /\ faults = 0

Next ==
    \/ \E f \in Fax : \/ Claim(f) \/ RequeueStale(f)
                      \/ Arrive(f) \/ Redeliver(f) \/ Undeliverable(f)
    \/ Gate \/ Compose \/ Dial \/ Close \/ Interrupted
    \/ NewDay

Spec == Init /\ [][Next]_vars

TypeOK ==
    /\ inbound \in [Fax -> InboundRow]
    /\ outbound \in [Fax -> OutboundRow]
    /\ thread \in [Thread -> ThreadRow]
    /\ letters \in [Fax -> SUBSET Letter]
    /\ worker \in WorkerState
    /\ day \in Days
    /\ faults \in 0..MaxFaults

(***************************************************************************)
(* Properties.                                                             *)
(***************************************************************************)

\* A fax and its letter are filed under a thread of the sender's own number,
\* whatever reference it quotes and however often it is processed: nobody
\* joins, opts out or publishes under another's correspondence
\* (_find_thread_by_ref).
CallerBound ==
    \A f \in Fax : \A t \in {inbound[f].thread, outbound[f].thread} \ {NoThread} :
        thread[t].caller = inbound[f].from

\* "STOP honored with a farewell letter and permanent silence" (README.md): once
\* any thread of a number is opted out, however old, the only letter dialled to
\* the number as a first send is the farewell for the fax that said STOP.
SilenceAfterStop ==
    worker.pc = "dial" =>
        \A t \in Thread : thread[t].caller = inbound[worker.fax].from
                          /\ thread[t].status = "opted_out" => worker.stop

\* The faxes of c received on day d, not given up, that were dialled one of
\* these letters after gates passed on the same day.
Answered(c, d, kinds) ==
    {f \in Received(c) : /\ inbound[f].day = d /\ inbound[f].status \notin Failed
                         /\ \E l \in letters[f] : l.day = d /\ l.capped \in kinds}

\* Of the faxes a number sends in a day at most PerAniDailyCap get a reply that
\* day, and at most one more a letter at all, across crashes, reprocessing and
\* late downloads (_process_one, ani_exchanges_today).
CapPerCaller ==
    \A c \in Caller, d \in Days :
        /\ Cardinality(Answered(c, d, {FALSE})) <= PerAniDailyCap
        /\ Cardinality(Answered(c, d, BOOLEAN)) <= PerAniDailyCap + 1

\* A number that keeps to its allotment every day is never told that it has
\* exceeded it, nor ignored for it.
WithinAllotment ==
    \A c \in Caller :
        (\A d \in Days : Cardinality({f \in Received(c) : inbound[f].day = d}) <= PerAniDailyCap)
        => \A f \in Received(c) : inbound[f].status \notin {"capped", "ignored_cap"}

\* A correspondence goes on: no second thread is opened for a number while one
\* of its threads was active within the window, also when a quoted reference is
\* not on file, and when the exchange that opened it was interrupted.
OneConversation ==
    [][\A t \in Thread : thread[t].caller = NoCaller /\ thread'[t].caller # NoCaller =>
           \A u \in Thread : thread[u].caller = thread'[t].caller =>
               thread[u].last + WindowDays <= day]_vars
=============================================================================
