--------------------------- MODULE OutboundTables ---------------------------
(***************************************************************************)
(* What the worker and the status webhook share: the rows of               *)
(* inbound_faxes, outbound_faxes, outbound_attempts, threads and           *)
(* webhook_events, what Telnyx holds, and the decisions both processes     *)
(* take from them (app/models.py, app/worker/policy.py and the rules of    *)
(* app/worker/delivery.py).                                                *)
(*                                                                         *)
(* A correspondent (a caller's number) has one thread here.  A database    *)
(* transaction is one action.                                              *)
(***************************************************************************)
EXTENDS Naturals, FiniteSets

CONSTANTS
    Fax,                \* inbound faxes (each gets at most one reply row)
    Thread,             \* correspondence threads, one per caller number
    ThreadOf,           \* the thread each fax belongs to
    StopFax,            \* the faxes on which the caller wrote STOP
    TelnyxId,           \* ids Telnyx can give to a fax it accepts
    NoId, NoFax,        \* SQL NULL in a fax_id; no fax at all
    MaxProcessAttempts, \* settings.max_process_attempts
    Backoffs,           \* len(settings.retry_backoff_seconds)
    DailyCap,           \* settings.daily_outbound_fax_cap
    Histories,          \* the sets of webhook kinds Telnyx may send for one call
    Reordering,         \* webhooks may overtake each other and the worker's commit
    MaxFaults,          \* bound: process crashes and failed commits
    Days                \* whether midnight passes and money runs out

\* The webhook kinds told apart: fax.queued and fax.media.processed ("queued"),
\* fax.sending.started, fax.failed with a transient or a permanent reason
\* ("busy", "voice"), fax.delivered.
Kinds == {"queued", "sending", "busy", "voice", "delivered"}

ASSUME FaxAssumption == NoFax \notin Fax /\ NoId \notin TelnyxId
ASSUME ThreadAssumption == ThreadOf \in [Fax -> Thread] /\ StopFax \subseteq Fax
ASSUME LimitAssumption ==
    /\ MaxProcessAttempts \in Nat \ {0}
    /\ Backoffs \in Nat
    /\ DailyCap \in Nat
    /\ MaxFaults \in Nat
ASSUME HistoryAssumption == Histories \subseteq SUBSET Kinds
ASSUME SwitchAssumption == Reordering \in BOOLEAN /\ Days \in BOOLEAN

VARIABLES
    inbound,            \* inbound_faxes: [Fax -> [status, attempts]]
    outbound,           \* outbound_faxes, keyed by reply_to_fax_id
    outbound_attempts,  \* telnyx_fax_id of the rows of outbound_attempts
    thread,             \* threads.status
    webhook_events,     \* the events recorded, as <<fax id, kind>>
    calls,              \* Telnyx: who each id was dialled for, what it will report
    letters,            \* Telnyx: letters it accepted in answer to each fax
    today,              \* outbound_attempts rows created since midnight
    over_budget,        \* llm_spend_today_usd has reached daily_llm_budget_usd
    worker,             \* local state of the worker process
    due_ids,            \* the worker's list of retries to make
    web,                \* local state of the web process
    faults              \* crashes and failed commits so far

tables == <<inbound, outbound, outbound_attempts, thread, webhook_events>>
telnyx == <<calls, letters>>
vars == <<inbound, outbound, outbound_attempts, thread, webhook_events, calls,
          letters, today, over_budget, worker, due_ids, web, faults>>

InboundStatus == {"absent", "received", "processing", "replied",
                  "ignored_optout", "ignored_cap", "failed_processing"}
\* "none": no row has been inserted yet.
OutboundStatus == {"none", "pending_send", "queued", "sending", "delivered",
                   "retry_scheduled", "retrying", "failed_permanent"}
ThreadStatus == {"active", "opted_out", "undeliverable"}
\* next_retry_at: NULL, in the future, or past.
RetryAt == {"null", "later", "due"}

InboundRow == [status : InboundStatus, attempts : Nat]
OutboundRow == [status : OutboundStatus, fax_id : TelnyxId \cup {NoId},
                attempts : Nat, next_retry_at : RetryAt]
NoRow == [status |-> "none", fax_id |-> NoId, attempts |-> 0,
          next_retry_at |-> "null"]
NoCall == [fax |-> NoFax, reports |-> {}]

(***************************************************************************)
(* Policy decisions.                                                       *)
(***************************************************************************)

\* classify_failure
Permanent(kind) == kind = "voice"

\* outbound_faxes_today: rows of outbound_attempts created since midnight.
OutboundFaxesToday == today

\* Mutant of BreakerTripped: the cap is compared with > instead of >=.
BreakerTrippedLate == over_budget \/ OutboundFaxesToday > DailyCap

BreakerTripped == over_budget \/ OutboundFaxesToday >= DailyCap

AniOptedOut(f) == thread[ThreadOf[f]] = "opted_out"

\* handle_failure: retries already spent on this row.
RetriesUsed(row) == IF row.attempts > 0 THEN row.attempts - 1 ELSE 0

\* Mutant of Exhausted: one retry too many.
ExhaustedLate(row) == row.attempts > Backoffs + 1

\* A retry whose send failed, or that a crash interrupted, is the last one.
Exhausted(row) == row.attempts > Backoffs

\* The ORM writes a column only when it was given a value other than the one
\* loaded: the column then holds the new value, else whatever is stored.
OrmWrite(stored, loaded, new) == IF new = loaded THEN stored ELSE new

(***************************************************************************)
(* Telnyx accepts a letter for f under a fresh id; the webhooks that this  *)
(* call will cause are settled here and can arrive at any later time.      *)
(***************************************************************************)
FreshId == {id \in TelnyxId : calls[id].fax = NoFax}

Accept(f, id) ==
    /\ id \in FreshId
    /\ \E h \in Histories : calls' = [calls EXCEPT ![id] = [fax |-> f, reports |-> h]]
    /\ letters' = [letters EXCEPT ![f] = @ + 1]
    /\ UNCHANGED today

\* A row of outbound_attempts is inserted (part of the commit that stores the id).
LogAttempt(id) ==
    /\ outbound_attempts' = outbound_attempts \cup {id}
    /\ today' = today + 1

\* policy._start_of_today moves: the counts of "today" start again.
NewDay ==
    /\ Days
    /\ today > 0 \/ over_budget
    /\ today' = 0
    /\ over_budget' = FALSE
    /\ UNCHANGED <<tables, telnyx, worker, due_ids, web, faults>>

\* The web process commits a fax and its pages (module Intake has the details).
Arrive(f) ==
    /\ inbound[f].status = "absent"
    /\ inbound' = [inbound EXCEPT ![f].status = "received"]
    /\ UNCHANGED <<outbound, outbound_attempts, thread, webhook_events, telnyx,
                   today, over_budget, worker, due_ids, web, faults>>

\* The clock reaches next_retry_at.
BackoffElapses(f) ==
    /\ outbound[f].next_retry_at = "later"
    /\ outbound' = [outbound EXCEPT ![f].next_retry_at = "due"]
    /\ UNCHANGED <<inbound, outbound_attempts, thread, webhook_events, telnyx,
                   today, over_budget, worker, due_ids, web, faults>>

=============================================================================
