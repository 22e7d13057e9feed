--------------------------- MODULE StatusWebhook ----------------------------
(***************************************************************************)
(* The web process on outbound events (app/main.py telnyx_webhook and      *)
(* _update_outbound_status, delivery.handle_failure).  The handler is      *)
(* async with a synchronous body, so one event is handled at a time; it    *)
(* loads rows (WebLoad), commits what it changed (WebCommit) and then, in  *)
(* a second transaction, records the event (WebRecord).  The worker may    *)
(* commit between any two of these.                                        *)
(***************************************************************************)
EXTENDS OutboundTables

\* row, line: the outbound row and the thread status as loaded;
\* latest: the event is about the newest attempt of the row.
WebState == [pc : {"idle", "commit", "record"}, id : TelnyxId \cup {NoId},
             kind : Kinds, fax : Fax \cup {NoFax}, latest : BOOLEAN,
             row : OutboundRow, line : ThreadStatus]
WebIdle == [pc |-> "idle", id |-> NoId, kind |-> "queued", fax |-> NoFax,
            latest |-> FALSE, row |-> NoRow, line |-> "active"]

Rank == [queued |-> 1, sending |-> 2, busy |-> 3, voice |-> 3, delivered |-> 4]

\* Telnyx sends the event, or sends it again because it got no 200 for it.
\* Without Reordering it keeps the order of one call and stays behind the
\* commit that stores the id.
Deliverable(id, kind) ==
    /\ calls[id].fax # NoFax
    /\ kind \in calls[id].reports
    /\ ~Reordering =>
          /\ id \in outbound_attempts
          /\ \A k \in calls[id].reports :
                Rank[k] < Rank[kind] => <<id, k>> \in webhook_events

\* Mutant of Duplicate: no dedupe.
DuplicateNever(id, kind) == FALSE

\* The dedupe check of telnyx_webhook.
Duplicate(id, kind) == <<id, kind>> \in webhook_events

\* _update_outbound_status: which row an event concerns.  An id that is not in
\* the tables (yet) is unknown; an older attempt's event counts only when it
\* says "delivered".
ById(id) == {f \in Fax : outbound[f].fax_id = id}

\* Mutant of Superseded: an older attempt's event counts whatever it says.
SupersededAny(id, kind) == ById(id) = {} /\ id \in outbound_attempts

Superseded(id, kind) == /\ ById(id) = {}
                        /\ id \in outbound_attempts
                        /\ kind = "delivered"

WebLoad(id, kind) ==
    /\ web.pc = "idle"
    /\ Deliverable(id, kind)
    /\ ~Duplicate(id, kind)
    /\ LET f == calls[id].fax
           loaded == [WebIdle EXCEPT !.id = id, !.kind = kind]
       IN web' = IF ById(id) # {} \/ Superseded(id, kind)
                 THEN [loaded EXCEPT !.pc = "commit", !.fax = f, !.latest = ById(id) # {},
                                     !.row = outbound[f], !.line = thread[ThreadOf[f]]]
                 ELSE [loaded EXCEPT !.pc = "record"]
    /\ UNCHANGED <<tables, telnyx, today, over_budget, worker, due_ids, faults>>

StatusMap == [queued |-> "queued", sending |-> "sending", delivered |-> "delivered"]

\* handle_failure on the row as loaded: give up, or schedule the next retry.
FailureStatus(row, kind) ==
    IF Permanent(kind) \/ RetriesUsed(row) >= Backoffs
    THEN "failed_permanent" ELSE "retry_scheduled"

NewStatus(row, kind) ==
    IF kind \in {"busy", "voice"} THEN FailureStatus(row, kind) ELSE StatusMap[kind]

\* Mutant of NewRetryAt: the failure handler sets no date.
NewRetryAtUnset(stored, loaded, kind, latest) == stored

\* A retry date is always a new timestamp; NULL is written by a superseded
\* delivery only.
NewRetryAt(stored, loaded, kind, latest) ==
    IF kind = "busy" /\ FailureStatus(loaded, kind) = "retry_scheduled" THEN "later"
    ELSE IF latest THEN stored
    ELSE OrmWrite(stored, loaded.next_retry_at, "null")

Updated(stored, loaded, kind, latest) ==
    [stored EXCEPT
        !.status = OrmWrite(stored.status, loaded.status, NewStatus(loaded, kind)),
        !.next_retry_at = NewRetryAt(stored.next_retry_at, loaded, kind, latest)]

MarksUndeliverable == Permanent(web.kind) /\ web.line = "active"

WebCommit ==
    /\ web.pc = "commit"
    /\ outbound' = [outbound EXCEPT ![web.fax] = Updated(@, web.row, web.kind, web.latest)]
    /\ thread' = IF MarksUndeliverable
                 THEN [thread EXCEPT ![ThreadOf[web.fax]] = "undeliverable"]
                 ELSE thread
    /\ web' = [WebIdle EXCEPT !.pc = "record", !.id = web.id, !.kind = web.kind]
    /\ UNCHANGED <<inbound, outbound_attempts, webhook_events, telnyx, today,
                   over_budget, worker, due_ids, faults>>

WebRecord ==
    /\ web.pc = "record"
    /\ webhook_events' = webhook_events \cup {<<web.id, web.kind>>}
    /\ web' = WebIdle
    /\ UNCHANGED <<inbound, outbound, outbound_attempts, thread, telnyx, today,
                   over_budget, worker, due_ids, faults>>

\* A commit of the handler fails: 500, nothing recorded, Telnyx sends again.
WebError ==
    /\ web.pc # "idle"
    /\ faults < MaxFaults
    /\ faults' = faults + 1
    /\ web' = WebIdle
    /\ UNCHANGED <<tables, telnyx, today, over_budget, worker, due_ids>>

WebStep ==
    \/ \E id \in TelnyxId, kind \in Kinds : WebLoad(id, kind)
    \/ WebCommit
    \/ WebRecord

=============================================================================
