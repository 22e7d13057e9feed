------------------------------- MODULE Intake -------------------------------
(***************************************************************************)
(* How an inbound fax gets into the database (app/main.py telnyx_webhook   *)
(* and _handle_inbound_fax): Telnyx sends fax.received until it is         *)
(* acknowledged, the media URL expires meanwhile, the handler downloads    *)
(* the pages, writes a file and commits a row together with the event.     *)
(* retention.purge_expired takes the file away again after thirty days,    *)
(* retention.purge_thread at once when the sender faxes REMOVE.            *)
(*                                                                         *)
(* A handler is one request in one web process: its body never yields to   *)
(* the event loop, so there are as many handlers as there are processes.   *)
(***************************************************************************)
EXTENDS Naturals, FiniteSets

CONSTANTS
    Fax,        \* faxes that Telnyx received for us
    Event,      \* fax.received events; Telnyx may issue several for one fax
    FaxOf,      \* the fax an event announces
    Ignored,    \* faxes with an invalid id, or caught by the loop guard
    Media,      \* what the media URL of a fax leads to
    Handler,    \* web processes
    NoEvent,
    MaxFaults   \* bound: process crashes and failed writes

ASSUME EventAssumption == FaxOf \in [Event -> Fax] /\ NoEvent \notin Event
ASSUME MediaAssumption == Media \in [Fax -> {"pdf", "bad", "none"}] /\ Ignored \subseteq Fax
ASSUME FaultAssumption == MaxFaults \in Nat

VARIABLES
    row,            \* inbound_faxes: [Fax -> [status, pdf_path]]
    webhook_events, \* the events recorded
    disk,           \* faxes with a file in inbound_dir
    acked,          \* Telnyx: events answered with 200, not to be sent again
    live,           \* Telnyx: faxes whose media URL has not expired
    old,            \* faxes received more than retention_days ago
    handler,        \* local state of the handlers
    purge,          \* the purge at work: the rows it selected and unlinked
    removing,       \* the REMOVE fax whose thread the purge is about, if any
    removed,        \* history: faxes whose pages a REMOVE has unlinked
    faults

outside == <<acked, live, old>>
purges == <<purge, removing, removed>>
vars == <<row, webhook_events, disk, outside, handler, purges, faults>>

\* "answered": the worker has claimed the fax and closed it.
Status == {"absent", "received", "failed_download", "answered"}
Row == [status : Status, pdf_path : BOOLEAN]
NoRow == [status |-> "absent", pdf_path |-> FALSE]

\* loaded, staged: the row as the session read it and as it will be written.
Idle == [pc |-> "idle", event |-> NoEvent, loaded |-> NoRow, staged |-> NoRow]
HandlerState == [pc : {"idle", "download", "write", "fail", "record", "reply"},
                 event : Event \cup {NoEvent}, loaded : Row, staged : Row]
Stale(h) == row[FaxOf[handler[h].event]]

(***************************************************************************)
(* The commit of a session: an INSERT fails when the unique fax_id is      *)
(* taken, an UPDATE writes the columns that differ from those loaded.      *)
(***************************************************************************)
OrmWrite(stored, loaded, new) == IF new = loaded THEN stored ELSE new

Inserts(h) == handler[h].loaded = NoRow /\ handler[h].staged # NoRow
Conflict(h) == Inserts(h) /\ Stale(h) # NoRow

Written(h) ==
    LET loaded == handler[h].loaded
        staged == handler[h].staged
    IN  [status |-> OrmWrite(Stale(h).status, loaded.status, staged.status),
         pdf_path |-> OrmWrite(Stale(h).pdf_path, loaded.pdf_path, staged.pdf_path)]

CommitRow(h) == row' = [row EXCEPT ![FaxOf[handler[h].event]] = Written(h)]

(***************************************************************************)
(* telnyx_webhook                                                          *)
(***************************************************************************)
\* Mutant of Staging: a row already ingested is ingested again.
StagingAgain(f) ==
    IF f \in Ignored THEN [pc |-> "record", staged |-> row[f]]
    ELSE IF Media[f] = "none"
    THEN [pc |-> "record", staged |-> [NoRow EXCEPT !.status = "received"]]
    ELSE [pc |-> "download", staged |-> row[f]]

\* The body of a handler up to the download: which row it stages, and where it
\* goes on.  A row already ingested is left alone; a failed_download is tried
\* again; without a media URL the fax is received without pages.
Staging(f) ==
    IF f \in Ignored \/ row[f].status \notin {"absent", "failed_download"}
    THEN [pc |-> "record", staged |-> row[f]]
    ELSE IF Media[f] = "none"
    THEN [pc |-> "record",
          staged |-> IF row[f] = NoRow THEN [NoRow EXCEPT !.status = "received"] ELSE row[f]]
    ELSE [pc |-> "download", staged |-> row[f]]

Load(h, e) ==
    /\ handler[h].pc = "idle"
    /\ e \notin acked
    /\ FaxOf[e] \notin old
    /\ handler' = [handler EXCEPT ![h] =
           IF e \in webhook_events
           THEN [Idle EXCEPT !.pc = "reply", !.event = e]
           ELSE [pc |-> Staging(FaxOf[e]).pc, event |-> e, loaded |-> row[FaxOf[e]],
                 staged |-> Staging(FaxOf[e]).staged]]
    /\ UNCHANGED <<row, webhook_events, disk, outside, purges, faults>>

\* Mutant of Download: the pages are recorded without being written.
DownloadUnwritten(h) ==
    /\ handler[h].pc = "download"
    /\ FaxOf[handler[h].event] \in live
    /\ handler' = [handler EXCEPT ![h].pc = "record",
                                  ![h].staged = [status |-> "received", pdf_path |-> TRUE]]
    /\ UNCHANGED <<row, webhook_events, disk, outside, purges, faults>>

\* download_media returns a PDF, finds that it is none, or fails.
Download(h) ==
    LET f == FaxOf[handler[h].event] IN
    /\ handler[h].pc = "download"
    /\ f \in live
    /\ handler' = [handler EXCEPT
           ![h].pc = IF Media[f] = "pdf" THEN "write" ELSE "record",
           ![h].staged = IF Media[f] = "pdf"
                         THEN [status |-> "received", pdf_path |-> TRUE]
                         ELSE [@ EXCEPT !.status = "failed_download"]]
    /\ UNCHANGED <<row, webhook_events, disk, outside, purges, faults>>

\* Mutant of DownloadFails: acknowledge the failure like any other outcome.
DownloadGivenUp(h) ==
    /\ handler[h].pc = "download"
    /\ handler' = [handler EXCEPT ![h].pc = "record",
                                  ![h].staged = [@ EXCEPT !.status = "failed_download"]]
    /\ UNCHANGED <<row, webhook_events, disk, outside, purges, faults>>

DownloadFails(h) ==
    /\ handler[h].pc = "download"
    /\ handler' = [handler EXCEPT ![h].pc = "fail",
                                  ![h].staged = [@ EXCEPT !.status = "failed_download"]]
    /\ UNCHANGED <<row, webhook_events, disk, outside, purges, faults>>

\* The row is committed without its event and the answer is 503; an INSERT that
\* comes too late raises, and the answer is 500.
CommitFailure(h) ==
    /\ handler[h].pc = "fail"
    /\ IF Conflict(h) THEN UNCHANGED row ELSE CommitRow(h)
    /\ handler' = [handler EXCEPT ![h] = Idle]
    /\ UNCHANGED <<webhook_events, disk, outside, purges, faults>>

WriteFile(h) ==
    /\ handler[h].pc = "write"
    /\ disk' = disk \cup {FaxOf[handler[h].event]}
    /\ handler' = [handler EXCEPT ![h].pc = "record"]
    /\ UNCHANGED <<row, webhook_events, outside, purges, faults>>

\* Mutant of RecordEvent: webhook_events.event_id is not unique.
RecordEventAgain(h) ==
    /\ handler[h].pc = "record"
    /\ IF Conflict(h) THEN UNCHANGED row ELSE CommitRow(h)
    /\ webhook_events' = webhook_events \cup {handler[h].event}
    /\ handler' = [handler EXCEPT ![h].pc = "reply"]
    /\ UNCHANGED <<disk, outside, purges, faults>>

\* Row and event are committed together, or not at all: "duplicate".
RecordEvent(h) ==
    /\ handler[h].pc = "record"
    /\ IF Conflict(h) \/ handler[h].event \in webhook_events
       THEN UNCHANGED <<row, webhook_events>>
       ELSE /\ CommitRow(h)
            /\ webhook_events' = webhook_events \cup {handler[h].event}
    /\ handler' = [handler EXCEPT ![h].pc = "reply"]
    /\ UNCHANGED <<disk, outside, purges, faults>>

\* Mutant of Reply: the request is forgotten before it is answered.
ReplyForgotten(h) ==
    /\ handler[h].pc = "reply"
    /\ handler' = [handler EXCEPT ![h] = Idle]
    /\ acked' = acked \cup {handler'[h].event}
    /\ UNCHANGED <<row, webhook_events, disk, live, old, purges, faults>>

Reply(h) ==
    /\ handler[h].pc = "reply"
    /\ acked' = acked \cup {handler[h].event}
    /\ handler' = [handler EXCEPT ![h] = Idle]
    /\ UNCHANGED <<row, webhook_events, disk, live, old, purges, faults>>

\* The disk or the database refuses: 500, everything staged is rolled back.
HandlerError(h) ==
    /\ handler[h].pc \in {"write", "fail", "record"}
    /\ faults < MaxFaults
    /\ faults' = faults + 1
    /\ handler' = [handler EXCEPT ![h] = Idle]
    /\ UNCHANGED <<row, webhook_events, disk, outside, purges>>

HandlerStep(h) ==
    \/ \E e \in Event : Load(h, e)
    \/ Download(h) \/ DownloadFails(h) \/ CommitFailure(h)
    \/ WriteFile(h) \/ RecordEvent(h) \/ Reply(h)

(***************************************************************************)
(* The worker and the world.                                               *)
(***************************************************************************)
\* The final commit of an exchange, or the one gallery.unpublish makes in the
\* middle of a removal; module Delivery has what happens in between.
Answered(f) ==
    /\ row[f].status = "received"
    /\ row' = [row EXCEPT ![f].status = "answered"]
    /\ UNCHANGED <<webhook_events, disk, outside, handler, purges, faults>>

\* purge_expired unlinks the files of the old rows that have a path ...
Unlink ==
    /\ purge = {}
    /\ purge' = {f \in old : row[f].pdf_path}
    /\ purge' # {}
    /\ disk' = disk \ purge'
    /\ UNCHANGED <<row, webhook_events, outside, handler, removing, removed, faults>>

\* ... and purge_thread, for a REMOVE read from the pages of f, those of f and
\* of whatever else is filed under its thread, however young ...
UnlinkThread(f) ==
    /\ purge = {}
    /\ row[f] = [status |-> "received", pdf_path |-> TRUE]
    /\ f \in disk
    /\ \E others \in SUBSET {g \in Fax : row[g].pdf_path} : purge' = {f} \cup others
    /\ disk' = disk \ purge'
    /\ removing' = {f}
    /\ removed' = removed \cup purge'
    /\ UNCHANGED <<row, webhook_events, outside, handler, faults>>

\* ... and then it is committed that their paths are gone, together with the
\* outcome of the REMOVE fax.
CommitPurge ==
    /\ purge # {}
    /\ row' = [f \in Fax |->
           IF f \in purge
           THEN [status |-> IF f \in removing THEN "answered" ELSE row[f].status,
                 pdf_path |-> FALSE]
           ELSE row[f]]
    /\ purge' = {}
    /\ removing' = {}
    /\ UNCHANGED <<webhook_events, disk, outside, handler, removed, faults>>

\* The commit raises: the worker goes on without it.
PurgeError ==
    /\ purge # {}
    /\ faults < MaxFaults
    /\ faults' = faults + 1
    /\ purge' = {}
    /\ removing' = {}
    /\ UNCHANGED <<row, webhook_events, disk, outside, handler, removed>>

UrlExpires(f) ==
    /\ f \in live
    /\ live' = live \ {f}
    /\ UNCHANGED <<row, webhook_events, disk, acked, old, handler, purges, faults>>

\* Thirty days are far longer than a URL lives or Telnyx goes on redelivering.
Ages(f) ==
    /\ f \notin old
    /\ f \notin live
    /\ \A h \in Handler : handler[h].pc # "idle" => FaxOf[handler[h].event] # f
    /\ old' = old \cup {f}
    /\ UNCHANGED <<row, webhook_events, disk, acked, live, handler, purges, faults>>

Crash ==
    /\ faults < MaxFaults
    /\ faults' = faults + 1
    /\ handler' = [h \in Handler |-> Idle]
    /\ purge' = {}
    /\ removing' = {}
    /\ UNCHANGED <<row, webhook_events, disk, outside, removed>>

Init ==
    /\ row = [f \in Fax |-> NoRow]
    /\ webhook_events = {}
    /\ disk = {}
    /\ acked = {}
    /\ live = {f \in Fax : Media[f] # "none"}
    /\ old = {}
    /\ handler = [h \in Handler |-> Idle]
    /\ purge = {}
    /\ removing = {}
    /\ removed = {}
    /\ faults = 0

Next ==
    \/ \E h \in Handler : HandlerStep(h) \/ HandlerError(h)
    \/ \E f \in Fax : Answered(f) \/ UnlinkThread(f) \/ UrlExpires(f) \/ Ages(f)
    \/ Unlink \/ CommitPurge \/ PurgeError
    \/ Crash

Spec == Init /\ [][Next]_vars

\* A process that runs goes on; Telnyx redelivers what is not acknowledged, and
\* of many downloads from a URL that is still good one gets through; run.py
\* purges every hour.
Fairness ==
    /\ \A h \in Handler : WF_vars(HandlerStep(h)) /\ SF_vars(Download(h))
    /\ \A e \in Event : SF_vars(\E h \in Handler : Load(h, e))
    /\ WF_vars(Unlink) /\ WF_vars(CommitPurge)

FairSpec == Spec /\ Fairness

TypeOK ==
    /\ row \in [Fax -> Row]
    /\ webhook_events \subseteq Event
    /\ disk \subseteq Fax
    /\ acked \subseteq Event
    /\ live \subseteq Fax
    /\ old \subseteq Fax
    /\ handler \in [Handler -> HandlerState]
    /\ purge \subseteq Fax /\ removing \subseteq Fax /\ removed \subseteq Fax
    /\ faults \in Nat

(***************************************************************************)
(* Properties.                                                             *)
(***************************************************************************)

\* A 200 for a fax whose pages can be had means that they are filed, or were
\* until a purge, by age or by REMOVE: a failed download is never acknowledged,
\* whatever crashes (telnyx_webhook answers 503 and records nothing).  One web
\* process.
PagesAcknowledged ==
    \A e \in acked :
        LET f == FaxOf[e] IN
        Media[f] = "pdf" /\ f \notin Ignored =>
            /\ row[f].status \in {"received", "answered"}
            /\ row[f].pdf_path \/ f \in old \cup removed

\* A path in the database leads to a file until the fax is old enough to be
\* purged: the file is written before the row is committed.  Only a REMOVE takes
\* younger files, and its commit takes the paths; in between, and after a fault
\* in between, pipeline.py 215 finds the path without the file.  (One web
\* process, or one event for each fax.)
PathHasFile ==
    \A f \in Fax : row[f].pdf_path /\ f \notin old =>
        f \in disk \/ (f \in removed /\ (f \in purge \/ faults > 0))

\* Two processes that handle the same event at once do not undo each other: a
\* fax the worker has answered is not received again, and a fax received does
\* not become a failed download.  (The unique event_id and the columns the ORM
\* leaves out of the UPDATE see to it.)
NeverUndone ==
    [][\A f \in Fax :
          /\ row[f].status = "answered" => row'[f].status = "answered"
          /\ row[f].status = "received" => row'[f].status # "failed_download"]_vars

\* As long as the URL lives, redelivery brings the pages in, whatever downloads
\* fail or processes crash on the way; they may have been removed again since.
EventuallyFiled ==
    \A f \in {g \in Fax \ Ignored : Media[g] = "pdf"} :
        f \in live ~> row[f].pdf_path \/ f \notin live \/ f \in removed
=============================================================================
