------------------------------ MODULE Records -------------------------------
(***************************************************************************)
(* What the service keeps of an exchange and how it gives it up: page      *)
(* images, reply PDFs, transcripts, gallery items (app/gallery.py,         *)
(* app/worker/retention.py, the end of pipeline._process_one with          *)
(* _apply_removal, and the /admin/gallery routes of app/main.py).          *)
(*                                                                         *)
(* Files change at once, rows when the transaction commits; the worker and *)
(* the admin routes (threads of the web process) work on the same rows.    *)
(* How the letter is sent and which thread a fax belongs to is reduced to  *)
(* what matters here; Delivery has the sending.                            *)
(***************************************************************************)
EXTENDS Naturals, FiniteSets

CONSTANTS
    Fax, Thread, NoFax,
    ThreadOf,   \* the thread each fax is filed under
    RemoveFax,  \* the faxes that say REMOVE
    GalleryFax, \* the faxes with the GALLERY: YES box drawn
    Verdicts,   \* what may become of a fax whose pages can be read
    MaxFaults   \* bound: process crashes and failures of the worker

\* The letter: the brain's reply or denial; "lost", the denial when there are no
\* pages to read; "capped" for the letters of fixed text, oversize ones included.
\* Only the first two hold, and are filed with, what was read in the pages.
FromPages == {"reply", "denied"}
Kind == FromPages \cup {"lost", "capped"}

ASSUME FilingAssumption ==
    /\ ThreadOf \in [Fax -> Thread]
    /\ RemoveFax \subseteq Fax /\ GalleryFax \subseteq Fax
    /\ NoFax \notin Fax
    /\ Verdicts \subseteq Kind \ {"lost"} /\ Verdicts # {}
ASSUME BoundAssumption == MaxFaults \in Nat

VARIABLES
    inbound,      \* inbound_faxes: [Fax -> [status, filed, pdf_path, transcript]]
    outbound,     \* outbound_faxes.status: [Fax -> OutboundStatus]
    thread,       \* threads: [Thread -> [flagged, removal]]; removal_requested_at
                  \* is the set of faxes it is later than (none: NULL)
    item,         \* gallery_items: [Fax -> [status, slug]]
    inbound_dir,  \* files: faxes whose pages are on disk
    media_dir,    \* files: faxes whose reply PDF is on disk
    gallery_dir,  \* files: faxes whose published page images are on disk
    old,          \* faxes received more than retention_days ago
    worker,       \* local state of the worker process
    admin,        \* local state of the moderator's request
    purged,       \* history: letters whose PDF a REMOVE took, not rendered since
    faults

rows == <<inbound, outbound, thread, item>>
files == <<inbound_dir, media_dir, gallery_dir>>
vars == <<rows, files, old, worker, admin, purged, faults>>

\* "pending": no send recorded; "open": sent, not final; "closed": delivered or
\* failed_permanent; "reopened": closed, and then put back into the retries.
OutboundStatus == {"none", "pending", "open", "closed", "reopened"}
ItemStatus == {"none", "pending", "approved", "rejected", "removed"}
\* transcript: summary or reply text of what was read in the pages.
InboundRow == [status : {"received", "processing", "replied", "ignored", "failed_processing"},
               filed : BOOLEAN, pdf_path : BOOLEAN, transcript : BOOLEAN]

\* items: what the session selected and has not written yet (gallery items to
\* withdraw, rows to expire); slugs: which of the gallery items had a slug.
WorkerState == [pc : {"idle", "work", "send", "sent", "withdraw", "purge", "expire"},
                fax : Fax \cup {NoFax}, kind : Kind,
                items : SUBSET Fax, slugs : SUBSET Fax]
WorkerIdle == [pc |-> "idle", fax |-> NoFax, kind |-> "capped", items |-> {}, slugs |-> {}]
AdminState == [pc : {"idle", "approve", "publish", "reject", "unpublish"}, fax : Fax \cup {NoFax}]
AdminIdle == [pc |-> "idle", fax |-> NoFax]

Goto(pc) == worker' = [worker EXCEPT !.pc = pc]
Mates(f) == {g \in Fax : ThreadOf[g] = ThreadOf[f]}

\* thread_id is committed with the reply: only these rows are found by thread.
Filed(f) == {g \in Mates(f) : inbound[g].filed \/ g = f}

(***************************************************************************)
(* The worker: from the brain's verdict to the final commit.               *)
(***************************************************************************)
Claim(f) ==
    /\ worker.pc = "idle"
    /\ inbound[f].status = "received"
    /\ inbound' = [inbound EXCEPT ![f].status = "processing"]
    /\ worker' = [WorkerIdle EXCEPT !.pc = "work", !.fax = f]
    /\ UNCHANGED <<outbound, thread, item, files, old, admin, purged, faults>>

\* Mutant of Requeue: faxes closed meanwhile are requeued, too.
RequeueClosed(f) ==
    /\ worker.pc = "idle"
    /\ inbound[f].status \in {"processing", "replied"}
    /\ \E status \in {"received", "failed_processing"} :
          inbound' = [inbound EXCEPT ![f].status = status]
    /\ UNCHANGED <<outbound, thread, item, files, old, worker, admin, purged, faults>>

\* requeue_stale, or giving up when the attempts are spent.
Requeue(f) ==
    /\ worker.pc = "idle"
    /\ inbound[f].status = "processing"
    /\ \E status \in {"received", "failed_processing"} :
          inbound' = [inbound EXCEPT ![f].status = status]
    /\ UNCHANGED <<outbound, thread, item, files, old, worker, admin, purged, faults>>

\* What _process_one staged before the letter: thread, summary, reply text.
FiledRow(row, kind) == [row EXCEPT !.filed = TRUE, !.transcript = kind \in FromPages]
FlaggedBy(f, kind) ==
    [thread EXCEPT ![ThreadOf[f]].flagged = @ \/ (kind \in {"denied", "lost"})]

\* The brain reads the pages if they are still there, the reply is rendered,
\* and send_reply commits its intent unless a prior send is recorded.
Compose ==
    LET f == worker.fax IN
    /\ worker.pc = "work"
    /\ \E kind \in IF inbound[f].pdf_path /\ f \in inbound_dir THEN Verdicts
                  ELSE {"lost"} \cup (Verdicts \ FromPages) :
          /\ media_dir' = media_dir \cup {f}
          /\ purged' = purged \ {f}
          /\ IF outbound[f] \notin {"none", "pending"}
             THEN /\ worker' = [worker EXCEPT !.pc = "sent", !.kind = kind]
                  /\ UNCHANGED <<inbound, outbound, thread>>
             ELSE /\ worker' = [worker EXCEPT !.pc = "send", !.kind = kind]
                  /\ inbound' = [inbound EXCEPT ![f] = FiledRow(@, kind)]
                  /\ outbound' = [outbound EXCEPT ![f] = "pending"]
                  /\ thread' = FlaggedBy(f, kind)
    /\ UNCHANGED <<item, inbound_dir, gallery_dir, old, admin, faults>>

\* The gates before the brain: an opted-out or over-cap sender is not answered.
Ignore ==
    /\ worker.pc = "work"
    /\ inbound' = [inbound EXCEPT ![worker.fax].status = "ignored"]
    /\ worker' = WorkerIdle
    /\ UNCHANGED <<outbound, thread, item, files, old, admin, purged, faults>>

Removes == worker.fax \in RemoveFax /\ worker.kind = "reply"

Send ==
    /\ worker.pc = "send"
    /\ outbound' = [outbound EXCEPT ![worker.fax] = "open"]
    /\ Goto("sent")
    /\ UNCHANGED <<inbound, thread, item, files, old, admin, purged, faults>>

\* The brain, the renderer or the call to Telnyx raises: rolled back, and the
\* fax stays "processing" for the stale sweep.
ExchangeFails ==
    /\ worker.pc \in {"work", "send"}
    /\ worker' = WorkerIdle
    /\ UNCHANGED <<rows, files, old, admin, purged, faults>>

\* The stamp of the removal that is committed for f.
Stamped(f) == [thread EXCEPT ![ThreadOf[f]].removal = Filed(f)]

\* _apply_removal selects the items to withdraw.
StartRemoval ==
    LET live == {g \in Mates(worker.fax) : item[g].status \in {"pending", "approved"}} IN
    /\ worker.pc = "sent"
    /\ Removes
    /\ worker' = [worker EXCEPT !.pc = "withdraw", !.items = live,
                                !.slugs = {g \in live : item[g].slug}]
    /\ UNCHANGED <<rows, files, old, admin, purged, faults>>

\* gallery.unpublish commits, and with it everything that _process_one and
\* _apply_removal have staged so far: the status, the stamp, the filing.
Withdraw(g) ==
    LET f == worker.fax IN
    /\ worker.pc = "withdraw"
    /\ g \in worker.items
    /\ gallery_dir' = IF g \in worker.slugs THEN gallery_dir \ {g} ELSE gallery_dir
    /\ item' = [item EXCEPT ![g].status = "removed"]
    /\ inbound' = [inbound EXCEPT ![f] = [FiledRow(@, worker.kind) EXCEPT !.status = "replied"]]
    /\ thread' = Stamped(f)
    /\ worker' = [worker EXCEPT !.items = @ \ {g}]
    /\ UNCHANGED <<outbound, inbound_dir, media_dir, old, admin, purged, faults>>

\* Mutant of PurgeThread: letters still to be fetched go too.
PurgeThreadWhole ==
    LET f == worker.fax IN
    /\ worker.pc = "withdraw"
    /\ worker.items = {}
    /\ inbound_dir' = inbound_dir \ {g \in Filed(f) : inbound[g].pdf_path}
    /\ media_dir' = media_dir \ Filed(f)
    /\ purged' = purged \cup Filed(f)
    /\ Goto("purge")
    /\ UNCHANGED <<rows, gallery_dir, old, admin, faults>>

\* Mutant of PurgeThread: the earlier faxes of the thread are forgotten.
PurgeThreadLast ==
    LET closed == {g \in Filed(worker.fax) : outbound[g] = "closed"} IN
    /\ worker.pc = "withdraw"
    /\ worker.items = {}
    /\ inbound_dir' = inbound_dir \ {worker.fax}
    /\ media_dir' = media_dir \ closed
    /\ purged' = purged \cup closed
    /\ Goto("purge")
    /\ UNCHANGED <<rows, gallery_dir, old, admin, faults>>

\* retention.purge_thread unlinks the pages of all faxes of the thread and its
\* final letters; what becomes of the rows waits for the commit.
PurgeThread ==
    LET filed == Filed(worker.fax)
        closed == {g \in filed : outbound[g] = "closed"}
    IN  /\ worker.pc = "withdraw"
        /\ worker.items = {}
        /\ inbound_dir' = inbound_dir \ {g \in filed : inbound[g].pdf_path}
        /\ media_dir' = media_dir \ closed
        /\ purged' = purged \cup closed
        /\ Goto("purge")
        /\ UNCHANGED <<rows, gallery_dir, old, admin, faults>>

CommitRemoval ==
    LET f == worker.fax IN
    /\ worker.pc = "purge"
    /\ inbound' = [g \in Fax |->
           [inbound[g] EXCEPT
               !.status = IF g = f THEN "replied" ELSE @,
               !.filed = @ \/ g = f,
               !.pdf_path = @ /\ g \notin Filed(f),
               !.transcript = @ /\ g \notin Filed(f)]]
    /\ thread' = Stamped(f)
    /\ worker' = WorkerIdle
    /\ UNCHANGED <<outbound, item, files, old, admin, purged, faults>>

\* Gallery opt-in: clean replies in clean threads only.
OptsIn(f) == /\ f \in GalleryFax
             /\ worker.kind = "reply"
             /\ ~thread[ThreadOf[f]].flagged

\* Mutant of Close: the status is left to a later commit.
CloseWithoutStatus ==
    LET f == worker.fax IN
    /\ worker.pc = "sent"
    /\ ~Removes
    /\ inbound' = [inbound EXCEPT ![f] = FiledRow(@, worker.kind)]
    /\ thread' = FlaggedBy(f, worker.kind)
    /\ item' = IF OptsIn(f) THEN [item EXCEPT ![f] = [status |-> "pending", slug |-> FALSE]]
                            ELSE item
    /\ worker' = WorkerIdle
    /\ UNCHANGED <<outbound, files, old, admin, purged, faults>>

\* The final commit of an exchange without a removal. (A second item for one fax
\* would break the unique inbound_fax_id and raise; here it would overwrite the
\* first, and ItemOnce says that it does not come to that.)
Close ==
    LET f == worker.fax IN
    /\ worker.pc = "sent"
    /\ ~Removes
    /\ inbound' = [inbound EXCEPT ![f] = [FiledRow(@, worker.kind) EXCEPT !.status = "replied"]]
    /\ thread' = FlaggedBy(f, worker.kind)
    /\ item' = IF OptsIn(f) THEN [item EXCEPT ![f] = [status |-> "pending", slug |-> FALSE]]
                            ELSE item
    /\ worker' = WorkerIdle
    /\ UNCHANGED <<outbound, files, old, admin, purged, faults>>

(***************************************************************************)
(* run.py, every hour: purge_expired unlinks, then commits.                *)
(***************************************************************************)
PurgeExpired ==
    /\ worker.pc = "idle"
    /\ inbound_dir' = inbound_dir \ {f \in old : inbound[f].pdf_path}
    /\ media_dir' = media_dir \ {f \in old : outbound[f] = "closed"}
    /\ worker' = [WorkerIdle EXCEPT !.pc = "expire", !.items = {f \in old : inbound[f].pdf_path}]
    /\ UNCHANGED <<rows, gallery_dir, old, admin, purged, faults>>

\* Mutant of CommitExpired: the rows are selected again for the update.
CommitExpiredAnew ==
    /\ worker.pc = "expire"
    /\ inbound' = [f \in Fax |-> IF f \in old THEN [inbound[f] EXCEPT !.pdf_path = FALSE]
                                              ELSE inbound[f]]
    /\ worker' = WorkerIdle
    /\ UNCHANGED <<outbound, thread, item, files, old, admin, purged, faults>>

CommitExpired ==
    /\ worker.pc = "expire"
    /\ inbound' = [f \in Fax |-> IF f \in worker.items THEN [inbound[f] EXCEPT !.pdf_path = FALSE]
                                                       ELSE inbound[f]]
    /\ worker' = WorkerIdle
    /\ UNCHANGED <<outbound, thread, item, files, old, admin, purged, faults>>

\* A file or the database refuses once the letter is sent, or during a purge: what
\* is not committed is rolled back, and the loop goes on.
WorkerError ==
    /\ worker.pc \in {"sent", "withdraw", "purge", "expire"}
    /\ faults < MaxFaults
    /\ faults' = faults + 1
    /\ worker' = WorkerIdle
    /\ UNCHANGED <<rows, files, old, admin, purged>>

(***************************************************************************)
(* The moderator: each route checks the status it loaded, then acts.       *)
(***************************************************************************)
Moderate(f) ==
    /\ admin = AdminIdle
    /\ \E route \in {"approve", "reject", "unpublish"} :
          /\ item[f].status = (IF route = "unpublish" THEN "approved" ELSE "pending")
          /\ admin' = [pc |-> route, fax |-> f]
    /\ UNCHANGED <<rows, files, old, worker, purged, faults>>

\* gallery.approve rasterizes what files there are, which takes seconds ...
Rasterize ==
    /\ admin.pc = "approve"
    /\ LET f == admin.fax IN
       gallery_dir' = IF (inbound[f].pdf_path /\ f \in inbound_dir) \/ f \in media_dir
                      THEN gallery_dir \cup {f} ELSE gallery_dir
    /\ admin' = [admin EXCEPT !.pc = "publish"]
    /\ UNCHANGED <<rows, inbound_dir, media_dir, old, worker, purged, faults>>

\* ... and then commits over whatever the row says by now.
Publish ==
    /\ admin.pc = "publish"
    /\ item' = [item EXCEPT ![admin.fax] = [status |-> "approved", slug |-> TRUE]]
    /\ admin' = AdminIdle
    /\ UNCHANGED <<inbound, outbound, thread, files, old, worker, purged, faults>>

Reject ==
    /\ admin.pc = "reject"
    /\ item' = [item EXCEPT ![admin.fax].status = "rejected"]
    /\ admin' = AdminIdle
    /\ UNCHANGED <<inbound, outbound, thread, files, old, worker, purged, faults>>

\* Mutant of Unpublish: a status no query knows.
UnpublishOdd ==
    /\ admin.pc = "unpublish"
    /\ gallery_dir' = gallery_dir \ {admin.fax}
    /\ item' = [item EXCEPT ![admin.fax].status = "unpublished"]
    /\ admin' = AdminIdle
    /\ UNCHANGED <<inbound, outbound, thread, inbound_dir, media_dir, old, worker, purged, faults>>

Unpublish ==
    /\ admin.pc = "unpublish"
    /\ gallery_dir' = gallery_dir \ {admin.fax}
    /\ item' = [item EXCEPT ![admin.fax].status = "removed"]
    /\ admin' = AdminIdle
    /\ UNCHANGED <<inbound, outbound, thread, inbound_dir, media_dir, old, worker, purged, faults>>

(***************************************************************************)
(* The world.                                                              *)
(***************************************************************************)
\* The letter is delivered or given up (module Delivery).
Settle(f) ==
    /\ outbound[f] \in {"open", "reopened"}
    /\ outbound' = [outbound EXCEPT ![f] = "closed"]
    /\ UNCHANGED <<inbound, thread, item, files, old, worker, admin, purged, faults>>

\* A late fax.failed puts it back to retry_scheduled (module StatusWebhook).
Reopen(f) ==
    /\ outbound[f] = "closed"
    /\ outbound' = [outbound EXCEPT ![f] = "reopened"]
    /\ UNCHANGED <<inbound, thread, item, files, old, worker, admin, purged, faults>>

Age(f) ==
    /\ f \notin old
    /\ inbound[f].status \in {"replied", "ignored", "failed_processing"}
    /\ old' = old \cup {f}
    /\ UNCHANGED <<rows, files, worker, admin, purged, faults>>

Crash ==
    /\ faults < MaxFaults
    /\ faults' = faults + 1
    /\ worker' = WorkerIdle
    /\ admin' = AdminIdle
    /\ UNCHANGED <<rows, files, old, purged>>

Init ==
    /\ inbound = [f \in Fax |-> [status |-> "received", filed |-> FALSE,
                                 pdf_path |-> TRUE, transcript |-> FALSE]]
    /\ outbound = [f \in Fax |-> "none"]
    /\ thread = [t \in Thread |-> [flagged |-> FALSE, removal |-> {}]]
    /\ item = [f \in Fax |-> [status |-> "none", slug |-> FALSE]]
    /\ inbound_dir = Fax
    /\ media_dir = {}
    /\ gallery_dir = {}
    /\ old = {}
    /\ worker = WorkerIdle
    /\ admin = AdminIdle
    /\ purged = {}
    /\ faults = 0

WorkerStep ==
    \/ \E f \in Fax : Claim(f) \/ Requeue(f) \/ Withdraw(f)
    \/ Ignore \/ Compose \/ Send \/ ExchangeFails \/ StartRemoval \/ PurgeThread \/ CommitRemoval
    \/ Close \/ PurgeExpired \/ CommitExpired

AdminStep == (\E f \in Fax : Moderate(f)) \/ Rasterize \/ Publish \/ Reject \/ Unpublish

Next ==
    \/ WorkerStep
    \/ AdminStep
    \/ \E f \in Fax : Settle(f) \/ Reopen(f) \/ Age(f)
    \/ WorkerError \/ Crash

Spec == Init /\ [][Next]_vars

\* The worker's loop goes on and comes back to the purge every hour.
Fairness == WF_vars(WorkerStep) /\ SF_vars(PurgeExpired)
FairSpec == Spec /\ Fairness

TypeOK ==
    /\ inbound \in [Fax -> InboundRow]
    /\ outbound \in [Fax -> OutboundStatus]
    /\ thread \in [Thread -> [flagged : BOOLEAN, removal : SUBSET Fax]]
    /\ item \in [Fax -> [status : ItemStatus, slug : BOOLEAN]]
    /\ inbound_dir \subseteq Fax /\ media_dir \subseteq Fax /\ gallery_dir \subseteq Fax
    /\ old \subseteq Fax /\ purged \subseteq Fax
    /\ worker \in WorkerState
    /\ admin \in AdminState
    /\ faults \in Nat

(***************************************************************************)
(* Properties.                                                             *)
(***************************************************************************)

\* A letter that Telnyx has yet to fetch is on disk: neither a REMOVE for its
\* thread nor the hourly purge takes it away (retention.purge_thread,
\* purge_expired), whatever crashes and reprocessing do in between. (A letter
\* that was final and is reopened may find its PDF gone.)
ReplyKept == \A f \in Fax : outbound[f] \in {"pending", "open"} => f \in media_dir

\* An exchange enters moderation once: a fax reprocessed after a crash does not
\* bring an item back that was judged or withdrawn (_process_one commits item
\* and status together).
ItemOnce ==
    [][\A f \in Fax : item[f].status \notin {"none", "pending"} =>
           item'[f].status # "pending"]_vars

\* Nothing of what f said is kept in its row or among the page files.
Gone(f) == ~inbound[f].pdf_path /\ ~inbound[f].transcript /\ f \notin inbound_dir

Removing(t) == worker.pc \in {"withdraw", "purge"} /\ ThreadOf[worker.fax] = t
CarriedOut(t) == ~Removing(t) => \A f \in thread[t].removal : Gone(f)

\* models.py 24-26: the stamp is "set when the correspondent faxed REMOVE; the
\* pipeline has already withdrawn gallery items and purged PDFs": once it is
\* committed and the worker is done with the removal, pages and transcripts of
\* every fax filed in the thread by then are gone.
StampMeansPurged == \A t \in Thread : CarriedOut(t)

Unmoderated(t) == \A f \in Fax : ThreadOf[f] = t => item[f].status = "none"

\* So it is as long as nothing fails, and even when something fails for a
\* correspondence of which nothing came into moderation: there the stamp and all
\* cleared rows are one commit, after the files are unlinked.  What is gone does
\* not come back when a fax is processed again, nor does a letter that was final
\* when the removal took its PDF, unless it is rendered anew.
RemovalDone ==
    /\ \A t \in Thread : faults = 0 \/ Unmoderated(t) => CarriedOut(t)
    /\ purged \cap media_dir = {}

\* models.py 89-91: nothing leads out of "removed".
WithdrawnStays ==
    [][\A f \in Fax : item[f].status = "removed" => item'[f].status = "removed"]_vars

\* The hourly purge gets every original in the end, also when it is interrupted
\* between unlinking and committing.
OldPurged == \A f \in Fax : f \in old /\ f \in inbound_dir ~> f \notin inbound_dir
=============================================================================
