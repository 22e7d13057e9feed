------------------------------ MODULE IntakeInv ------------------------------
(***************************************************************************)
(* The inductive invariant of Intake. TLC checks it (run intake);          *)
(* IntakeProofs proves it and what follows.                                *)
(***************************************************************************)
EXTENDS Intake

\* The deployed system: one web process.
OneHandler == \A g, h \in Handler : g = h

\* Telnyx issues one event for each fax.
OneEventEach == \A d, e \in Event : FaxOf[d] = FaxOf[e] => d = e

\* What a handler stages for a fax without a row, or with a failed download.
Failed == [status |-> "failed_download", pdf_path |-> FALSE]
Received(paged) == [status |-> "received", pdf_path |-> paged]
Unfiled == {NoRow, Failed}

\* A fax is not purged under a handler that is at work on it.
InHand ==
    \A h \in Handler : handler[h].pc # "idle" =>
        handler[h].event \in Event /\ FaxOf[handler[h].event] \notin old

\* What a handler has staged, from what it loaded and what the URL led to.
Staged(h) ==
    LET f == FaxOf[handler[h].event]
        loaded == handler[h].loaded
        staged == handler[h].staged
    IN  /\ handler[h].pc \in {"download", "write", "fail"} =>
              f \notin Ignored /\ loaded \in Unfiled /\ Media[f] # "none"
        /\ handler[h].pc = "download" => staged = loaded
        /\ handler[h].pc = "write" => staged = Received(TRUE) /\ Media[f] = "pdf"
        /\ handler[h].pc = "fail" => staged = Failed
        /\ handler[h].pc = "record" =>
              \/ staged = loaded /\ (f \in Ignored \/ loaded \notin Unfiled \/ Media[f] = "none")
              \/ loaded = NoRow /\ staged = Received(FALSE) /\ Media[f] = "none"
              \/ loaded \in Unfiled /\ staged = Failed /\ Media[f] = "bad"
              \/ loaded \in Unfiled /\ staged = Received(TRUE) /\ Media[f] = "pdf"
                 /\ f \in disk \cup removed

\* A row that is not filed has no path; one that is has its pages, until they
\* are purged or removed, and an event that brought it in.
RowsFiled ==
    \A f \in Fax :
        /\ row[f].status \in {"absent", "failed_download"} => row[f] \in Unfiled
        /\ row[f].status \in {"received", "answered"} =>
              /\ \E e \in webhook_events : FaxOf[e] = f
              /\ Media[f] = "pdf" => row[f].pdf_path \/ f \in old \cup removed

\* A purge has selected rows that are old or were to be removed, the REMOVE fax
\* among them; all of them are filed.
PurgesFiled ==
    /\ removing \subseteq purge
    /\ purge \subseteq old \cup removed
    /\ \A f \in purge \cup removed : row[f].status \in {"received", "answered"}

\* Two handlers do not write one row.
PathsLead == OneHandler \/ OneEventEach => PathHasFile

\* What a single handler loaded is still so when it writes; what it answers is
\* recorded.
Fresh(h) ==
    LET stored == row[FaxOf[handler[h].event]] IN
    /\ handler[h].pc \notin {"idle", "reply"} =>
          IF handler[h].loaded \in Unfiled
          THEN stored = handler[h].loaded
          ELSE stored.status \in {"received", "answered"}
    /\ handler[h].pc = "reply" => handler[h].event \in webhook_events

\* What is acknowledged is recorded, and what is recorded is filed.
RecordedFiled ==
    /\ acked \subseteq webhook_events
    /\ \A e \in webhook_events :
          Media[FaxOf[e]] = "pdf" /\ FaxOf[e] \notin Ignored =>
              row[FaxOf[e]].status \in {"received", "answered"}

Alone == (\A h \in Handler : Fresh(h)) /\ RecordedFiled

IInv ==
    /\ TypeOK /\ InHand /\ RowsFiled /\ PurgesFiled /\ PathsLead
    /\ \A h \in Handler : Staged(h)
    /\ OneHandler => Alone
=============================================================================
