----------------------------- MODULE IntakeProofs -----------------------------
(***************************************************************************)
(* Theorems about Intake for every value of its constants.                 *)
(***************************************************************************)
EXTENDS IntakeInv, TLAPS

(***************************************************************************)
(* Rows and what is written to them.                                       *)
(***************************************************************************)
\* The rows a handler stages, and the handler without an event.
LEMMA RowTypes ==
    /\ NoRow \in Row /\ Failed \in Row /\ Received(TRUE) \in Row /\ Received(FALSE) \in Row
    /\ Idle \in HandlerState
BY DEF NoRow, Failed, Received, Row, Status, Idle, HandlerState

\* A row without a path whose status is set, or whose path is taken away.
LEMMA StatusSet ==
    /\ [NoRow EXCEPT !.status = "received"] = Received(FALSE)
    /\ \A r \in Unfiled : /\ [r EXCEPT !.status = "failed_download"] = Failed
                          /\ [r EXCEPT !.pdf_path = FALSE] = r
<1>1. ASSUME NEW r \in Row, NEW x
      PROVE  [r EXCEPT !.status = x] = [status |-> x, pdf_path |-> r.pdf_path]
  BY <1>1 DEF Row
<1>2. NoRow.pdf_path = FALSE /\ Failed.pdf_path = FALSE BY Zenon DEF NoRow, Failed
<1>3. Received(FALSE) = [status |-> "received", pdf_path |-> FALSE] BY DEF Received
<1>4. Failed = [status |-> "failed_download", pdf_path |-> FALSE] BY DEF Failed
<1>5. \A r \in Unfiled : r.pdf_path = FALSE BY <1>2 DEF Unfiled
<1>6. \A r \in Unfiled : r \in Row BY RowTypes DEF Unfiled
<1>7. [NoRow EXCEPT !.status = "received"] = Received(FALSE) BY <1>1, <1>2, <1>3, RowTypes
<1>8. ASSUME NEW r \in Unfiled PROVE [r EXCEPT !.status = "failed_download"] = Failed
  <2>1. [r EXCEPT !.status = "failed_download"]
           = [status |-> "failed_download", pdf_path |-> r.pdf_path]
    BY <1>1, <1>6
  <2> QED BY <2>1, <1>4, <1>5
<1>9. ASSUME NEW r \in Unfiled PROVE [r EXCEPT !.pdf_path = FALSE] = r
  <2>1. r.pdf_path = FALSE /\ r \in Row BY <1>5, <1>6
  <2> QED BY <2>1 DEF Row
<1> QED BY <1>7, <1>8, <1>9

\* What a handler at work has is typed.
LEMMA HandlerType ==
    ASSUME TypeOK, NEW h \in Handler
    PROVE  /\ handler[h] \in HandlerState
           /\ handler[h].loaded \in Row /\ handler[h].staged \in Row
           /\ handler[h].event \in Event \cup {NoEvent}
           /\ handler[h].event \in Event => FaxOf[handler[h].event] \in Fax
BY EventAssumption DEF TypeOK, HandlerState

\* A commit that does not come too late leaves the row alone when nothing was
\* staged, and else writes what was staged, over a missing row or, with the
\* pages, over a failed download.
LEMMA WrittenRow ==
    ASSUME TypeOK, NEW h \in Handler, Staged(h), handler[h].pc \in {"fail", "record"},
           ~Conflict(h), Stale(h) \in Row
    PROVE  /\ Written(h) = IF handler[h].staged = handler[h].loaded
                           THEN Stale(h) ELSE handler[h].staged
           /\ handler[h].staged # handler[h].loaded =>
                 \/ handler[h].loaded = NoRow /\ Stale(h) = NoRow
                 \/ handler[h].loaded = Failed /\ handler[h].staged = Received(TRUE)
<1> DEFINE l == handler[h].loaded
           s == handler[h].staged
<1>1. l \in Row /\ s \in Row BY HandlerType
<1>2. CASE s = l
  <2>1. Written(h) = [status |-> Stale(h).status, pdf_path |-> Stale(h).pdf_path]
    BY <1>2 DEF Written, OrmWrite
  <2>2. Written(h) = Stale(h) BY <2>1 DEF Row
  <2> QED BY <1>2, <2>2
<1>3. CASE s # l /\ l = NoRow
  <2>1. s # NoRow /\ Stale(h) = NoRow BY <1>3 DEF Conflict, Inserts
  <2>2. s \in {Failed, Received(TRUE), Received(FALSE)} BY <1>3 DEF Staged
  <2>3. Written(h) = s
    BY <1>3, <2>1, <2>2 DEF Written, OrmWrite, NoRow, Failed, Received
  <2> QED BY <1>3, <2>1, <2>3
<1>4. CASE s # l /\ l # NoRow
  <2>1. l = Failed /\ s = Received(TRUE) BY <1>4 DEF Staged, Unfiled
  <2>2. Written(h) = s BY <2>1 DEF Written, OrmWrite, Failed, Received
  <2> QED BY <1>4, <2>1, <2>2
<1> QED BY <1>2, <1>3, <1>4

\* So what is committed is a row.
LEMMA WrittenType ==
    ASSUME TypeOK, NEW h \in Handler, handler[h].event \in Event
    PROVE  Stale(h) \in Row /\ Written(h) \in Row
BY HandlerType DEF TypeOK, Stale, Written, OrmWrite, Row

(***************************************************************************)
(* Types.                                                                  *)
(***************************************************************************)
\* The part of IInv about the handlers at work.
AtWork == TypeOK /\ InHand

\* What Staging yields is a row and a place to go on.
LEMMA StagingType ==
    ASSUME TypeOK, NEW f \in Fax
    PROVE  /\ Staging(f).pc \in {"record", "download"}
           /\ Staging(f).staged \in Row
BY RowTypes DEF Staging, TypeOK, NoRow, Row, Status

\* A handler takes up an event.
LEMMA LoadAtWork ==
    ASSUME AtWork, NEW h \in Handler, NEW e \in Event, Load(h, e)
    PROVE  AtWork'
<1> DEFINE new == IF e \in webhook_events
                  THEN [Idle EXCEPT !.pc = "reply", !.event = e]
                  ELSE [pc |-> Staging(FaxOf[e]).pc, event |-> e, loaded |-> row[FaxOf[e]],
                        staged |-> Staging(FaxOf[e]).staged]
<1> USE DEF AtWork
<1>1. handler' = [handler EXCEPT ![h] = new] BY DEF Load
<1>2. new \in HandlerState /\ new.event = e
  <2>1. FaxOf[e] \in Fax BY EventAssumption
  <2>2. row[FaxOf[e]] \in Row BY <2>1 DEF TypeOK
  <2>3. [Idle EXCEPT !.pc = "reply", !.event = e] \in HandlerState
    BY RowTypes DEF Idle, HandlerState
  <2> QED BY <2>1, <2>2, <2>3, StagingType DEF Idle, HandlerState
<1> HIDE DEF new
<1>3. TypeOK' BY <1>1, <1>2 DEF TypeOK, Load, outside, purges
<1>4. InHand' BY <1>1, <1>2 DEF InHand, Load, outside, TypeOK
<1> QED BY <1>3, <1>4

\* A handler that goes on with its event stays typed, and keeps it.
LEMMA GoesOn ==
    ASSUME TypeOK, NEW h \in Handler, NEW next \in {"write", "fail", "record", "reply"},
           NEW new \in Row,
           \/ handler' = [handler EXCEPT ![h].pc = next, ![h].staged = new]
           \/ handler' = [handler EXCEPT ![h].pc = next] /\ new = handler[h].staged
    PROVE  /\ handler' \in [Handler -> HandlerState]
           /\ \A g \in Handler \ {h} : handler'[g] = handler[g]
           /\ handler'[h].pc = next /\ handler'[h].staged = new
           /\ handler'[h].event = handler[h].event /\ handler'[h].loaded = handler[h].loaded
BY DEF TypeOK, HandlerState

(***************************************************************************)
(* The steps of a handler.                                                 *)
(***************************************************************************)
\* A step that writes no row and takes no file leaves rows, files and purge in
\* order.
LEMMA RowsKept ==
    ASSUME IInv, UNCHANGED <<row, webhook_events, old, purges>>, disk \subseteq disk',
           faults' \in {faults, faults + 1}
    PROVE  RowsFiled' /\ PurgesFiled' /\ PathsLead'
BY DEF IInv, TypeOK, purges, RowsFiled, PurgesFiled, PathsLead, PathHasFile, OneHandler,
       OneEventEach

\* A handler that does nothing keeps what it has staged, and its files.
LEMMA StagedKept ==
    ASSUME NEW g \in Handler, Staged(g), handler'[g] = handler[g],
           handler[g].pc = "record" /\ FaxOf[handler[g].event] \in disk \cup removed =>
               FaxOf[handler[g].event] \in disk' \cup removed'
    PROVE  Staged(g)'
BY DEF Staged

\* What is staged is what the row and the URL call for.
LEMMA StagingStaged ==
    ASSUME IInv, NEW f \in Fax
    PROVE  /\ Staging(f).pc = "download" =>
                 f \notin Ignored /\ row[f] \in Unfiled /\ Media[f] # "none"
                 /\ Staging(f).staged = row[f]
           /\ Staging(f).pc = "record" =>
                 \/ /\ Staging(f).staged = row[f]
                    /\ f \in Ignored \/ row[f] \notin Unfiled \/ Media[f] = "none"
                 \/ /\ row[f] = NoRow /\ Staging(f).staged = Received(FALSE)
                    /\ Media[f] = "none"
           /\ row[f] \notin Unfiled => row[f].status \in {"received", "answered"}
<1>1. row[f] \in Row BY DEF IInv, TypeOK
<1>2. row[f].status \in {"absent", "failed_download"} <=> row[f] \in Unfiled
  BY DEF IInv, RowsFiled, Unfiled, NoRow, Failed
<1> QED BY <1>1, <1>2, StatusSet DEF Staging, Row, Status

\* A handler loads the row.
LEMMA LoadKeeps ==
    ASSUME IInv, NEW h \in Handler, NEW e \in Event, Load(h, e)
    PROVE  IInv'
<1> DEFINE f == FaxOf[e]
<1>1. f \in Fax BY EventAssumption
<1>2. TypeOK' /\ InHand' BY LoadAtWork DEF IInv, AtWork
<1>3. /\ UNCHANGED <<row, webhook_events, disk, old, purges, acked, faults>>
      /\ \A g \in Handler \ {h} : handler'[g] = handler[g]
  BY DEF Load, outside, IInv, TypeOK
<1>4. handler'[h] = IF e \in webhook_events
                    THEN [Idle EXCEPT !.pc = "reply", !.event = e]
                    ELSE [pc |-> Staging(f).pc, event |-> e, loaded |-> row[f],
                          staged |-> Staging(f).staged]
  BY DEF Load, IInv, TypeOK
<1>5. CASE e \in webhook_events
  <2>1. handler'[h].pc = "reply" /\ handler'[h].event = e BY <1>4, <1>5 DEF Idle
  <2>2. Staged(h)' BY <2>1 DEF Staged
  <2>3. Fresh(h)' BY <1>3, <1>5, <2>1 DEF Fresh
  <2>4. \A g \in Handler : Staged(g)' BY <1>3, <2>2, StagedKept DEF IInv, purges
  <2>5. OneHandler => Alone' BY <1>3, <2>3 DEF IInv, OneHandler, Alone, RecordedFiled
  <2> QED BY <1>2, <1>3, <2>4, <2>5, RowsKept DEF IInv, OneHandler
<1>6. CASE e \notin webhook_events
  <2>1. /\ handler'[h].pc = Staging(f).pc /\ handler'[h].event = e
        /\ handler'[h].loaded = row[f] /\ handler'[h].staged = Staging(f).staged
        /\ Staging(f).pc \in {"record", "download"}
    BY <1>1, <1>4, <1>6, StagingType DEF IInv
  <2>2. Staged(h)' BY <1>1, <1>3, <2>1, StagingStaged DEF Staged
  <2>3. Fresh(h)' BY <1>1, <1>3, <2>1, StagingStaged DEF Fresh
  <2>4. \A g \in Handler : Staged(g)' BY <1>3, <2>2, StagedKept DEF IInv, purges
  <2>5. OneHandler => Alone' BY <1>3, <2>3 DEF IInv, OneHandler, Alone, RecordedFiled
  <2> QED BY <1>2, <1>3, <2>4, <2>5, RowsKept DEF IInv, OneHandler
<1> QED BY <1>5, <1>6

\* The outcome of a download is staged, and the row is as it was.
LEMMA OutcomeKeeps ==
    ASSUME IInv, NEW h \in Handler, handler[h].pc = "download",
           NEW next \in {"write", "fail", "record"}, NEW new \in {Failed, Received(TRUE)},
           handler' = [handler EXCEPT ![h].pc = next, ![h].staged = new],
           IF next = "write" THEN new = Received(TRUE) /\ Media[FaxOf[handler[h].event]] = "pdf"
                             ELSE new = Failed,
           next = "record" => Media[FaxOf[handler[h].event]] = "bad",
           UNCHANGED <<row, webhook_events, disk, outside, purges, faults>>
    PROVE  IInv'
<1>1. /\ handler' \in [Handler -> HandlerState]
      /\ \A g \in Handler \ {h} : handler'[g] = handler[g]
      /\ handler'[h].pc = next /\ handler'[h].staged = new
      /\ handler'[h].event = handler[h].event /\ handler'[h].loaded = handler[h].loaded
  <2>1. new \in Row BY RowTypes
  <2> QED BY <2>1, GoesOn DEF IInv
<1> HIDE DEF Failed, Received
<1>2. TypeOK' BY <1>1 DEF IInv, TypeOK, outside, purges
<1>3. InHand' BY <1>1 DEF IInv, InHand, outside
<1>4. Staged(h)' BY <1>1 DEF IInv, Staged
<1>5. \A g \in Handler : Staged(g)' BY <1>1, <1>4, StagedKept DEF IInv, purges
<1>6. OneHandler => Alone'
  <2>1. Fresh(h) => Fresh(h)' BY <1>1 DEF Fresh
  <2> QED BY <2>1 DEF IInv, OneHandler, Alone, RecordedFiled, outside
<1>7. RowsFiled' /\ PurgesFiled' /\ PathsLead' BY RowsKept DEF outside
<1> QED BY <1>2, <1>3, <1>5, <1>6, <1>7 DEF IInv, OneHandler

\* The download ends with pages, or with what is no PDF ...
LEMMA DownloadKeeps ==
    ASSUME IInv, NEW h \in Handler, Download(h) PROVE IInv'
<1> DEFINE f == FaxOf[handler[h].event]
<1>1. /\ handler[h].pc = "download" /\ handler[h].staged \in {NoRow, Failed}
      /\ Media[f] # "none" /\ f \in Fax
  BY HandlerType DEF Download, IInv, Staged, Unfiled, InHand
<1>2. [handler[h].staged EXCEPT !.status = "failed_download"] = Failed
  BY <1>1, StatusSet DEF Unfiled
<1>3. CASE Media[f] = "pdf"
  <2>1. handler' = [handler EXCEPT ![h].pc = "write", ![h].staged = Received(TRUE)]
    BY <1>3 DEF Download, Received
  <2> QED BY <1>1, <1>3, <2>1, OutcomeKeeps DEF Download
<1>4. CASE Media[f] = "bad"
  <2>1. handler' = [handler EXCEPT ![h].pc = "record", ![h].staged = Failed]
    BY <1>2, <1>4 DEF Download, IInv, TypeOK, HandlerState
  <2> QED BY <1>1, <1>4, <2>1, OutcomeKeeps DEF Download
<1> QED BY <1>1, <1>3, <1>4, MediaAssumption

\* ... or without anything.
LEMMA DownloadFailsKeeps ==
    ASSUME IInv, NEW h \in Handler, DownloadFails(h) PROVE IInv'
<1>1. handler[h].pc = "download" /\ handler[h].staged \in {NoRow, Failed}
  BY DEF DownloadFails, IInv, Staged, Unfiled
<1>2. [handler[h].staged EXCEPT !.status = "failed_download"] = Failed
  BY <1>1, StatusSet DEF Unfiled
<1>3. handler' = [handler EXCEPT ![h].pc = "fail", ![h].staged = Failed]
  BY <1>2 DEF DownloadFails, IInv, TypeOK, HandlerState
<1> QED BY <1>1, <1>3, OutcomeKeeps DEF DownloadFails

\* The file is there before the row says so.
LEMMA WriteFileKeeps ==
    ASSUME IInv, NEW h \in Handler, WriteFile(h) PROVE IInv'
<1>1. /\ handler' \in [Handler -> HandlerState]
      /\ \A g \in Handler \ {h} : handler'[g] = handler[g]
      /\ handler'[h].pc = "record" /\ handler'[h].staged = handler[h].staged
      /\ handler'[h].event = handler[h].event /\ handler'[h].loaded = handler[h].loaded
  BY GoesOn, HandlerType DEF WriteFile, IInv
<1>2. FaxOf[handler[h].event] \in Fax BY HandlerType DEF WriteFile, IInv, InHand
<1>3. TypeOK' BY <1>1, <1>2 DEF WriteFile, IInv, TypeOK, outside, purges
<1>4. InHand' BY <1>1 DEF WriteFile, IInv, InHand, outside
<1>5. Staged(h)'
  <2>1. /\ handler[h].loaded \in Unfiled /\ handler[h].staged = Received(TRUE)
        /\ Media[FaxOf[handler[h].event]] = "pdf"
    BY DEF WriteFile, IInv, Staged
  <2>2. FaxOf[handler'[h].event] \in disk' BY <1>1 DEF WriteFile
  <2> QED BY <1>1, <2>1, <2>2 DEF Staged, Unfiled, Failed, Received
<1>6. \A g \in Handler : Staged(g)' BY <1>1, <1>5, StagedKept DEF WriteFile, IInv, purges
<1>7. OneHandler => Alone'
  <2>1. Fresh(h) => Fresh(h)' BY <1>1 DEF WriteFile, Fresh
  <2> QED BY <2>1 DEF WriteFile, IInv, OneHandler, Alone, RecordedFiled, outside
<1>8. RowsFiled' /\ PurgesFiled' /\ PathsLead' BY RowsKept DEF WriteFile, outside
<1> QED BY <1>3, <1>4, <1>6, <1>7, <1>8 DEF IInv, OneHandler

(***************************************************************************)
(* Commits.                                                                *)
(***************************************************************************)
\* The fax of a handler at work.
LEMMA FaxInHand ==
    ASSUME IInv, NEW h \in Handler, handler[h].pc # "idle"
    PROVE  /\ handler[h].event \in Event /\ FaxOf[handler[h].event] \in Fax
           /\ FaxOf[handler[h].event] \notin old
           /\ Stale(h) = row[FaxOf[handler[h].event]] /\ Stale(h) \in Row
BY HandlerType, WrittenType DEF IInv, InHand, Stale

\* What a commit that is not too late makes of a row: it brings in the pages of
\* a file that exists or was removed, a fax without pages, or a failed download
\* over nothing.
LEMMA Committed ==
    ASSUME IInv, NEW h \in Handler, handler[h].pc \in {"fail", "record"}, ~Conflict(h),
           NEW f \in Fax, f = FaxOf[handler[h].event]
    PROVE  \/ Written(h) = row[f] /\ handler[h].staged = handler[h].loaded
           \/ /\ Written(h) = Received(TRUE) /\ handler[h].loaded \in Unfiled
              /\ f \in disk \cup removed /\ handler[h].pc = "record"
              /\ handler[h].loaded = NoRow => row[f] = NoRow
           \/ /\ Written(h) = Received(FALSE) /\ row[f] = NoRow /\ Media[f] = "none"
              /\ handler[h].pc = "record"
           \/ /\ Written(h) = Failed /\ row[f] = NoRow
              /\ handler[h].pc = "record" => Media[f] = "bad"
           \/ Written(h) = row[f] /\ handler[h].pc = "fail"
<1>1. Stale(h) = row[f] /\ Stale(h) \in Row BY FaxInHand
<1>2. TypeOK /\ Staged(h) BY DEF IInv
<1>3. /\ Written(h) = IF handler[h].staged = handler[h].loaded
                      THEN Stale(h) ELSE handler[h].staged
      /\ handler[h].staged # handler[h].loaded =>
            \/ handler[h].loaded = NoRow /\ Stale(h) = NoRow
            \/ handler[h].loaded = Failed /\ handler[h].staged = Received(TRUE)
  BY <1>1, <1>2, WrittenRow
<1>4. Failed # Received(TRUE) /\ NoRow # Failed /\ Received(TRUE) # NoRow
  BY DEF Failed, Received, NoRow
<1> QED BY <1>1, <1>2, <1>3, <1>4 DEF Staged, Unfiled

\* A commit leaves the rows in order, if the event of a fax filed is recorded.
LEMMA CommitKeepsRows ==
    ASSUME IInv, NEW h \in Handler, handler[h].pc \in {"fail", "record"}, ~Conflict(h),
           CommitRow(h), UNCHANGED <<disk, old, purges, faults>>,
           webhook_events \subseteq webhook_events',
           handler[h].pc = "record" =>
               handler[h].event \in webhook_events' /\ handler[h].event \notin webhook_events
    PROVE  row' \in [Fax -> Row] /\ RowsFiled' /\ PurgesFiled' /\ PathsLead'
<1>1. PICK f \in Fax : f = FaxOf[handler[h].event] BY FaxInHand
<1>2. PICK w \in Row : w = Written(h) BY FaxInHand, WrittenType DEF IInv
<1>3. row' = [row EXCEPT ![f] = w] BY <1>1, <1>2 DEF CommitRow
<1>4. row \in [Fax -> Row] BY DEF IInv, TypeOK
<1>5. row' \in [Fax -> Row] BY <1>3, <1>4
<1>6. row'[f] = w /\ \A g \in Fax \ {f} : row'[g] = row[g] BY <1>3, <1>4
<1>7. \/ w = row[f]
      \/ /\ w = Received(TRUE) /\ handler[h].loaded \in Unfiled
         /\ f \in disk \cup removed /\ handler[h].pc = "record"
      \/ w = Received(FALSE) /\ Media[f] = "none" /\ handler[h].pc = "record"
      \/ w = Failed /\ row[f] = NoRow
  BY <1>1, <1>2, Committed
<1>8. /\ Received(TRUE).status = "received" /\ Received(TRUE).pdf_path
      /\ Received(FALSE).status = "received" /\ ~Received(FALSE).pdf_path
      /\ Failed.status = "failed_download" /\ ~Failed.pdf_path /\ Failed \in Unfiled
      /\ NoRow.status = "absent"
  BY Zenon DEF Received, Failed, Unfiled, NoRow
<1>9. RowsFiled'
  <2> SUFFICES ASSUME NEW g \in Fax
               PROVE  /\ row'[g].status \in {"absent", "failed_download"} => row'[g] \in Unfiled
                      /\ row'[g].status \in {"received", "answered"} =>
                            /\ \E e \in webhook_events' : FaxOf[e] = g
                            /\ Media[g] = "pdf" => row'[g].pdf_path \/ g \in (old \cup removed)'
      BY DEF RowsFiled
  <2>1. CASE row'[g] = row[g] BY <2>1 DEF IInv, RowsFiled, purges
  <2>2. CASE row'[g] # row[g] /\ g = f BY <1>1, <1>6, <1>7, <1>8, <2>2
  <2> QED BY <1>6, <2>1, <2>2
<1>10. ASSUME OneHandler \/ OneEventEach, w # row[f], w = Received(TRUE) PROVE f \in disk
  <2>1. /\ handler[h].loaded \in Unfiled /\ f \in disk \cup removed
        /\ handler[h].pc = "record" /\ handler[h].event \notin webhook_events
    BY <1>7, <1>8, <1>10
  <2>2. ASSUME f \in removed PROVE FALSE
    <3>1. row[f].status \in {"received", "answered"} BY <2>2 DEF IInv, PurgesFiled
    <3>2. CASE OneHandler
      <4>1. row[f] \in {NoRow, Failed}
        BY <1>1, <2>1, <3>2 DEF IInv, Alone, Fresh, Unfiled
      <4> QED BY <1>8, <3>1, <4>1
    <3>3. CASE OneEventEach
      <4>1. PICK e \in webhook_events : FaxOf[e] = f BY <3>1 DEF IInv, RowsFiled
      <4> QED BY <1>1, <2>1, <3>3, <4>1, FaxInHand DEF OneEventEach, IInv, TypeOK
    <3> QED BY <1>10, <3>2, <3>3
  <2> QED BY <2>1, <2>2
<1>11. PathsLead'
  <2> SUFFICES ASSUME OneHandler \/ OneEventEach, NEW g \in Fax, row'[g].pdf_path, g \notin old
               PROVE  g \in disk \/ (g \in removed /\ (g \in purge \/ faults > 0))
      BY DEF PathsLead, PathHasFile, OneHandler, OneEventEach, purges
  <2>1. CASE row'[g] = row[g] BY <2>1 DEF IInv, PathsLead, PathHasFile
  <2>2. CASE row'[g] # row[g] /\ g = f BY <1>6, <1>7, <1>8, <1>10, <2>2
  <2> QED BY <1>6, <2>1, <2>2
<1>12. PurgesFiled'
  <2>1. \A g \in Fax : row[g].status \in {"received", "answered"} =>
                       row'[g].status \in {"received", "answered"}
    BY <1>6, <1>7, <1>8
  <2> QED BY <2>1 DEF IInv, TypeOK, PurgesFiled, purges
<1> QED BY <1>5, <1>9, <1>11, <1>12

\* A handler that is done, whatever else it did.
LEMMA GoesIdle ==
    ASSUME IInv, NEW h \in Handler, handler' = [handler EXCEPT ![h] = Idle],
           UNCHANGED <<disk, old, removed>>
    PROVE  /\ handler' \in [Handler -> HandlerState]
           /\ InHand' /\ \A g \in Handler : Staged(g)'
           /\ OneHandler => \A g \in Handler : handler'[g].pc = "idle"
<1>1. /\ handler' \in [Handler -> HandlerState] /\ handler'[h] = Idle /\ Idle.pc = "idle"
      /\ \A g \in Handler \ {h} : handler'[g] = handler[g]
  BY RowTypes DEF IInv, TypeOK, Idle
<1>2. Staged(h)' BY <1>1 DEF Staged
<1>3. \A g \in Handler : Staged(g)' BY <1>1, <1>2, StagedKept DEF IInv
<1>4. InHand' BY <1>1 DEF IInv, InHand
<1> QED BY <1>1, <1>3, <1>4 DEF OneHandler

\* A failed download is recorded without its event.
LEMMA CommitFailureKeeps ==
    ASSUME IInv, NEW h \in Handler, CommitFailure(h) PROVE IInv'
<1> USE DEF CommitFailure, outside, purges
<1>1. row' \in [Fax -> Row] /\ RowsFiled' /\ PurgesFiled' /\ PathsLead'
  <2>1. CASE Conflict(h)
    <3>1. row' \in [Fax -> Row] BY <2>1 DEF IInv, TypeOK
    <3> QED BY <2>1, <3>1, RowsKept
  <2>2. CASE ~Conflict(h) BY <2>2, CommitKeepsRows
  <2> QED BY <2>1, <2>2
<1>2. /\ handler' \in [Handler -> HandlerState]
      /\ InHand' /\ \A g \in Handler : Staged(g)'
      /\ OneHandler => \A g \in Handler : handler'[g].pc = "idle"
  BY GoesIdle
<1>3. TypeOK' BY <1>1, <1>2 DEF IInv, TypeOK
<1>4. PICK f \in Fax : f = FaxOf[handler[h].event] BY FaxInHand
<1>5. row' = row \/ (row[f] = NoRow /\ \A g \in Fax \ {f} : row'[g] = row[g])
  <2>1. ASSUME ~Conflict(h) PROVE Written(h) = row[f] \/ row[f] = NoRow
    BY <1>4, <2>1, Committed DEF IInv, Staged, Failed, Unfiled, NoRow
  <2> QED BY <1>4, <2>1 DEF CommitRow, IInv, TypeOK
<1>6. OneHandler /\ RecordedFiled => RecordedFiled'
  BY <1>5, EventAssumption DEF IInv, TypeOK, RecordedFiled, NoRow
<1>7. OneHandler => Alone' BY <1>2, <1>6 DEF IInv, Alone, Fresh
<1> QED BY <1>1, <1>2, <1>3, <1>7 DEF IInv, OneHandler

\* Row and event are committed together; a single handler is never too late.
LEMMA RecordEventKeeps ==
    ASSUME IInv, NEW h \in Handler, RecordEvent(h) PROVE IInv'
<1> USE DEF RecordEvent, outside, purges
<1>1. PICK f \in Fax : f = FaxOf[handler[h].event] BY FaxInHand
<1>2. /\ handler' \in [Handler -> HandlerState]
      /\ \A g \in Handler \ {h} : handler'[g] = handler[g]
      /\ handler'[h].pc = "reply" /\ handler'[h].event = handler[h].event
  BY GoesOn, HandlerType DEF IInv
<1>3. InHand' BY <1>2 DEF IInv, InHand
<1>4. Staged(h)' BY <1>2 DEF Staged
<1>5. \A g \in Handler : Staged(g)' BY <1>2, <1>4, StagedKept DEF IInv
<1>6. handler[h].event \in Event BY FaxInHand
<1>7. CASE Conflict(h) \/ handler[h].event \in webhook_events
  <2>1. UNCHANGED <<row, webhook_events>> BY <1>7
  <2>2. TypeOK' BY <1>2, <2>1 DEF IInv, TypeOK
  <2>3. RowsFiled' /\ PurgesFiled' /\ PathsLead' BY <2>1, RowsKept
  <2>4. ASSUME OneHandler PROVE Alone'
    <3>1. Fresh(h) BY <2>4 DEF IInv, Alone
    <3>2. ~Conflict(h) BY <3>1 DEF Fresh, Conflict, Inserts, Stale, Unfiled
    <3>3. Fresh(h)' BY <1>2, <1>7, <2>1, <3>2 DEF Fresh
    <3>4. RecordedFiled' BY <2>1, <2>4 DEF IInv, Alone, RecordedFiled
    <3> QED BY <2>4, <3>3, <3>4 DEF OneHandler, Alone
  <2> QED BY <1>3, <1>5, <2>2, <2>3, <2>4 DEF IInv, OneHandler
<1>8. CASE ~(Conflict(h) \/ handler[h].event \in webhook_events)
  <2>1. CommitRow(h) /\ webhook_events' = webhook_events \cup {handler[h].event} BY <1>8
  <2>2. row' \in [Fax -> Row] /\ RowsFiled' /\ PurgesFiled' /\ PathsLead'
    BY <1>8, <2>1, CommitKeepsRows
  <2>3. TypeOK' BY <1>2, <1>6, <2>1, <2>2 DEF IInv, TypeOK
  <2>4. row'[f] = Written(h) /\ \A g \in Fax \ {f} : row'[g] = row[g]
    BY <1>1, <2>1 DEF CommitRow, IInv, TypeOK
  <2>5. ASSUME OneHandler PROVE Alone'
    <3>1. Fresh(h) /\ RecordedFiled BY <2>5 DEF IInv, Alone
    <3>2. Fresh(h)' BY <1>2, <2>1 DEF Fresh
    <3>3. Received(TRUE).status = "received" /\ Received(TRUE) \notin Unfiled
      BY DEF Received, NoRow, Failed, Unfiled
    <3>4. Media[f] = "pdf" /\ f \notin Ignored => row'[f].status \in {"received", "answered"}
      <4> SUFFICES ASSUME Media[f] = "pdf", f \notin Ignored
                   PROVE  row'[f].status \in {"received", "answered"}
          OBVIOUS
      <4>1. \/ Written(h) = row[f] /\ handler[h].staged = handler[h].loaded
            \/ Written(h) = Received(TRUE)
        BY <1>1, <1>8, Committed
      <4>2. CASE Written(h) = row[f] /\ handler[h].staged = handler[h].loaded
        <5>1. handler[h].loaded \notin Unfiled
          BY <1>1, <3>3, <4>2 DEF IInv, Staged
        <5>2. row[f].status \in {"received", "answered"} BY <1>1, <3>1, <5>1 DEF Fresh
        <5> QED BY <2>4, <4>2, <5>2
      <4> QED BY <2>4, <3>3, <4>1, <4>2
    <3>5. RecordedFiled'
      <4>1. \A e \in webhook_events' : FaxOf[e] \in Fax
        BY <2>3, EventAssumption DEF TypeOK
      <4>2. \A e \in webhook_events' : FaxOf[e] # f => e \in webhook_events
        BY <1>1, <2>1
      <4>3. acked' \subseteq webhook_events' BY <2>1, <3>1 DEF RecordedFiled
      <4> QED BY <2>4, <3>1, <3>4, <4>1, <4>2, <4>3 DEF RecordedFiled
    <3> QED BY <2>5, <3>2, <3>5 DEF OneHandler, Alone
  <2> QED BY <1>3, <1>5, <2>2, <2>3, <2>5 DEF IInv, OneHandler
<1> QED BY <1>7, <1>8

\* What is answered with 200 is recorded.
LEMMA ReplyKeeps ==
    ASSUME IInv, NEW h \in Handler, Reply(h) PROVE IInv'
<1> USE DEF Reply, purges
<1>1. /\ handler' \in [Handler -> HandlerState]
      /\ InHand' /\ \A g \in Handler : Staged(g)'
      /\ OneHandler => \A g \in Handler : handler'[g].pc = "idle"
  BY GoesIdle
<1>2. handler[h].event \in Event BY FaxInHand
<1>3. TypeOK' BY <1>1, <1>2 DEF IInv, TypeOK
<1>4. RowsFiled' /\ PurgesFiled' /\ PathsLead' BY RowsKept
<1>5. OneHandler => Alone' BY <1>1 DEF IInv, Alone, Fresh, RecordedFiled
<1> QED BY <1>1, <1>3, <1>4, <1>5 DEF IInv, OneHandler

\* Of a request that fails nothing remains but, perhaps, its file.
LEMMA HandlerErrorKeeps ==
    ASSUME IInv, NEW h \in Handler, HandlerError(h) PROVE IInv'
<1> USE DEF HandlerError, outside, purges
<1>1. /\ handler' \in [Handler -> HandlerState]
      /\ InHand' /\ \A g \in Handler : Staged(g)'
      /\ OneHandler => \A g \in Handler : handler'[g].pc = "idle"
  BY GoesIdle
<1>2. TypeOK' BY <1>1, FaultAssumption DEF IInv, TypeOK
<1>3. RowsFiled' /\ PurgesFiled' /\ PathsLead' BY RowsKept
<1>4. OneHandler => Alone' BY <1>1 DEF IInv, Alone, Fresh, RecordedFiled
<1> QED BY <1>1, <1>2, <1>3, <1>4 DEF IInv, OneHandler

(***************************************************************************)
(* The worker and the world.                                               *)
(***************************************************************************)
\* A fax that is answered stays filed.
LEMMA AnsweredKeeps ==
    ASSUME IInv, NEW f \in Fax, Answered(f) PROVE IInv'
<1> USE DEF Answered, outside, purges
<1>1. PICK w \in Row : w.status = "answered" /\ w.pdf_path = row[f].pdf_path
                       /\ row' = [row EXCEPT ![f] = w]
  <2>1. [row[f] EXCEPT !.status = "answered"] \in Row BY DEF IInv, TypeOK, Row, Status
  <2>2. /\ [row[f] EXCEPT !.status = "answered"].status = "answered"
        /\ [row[f] EXCEPT !.status = "answered"].pdf_path = row[f].pdf_path
    BY DEF IInv, TypeOK, Row
  <2>3. row' = [row EXCEPT ![f] = [row[f] EXCEPT !.status = "answered"]]
    BY DEF IInv, TypeOK
  <2> QED BY <2>1, <2>2, <2>3
<1>2. row'[f] = w /\ \A g \in Fax \ {f} : row'[g] = row[g] BY <1>1 DEF IInv, TypeOK
<1>3. row[f].status = "received" /\ row[f] \notin Unfiled
  BY DEF Unfiled, NoRow, Failed
<1>4. TypeOK' BY <1>1 DEF IInv, TypeOK
<1>5. InHand' /\ PurgesFiled' BY <1>1, <1>2 DEF IInv, TypeOK, InHand, PurgesFiled
<1>6. RowsFiled' BY <1>1, <1>2, <1>3 DEF IInv, RowsFiled
<1>7. PathsLead' BY <1>1, <1>2 DEF IInv, PathsLead, PathHasFile, OneHandler, OneEventEach
<1>8. \A h \in Handler : Staged(h)' BY DEF IInv, Staged
<1>9. \A h \in Handler : Fresh(h) => Fresh(h)'
  <2> SUFFICES ASSUME NEW h \in Handler, Fresh(h) PROVE Fresh(h)' OBVIOUS
  <2>1. CASE handler[h].pc \in {"idle", "reply"} BY <2>1 DEF Fresh
  <2>2. CASE handler[h].pc \notin {"idle", "reply"}
    <3>1. FaxOf[handler[h].event] \in Fax BY <2>2, FaxInHand
    <3> QED BY <1>1, <1>2, <1>3, <2>2, <3>1 DEF Fresh
  <2> QED BY <2>1, <2>2
<1>10. RecordedFiled => RecordedFiled'
  BY <1>1, <1>2, EventAssumption DEF IInv, TypeOK, RecordedFiled
<1>11. OneHandler => Alone' BY <1>9, <1>10 DEF IInv, Alone
<1> QED BY <1>4, <1>5, <1>6, <1>7, <1>8, <1>11 DEF IInv, OneHandler

\* Nothing rests on the URL but a download that has not been made.
LEMMA UrlExpiresKeeps ==
    ASSUME IInv, NEW f \in Fax, UrlExpires(f) PROVE IInv'
BY DEF UrlExpires, IInv, TypeOK, InHand, RowsFiled, PurgesFiled, PathsLead, PathHasFile, Staged,
       OneHandler, OneEventEach, Alone, Fresh, RecordedFiled, purges

\* A fax gets old while no handler is at work on it.
LEMMA AgesKeeps ==
    ASSUME IInv, NEW f \in Fax, Ages(f) PROVE IInv'
<1> USE DEF Ages, purges
<1>1. TypeOK' BY DEF IInv, TypeOK
<1>2. InHand' BY DEF IInv, InHand
<1>3. RowsFiled' /\ PurgesFiled' /\ PathsLead'
  BY DEF IInv, RowsFiled, PurgesFiled, PathsLead, PathHasFile, OneHandler, OneEventEach
<1>4. \A h \in Handler : Staged(h)' BY DEF IInv, Staged
<1>5. OneHandler => Alone' BY DEF IInv, Alone, Fresh, RecordedFiled
<1> QED BY <1>1, <1>2, <1>3, <1>4, <1>5 DEF IInv, OneHandler

\* A row with a path is filed.
LEMMA PathFiled ==
    ASSUME IInv, NEW f \in Fax, row[f].pdf_path
    PROVE  row[f].status \in {"received", "answered"}
<1>1. NoRow.pdf_path = FALSE /\ Failed.pdf_path = FALSE BY Zenon DEF NoRow, Failed
<1>2. row[f] \notin Unfiled BY <1>1 DEF Unfiled
<1>3. row[f].status \in Status BY DEF IInv, TypeOK, Row
<1> QED BY <1>2, <1>3 DEF IInv, RowsFiled, Status

\* The files taken are those of old rows, which no handler is at work on.
LEMMA UnlinkKeeps ==
    ASSUME IInv, Unlink PROVE IInv'
<1> USE DEF Unlink, outside
<1>1. /\ purge' \subseteq old /\ disk' = disk \ purge' /\ purge = {} /\ removing = {}
      /\ \A f \in purge' : row[f].pdf_path
  BY DEF IInv, PurgesFiled
<1>2. TypeOK' BY <1>1 DEF IInv, TypeOK
<1>3. InHand' /\ RowsFiled' BY <1>1 DEF IInv, InHand, RowsFiled
<1>4. PurgesFiled'
  <2>1. \A f \in purge' : row[f].status \in {"received", "answered"}
    BY <1>1, PathFiled DEF IInv, TypeOK
  <2> QED BY <1>1, <2>1 DEF IInv, PurgesFiled
<1>5. PathsLead' BY <1>1 DEF IInv, PathsLead, PathHasFile, OneHandler, OneEventEach
<1>6. \A h \in Handler : Staged(h)'
  <2> SUFFICES ASSUME NEW h \in Handler PROVE Staged(h)' OBVIOUS
  <2>1. handler[h].pc = "record" => FaxOf[handler[h].event] \notin old BY FaxInHand
  <2> QED BY <1>1, <2>1, StagedKept DEF IInv
<1>7. OneHandler => Alone' BY DEF IInv, Alone, Fresh, RecordedFiled
<1> QED BY <1>2, <1>3, <1>4, <1>5, <1>6, <1>7 DEF IInv, OneHandler

\* A REMOVE takes files of young rows as well, and it is on record that it did.
LEMMA UnlinkThreadKeeps ==
    ASSUME IInv, NEW f \in Fax, UnlinkThread(f) PROVE IInv'
<1> USE DEF UnlinkThread, outside
<1>1. PICK others \in SUBSET {g \in Fax : row[g].pdf_path} : purge' = {f} \cup others
  OBVIOUS
<1>2. /\ purge' \subseteq Fax /\ disk' = disk \ purge' /\ removed' = removed \cup purge'
      /\ purge = {} /\ removing' = {f} /\ f \in purge'
      /\ \A g \in purge' : row[g].pdf_path
  BY <1>1
<1>3. TypeOK' BY <1>2 DEF IInv, TypeOK
<1>4. InHand' /\ RowsFiled' BY <1>2 DEF IInv, InHand, RowsFiled
<1>5. PurgesFiled'
  <2>1. \A g \in purge' : row[g].status \in {"received", "answered"} BY <1>2, PathFiled
  <2> QED BY <1>2, <2>1 DEF IInv, PurgesFiled
<1>6. PathsLead' BY <1>2 DEF IInv, PathsLead, PathHasFile, OneHandler, OneEventEach
<1>7. \A h \in Handler : Staged(h)' BY <1>2, StagedKept DEF IInv
<1>8. OneHandler => Alone' BY DEF IInv, Alone, Fresh, RecordedFiled
<1> QED BY <1>3, <1>4, <1>5, <1>6, <1>7, <1>8 DEF IInv, OneHandler

\* The rows that lose their path are old or removed, and filed as before.
LEMMA CommitPurgeKeeps ==
    ASSUME IInv, CommitPurge PROVE IInv'
<1> USE DEF CommitPurge, outside
<1>1. ASSUME NEW f \in Fax
      PROVE  /\ row'[f] \in Row
             /\ row'[f].pdf_path => row[f].pdf_path /\ f \notin purge
             /\ f \notin old \cup removed => row'[f] = row[f]
             /\ row[f].status \in {"absent", "failed_download"} => row'[f] = row[f]
             /\ row[f].status \in {"received", "answered"} =>
                   row'[f].status \in {"received", "answered"}
             /\ f \notin purge => row'[f] = row[f]
  <2>1. row[f] \in Row BY DEF IInv, TypeOK
  <2>2. CASE f \in purge
    <3>1. row[f].status \in {"received", "answered"} /\ f \in old \cup removed
      BY <2>2 DEF IInv, PurgesFiled
    <3>2. PICK s \in {"received", "answered"} : row'[f] = [status |-> s, pdf_path |-> FALSE]
      BY <2>2, <3>1
    <3>3. row'[f].status = s /\ row'[f].pdf_path = FALSE BY <3>2
    <3>4. row'[f] \in Row
      <4>1. s \in Status BY DEF Status
      <4>2. [status |-> s, pdf_path |-> FALSE] \in Row BY <4>1 DEF Row
      <4> QED BY <3>2, <4>2, Zenon
    <3> QED BY <2>2, <3>1, <3>3, <3>4
  <2>3. CASE f \notin purge BY <2>1, <2>3
  <2> QED BY <2>2, <2>3
<1>2. row' \in [Fax -> Row] BY <1>1
<1>3. TypeOK' BY <1>2 DEF IInv, TypeOK
<1>4. InHand' BY DEF IInv, InHand
<1>5. PurgesFiled' BY <1>1 DEF IInv, TypeOK, PurgesFiled
<1>6. RowsFiled'
  <2> SUFFICES ASSUME NEW g \in Fax
               PROVE  /\ row'[g].status \in {"absent", "failed_download"} => row'[g] \in Unfiled
                      /\ row'[g].status \in {"received", "answered"} =>
                            /\ \E e \in webhook_events' : FaxOf[e] = g
                            /\ Media[g] = "pdf" => row'[g].pdf_path \/ g \in (old \cup removed)'
      BY DEF RowsFiled
  <2>1. CASE row'[g] = row[g] BY <2>1 DEF IInv, RowsFiled
  <2>2. CASE g \in purge
    <3>1. row[g].status \in {"received", "answered"} /\ g \in old \cup removed
      BY <2>2 DEF IInv, PurgesFiled
    <3> QED BY <1>1, <3>1 DEF IInv, RowsFiled
  <2> QED BY <1>1, <2>1, <2>2
<1>7. PathsLead'
  BY <1>1 DEF IInv, PathsLead, PathHasFile, OneHandler, OneEventEach
<1>8. \A h \in Handler : Staged(h)' BY DEF IInv, Staged
<1>9. \A h \in Handler : Fresh(h) => Fresh(h)'
  <2> SUFFICES ASSUME NEW h \in Handler, Fresh(h) PROVE Fresh(h)' OBVIOUS
  <2>1. CASE handler[h].pc \in {"idle", "reply"} BY <2>1 DEF Fresh
  <2>2. CASE handler[h].pc \notin {"idle", "reply"}
    <3>1. PICK f \in Fax : f = FaxOf[handler[h].event] BY <2>2, FaxInHand
    <3>2. row[f] \in Unfiled => row'[f] = row[f]
      BY <1>1 DEF Unfiled, NoRow, Failed
    <3> QED BY <1>1, <2>2, <3>1, <3>2 DEF Fresh
  <2> QED BY <2>1, <2>2
<1>10. RecordedFiled => RecordedFiled'
  BY <1>1, EventAssumption DEF IInv, TypeOK, RecordedFiled
<1>11. OneHandler => Alone' BY <1>9, <1>10 DEF IInv, Alone
<1> QED BY <1>3, <1>4, <1>5, <1>6, <1>7, <1>8, <1>11 DEF IInv, OneHandler

\* A purge that is not committed leaves paths without files, after a fault.
LEMMA PurgeForgotten ==
    ASSUME IInv, UNCHANGED <<row, webhook_events, disk, old, removed>>,
           purge' = {}, removing' = {}, faults' = faults + 1
    PROVE  RowsFiled' /\ PurgesFiled' /\ PathsLead'
<1>1. faults' > 0 BY DEF IInv, TypeOK
<1>2. RowsFiled' /\ PurgesFiled' BY DEF IInv, RowsFiled, PurgesFiled
<1>3. PathsLead' BY <1>1 DEF IInv, PathsLead, PathHasFile, OneHandler, OneEventEach
<1> QED BY <1>2, <1>3

\* So does one whose commit raises ...
LEMMA PurgeErrorKeeps ==
    ASSUME IInv, PurgeError PROVE IInv'
<1> USE DEF PurgeError, outside
<1>1. RowsFiled' /\ PurgesFiled' /\ PathsLead' BY PurgeForgotten
<1>2. TypeOK' /\ InHand' BY DEF IInv, TypeOK, InHand
<1>3. \A h \in Handler : Staged(h)' BY DEF IInv, Staged
<1>4. OneHandler => Alone' BY DEF IInv, Alone, Fresh, RecordedFiled
<1> QED BY <1>1, <1>2, <1>3, <1>4 DEF IInv, OneHandler

\* ... and a crash, which also forgets what was staged.
LEMMA CrashKeeps ==
    ASSUME IInv, Crash PROVE IInv'
<1> USE DEF Crash, outside
<1>1. \A h \in Handler : handler'[h] = Idle /\ Idle.pc = "idle" BY DEF Idle
<1>2. TypeOK' BY <1>1, RowTypes, FaultAssumption DEF IInv, TypeOK
<1>3. InHand' BY <1>1 DEF InHand
<1>4. RowsFiled' /\ PurgesFiled' /\ PathsLead' BY PurgeForgotten
<1>5. \A h \in Handler : Staged(h)' BY <1>1 DEF Staged
<1>6. OneHandler => Alone' BY <1>1 DEF IInv, Alone, Fresh, RecordedFiled
<1> QED BY <1>2, <1>3, <1>4, <1>5, <1>6 DEF IInv, OneHandler

(***************************************************************************)
(* The theorems.                                                           *)
(***************************************************************************)
\* Nothing has arrived yet.
LEMMA InitIInv == Init => IInv
<1> SUFFICES ASSUME Init PROVE IInv OBVIOUS
<1> USE DEF Init
<1>1. \A h \in Handler : handler[h].pc = "idle" BY DEF Idle
<1>2. \A f \in Fax : row[f].status = "absent" /\ ~row[f].pdf_path /\ row[f] \in Unfiled
  BY Zenon DEF NoRow, Unfiled
<1>3. TypeOK BY RowTypes, FaultAssumption DEF TypeOK
<1>4. InHand /\ PurgesFiled BY <1>1 DEF InHand, PurgesFiled
<1>5. RowsFiled BY <1>2 DEF RowsFiled
<1>6. PathsLead BY <1>2 DEF PathsLead, PathHasFile
<1>7. \A h \in Handler : Staged(h) BY <1>1 DEF Staged
<1>8. Alone BY <1>1 DEF Alone, Fresh, RecordedFiled
<1> QED BY <1>3, <1>4, <1>5, <1>6, <1>7, <1>8 DEF IInv

\* Every step keeps IInv.
LEMMA StepIInv == IInv /\ [Next]_vars => IInv'
<1> SUFFICES ASSUME IInv, [Next]_vars PROVE IInv' OBVIOUS
<1>1. ASSUME NEW h \in Handler, HandlerStep(h) \/ HandlerError(h) PROVE IInv'
  BY <1>1, LoadKeeps, DownloadKeeps, DownloadFailsKeeps, CommitFailureKeeps, WriteFileKeeps,
     RecordEventKeeps, ReplyKeeps, HandlerErrorKeeps DEF HandlerStep
<1>2. ASSUME NEW f \in Fax, Answered(f) \/ UnlinkThread(f) \/ UrlExpires(f) \/ Ages(f)
      PROVE  IInv'
  BY <1>2, AnsweredKeeps, UnlinkThreadKeeps, UrlExpiresKeeps, AgesKeeps
<1>3. CASE Unlink \/ CommitPurge \/ PurgeError \/ Crash
  BY <1>3, UnlinkKeeps, CommitPurgeKeeps, PurgeErrorKeeps, CrashKeeps
<1>4. CASE UNCHANGED vars
  BY <1>4 DEF vars, purges, outside, IInv, TypeOK, InHand, RowsFiled, PurgesFiled, PathsLead,
              PathHasFile, Staged, OneHandler, OneEventEach, Alone, Fresh, RecordedFiled
<1> QED BY <1>1, <1>2, <1>3, <1>4 DEF Next

\* IInv holds at every moment of every run.
THEOREM IntakeInductive == Spec => []IInv
BY InitIInv, StepIInv, PTL DEF Spec

\* Rows, files, events and handlers stay within their types.
THEOREM IntakeTypes == Spec => []TypeOK
<1>1. IInv => TypeOK BY DEF IInv
<1> QED BY <1>1, IntakeInductive, PTL

\* With one web process, or with one event for each fax, a path in the database
\* leads to a file until its fax is old or a REMOVE takes it, and then only until
\* the commit of that REMOVE, unless a fault prevents the commit.
THEOREM PathsLeadToFiles ==
    ASSUME OneHandler \/ OneEventEach PROVE Spec => []PathHasFile
<1>1. IInv => PathHasFile BY OneHandler \/ OneEventEach DEF IInv, PathsLead
<1> QED BY <1>1, IntakeInductive, PTL

\* With one web process, as deployed, what was acknowledged has its pages on
\* file, until a purge.
THEOREM AcknowledgedHasPages ==
    ASSUME OneHandler PROVE Spec => []PagesAcknowledged
<1>1. IInv => PagesAcknowledged
  <2> SUFFICES ASSUME IInv, NEW e \in acked,
                      Media[FaxOf[e]] = "pdf", FaxOf[e] \notin Ignored
               PROVE  /\ row[FaxOf[e]].status \in {"received", "answered"}
                      /\ row[FaxOf[e]].pdf_path \/ FaxOf[e] \in old \cup removed
      BY DEF PagesAcknowledged
  <2>1. FaxOf[e] \in Fax BY EventAssumption DEF IInv, TypeOK
  <2>2. row[FaxOf[e]].status \in {"received", "answered"}
    BY OneHandler DEF IInv, Alone, RecordedFiled
  <2> QED BY <2>1, <2>2 DEF IInv, RowsFiled
<1> QED BY <1>1, IntakeInductive, PTL

\* With one web process, or with one event for each fax, no handler takes a fax
\* back: a failed download is only ever written over a missing row, and the pages
\* over a failed download only while no event of the fax is recorded.
THEOREM NothingUndone ==
    ASSUME OneHandler \/ OneEventEach PROVE Spec => NeverUndone
<1>1. IInv /\ [Next]_vars =>
         [\A f \in Fax :
             /\ row[f].status = "answered" => row'[f].status = "answered"
             /\ row[f].status = "received" => row'[f].status # "failed_download"]_vars
  <2> SUFFICES ASSUME IInv, [Next]_vars, NEW f \in Fax
               PROVE  /\ row[f].status = "answered" => row'[f].status = "answered"
                      /\ row[f].status = "received" => row'[f].status # "failed_download"
      OBVIOUS
  <2>1. ASSUME NEW h \in Handler, handler[h].pc \in {"fail", "record"}, ~Conflict(h),
               CommitRow(h),
               handler[h].pc = "record" => handler[h].event \notin webhook_events
        PROVE  /\ row[f].status = "answered" => row'[f].status = "answered"
               /\ row[f].status = "received" => row'[f].status # "failed_download"
    <3> USE <2>1
    <3>1. PICK g \in Fax : g = FaxOf[handler[h].event] BY FaxInHand
    <3>2. row' = [row EXCEPT ![g] = Written(h)] BY <3>1 DEF CommitRow
    <3>3. CASE f # g \/ Written(h) = row[f] BY <3>2, <3>3 DEF IInv, TypeOK
    <3>4. CASE f = g /\ Written(h) # row[f]
      <4>1. \/ row[f] = NoRow
            \/ /\ handler[h].loaded = Failed /\ handler[h].pc = "record"
        BY <3>1, <3>4, Committed DEF Unfiled
      <4>2. CASE row[f] = NoRow BY <4>2 DEF NoRow
      <4>3. CASE handler[h].loaded = Failed /\ handler[h].pc = "record"
        <5>1. CASE OneHandler
          <6>1. row[f] = Failed BY <3>1, <3>4, <4>3, <5>1 DEF IInv, Alone, Fresh, Unfiled
          <6> QED BY <6>1 DEF Failed
        <5>2. CASE OneEventEach
          <6>1. \A e \in webhook_events : FaxOf[e] # f
            BY <3>1, <3>4, <4>3, <5>2, FaxInHand DEF OneEventEach, IInv, TypeOK
          <6> QED BY <6>1 DEF IInv, RowsFiled
        <5> QED BY <5>1, <5>2
      <4> QED BY <4>1, <4>2, <4>3
    <3> QED BY <3>3, <3>4
  <2>2. CASE UNCHANGED row BY <2>2
  <2>3. ASSUME NEW h \in Handler, CommitFailure(h) \/ RecordEvent(h)
        PROVE  /\ row[f].status = "answered" => row'[f].status = "answered"
               /\ row[f].status = "received" => row'[f].status # "failed_download"
    BY <2>1, <2>2, <2>3 DEF CommitFailure, RecordEvent
  <2>4. ASSUME NEW g \in Fax, Answered(g)
        PROVE  /\ row[f].status = "answered" => row'[f].status = "answered"
               /\ row[f].status = "received" => row'[f].status # "failed_download"
    <3>1. [row[g] EXCEPT !.status = "answered"].status = "answered"
      BY DEF IInv, TypeOK, Row
    <3> QED BY <2>4, <3>1 DEF Answered, IInv, TypeOK
  <2>5. CASE CommitPurge
    <3>1. row'[f] = row[f] \/ row'[f].status \in {row[f].status, "answered"}
      BY <2>5 DEF CommitPurge
    <3> QED BY <3>1
  <2> QED
    BY <2>2, <2>3, <2>4, <2>5
    DEF Next, HandlerStep, Load, Download, DownloadFails, WriteFile, Reply, HandlerError,
        UrlExpires, Ages, Unlink, UnlinkThread, PurgeError, Crash, vars
<1> QED BY <1>1, IntakeInductive, PTL DEF Spec, NeverUndone
=============================================================================
