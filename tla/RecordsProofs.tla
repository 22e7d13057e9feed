----------------------------- MODULE RecordsProofs -----------------------------
(***************************************************************************)
(* Theorems about Records for every value of its constants.                *)
(***************************************************************************)
EXTENDS RecordsInv, TLAPS

(***************************************************************************)
(* Rows.                                                                   *)
(***************************************************************************)
\* A row that gets another status keeps the rest.
LEMMA StatusRow ==
    ASSUME NEW r \in InboundRow,
           NEW s \in {"received", "processing", "replied", "ignored", "failed_processing"}
    PROVE  /\ [r EXCEPT !.status = s] \in InboundRow
           /\ [r EXCEPT !.status = s].status = s
           /\ [r EXCEPT !.status = s].filed = r.filed
           /\ [r EXCEPT !.status = s].pdf_path = r.pdf_path
           /\ [r EXCEPT !.status = s].transcript = r.transcript
BY DEF InboundRow

\* Filing a fax leaves its status and its pages, and writes its transcript.
LEMMA FiledRowKeeps ==
    ASSUME NEW r \in InboundRow, NEW kind
    PROVE  /\ FiledRow(r, kind) \in InboundRow
           /\ FiledRow(r, kind).status = r.status /\ FiledRow(r, kind).pdf_path = r.pdf_path
           /\ FiledRow(r, kind).filed = TRUE
           /\ FiledRow(r, kind).transcript <=> kind \in FromPages
<1>1. PICK b \in BOOLEAN : b = (kind \in FromPages)
  <2>1. (kind \in FromPages) \in BOOLEAN BY DEF FromPages
  <2> QED BY <2>1, Zenon
<1>2. FiledRow(r, kind) = [r EXCEPT !.filed = TRUE, !.transcript = b] BY <1>1 DEF FiledRow
<1>3. /\ FiledRow(r, kind) \in InboundRow
      /\ FiledRow(r, kind).status = r.status /\ FiledRow(r, kind).pdf_path = r.pdf_path
      /\ FiledRow(r, kind).filed = TRUE /\ FiledRow(r, kind).transcript = b
  BY <1>2 DEF InboundRow
<1> QED BY <1>1, <1>3

\* The row of a fax whose exchange is closed.
LEMMA ClosedRow ==
    ASSUME NEW r \in InboundRow, NEW kind
    PROVE  /\ [FiledRow(r, kind) EXCEPT !.status = "replied"] \in InboundRow
           /\ [FiledRow(r, kind) EXCEPT !.status = "replied"].status = "replied"
           /\ [FiledRow(r, kind) EXCEPT !.status = "replied"].pdf_path = r.pdf_path
           /\ [FiledRow(r, kind) EXCEPT !.status = "replied"].filed = TRUE
           /\ [FiledRow(r, kind) EXCEPT !.status = "replied"].transcript <=> kind \in FromPages
<1>1. PICK row \in InboundRow :
         /\ row = FiledRow(r, kind)
         /\ row.pdf_path = r.pdf_path /\ row.filed = TRUE
         /\ row.transcript <=> kind \in FromPages
  BY FiledRowKeeps, Zenon
<1>2. /\ [row EXCEPT !.status = "replied"] \in InboundRow
      /\ [row EXCEPT !.status = "replied"].status = "replied"
      /\ [row EXCEPT !.status = "replied"].filed = row.filed
      /\ [row EXCEPT !.status = "replied"].pdf_path = row.pdf_path
      /\ [row EXCEPT !.status = "replied"].transcript = row.transcript
  BY StatusRow
<1> QED BY <1>1, <1>2

\* A row whose pages are gone.
LEMMA PurgedRow ==
    ASSUME NEW r \in InboundRow
    PROVE  /\ [r EXCEPT !.pdf_path = FALSE] \in InboundRow
           /\ [r EXCEPT !.pdf_path = FALSE].status = r.status
           /\ [r EXCEPT !.pdf_path = FALSE].filed = r.filed
           /\ [r EXCEPT !.pdf_path = FALSE].transcript = r.transcript
           /\ ~[r EXCEPT !.pdf_path = FALSE].pdf_path
BY DEF InboundRow

\* The worker and the moderator without anything in hand.
LEMMA IdleTypes == WorkerIdle \in WorkerState /\ AdminIdle \in AdminState
BY DEF WorkerIdle, WorkerState, Kind, AdminIdle, AdminState

\* A moderated item keeps being one.
LEMMA ItemRow ==
    ASSUME NEW r \in [status : ItemStatus, slug : BOOLEAN], NEW s \in ItemStatus
    PROVE  /\ [r EXCEPT !.status = s] \in [status : ItemStatus, slug : BOOLEAN]
           /\ [r EXCEPT !.status = s].status = s
OBVIOUS

\* The stamp leaves the flag, and the flag the stamp.
LEMMA ThreadRow ==
    ASSUME NEW r \in [flagged : BOOLEAN, removal : SUBSET Fax], NEW b \in BOOLEAN,
           NEW faxes \in SUBSET Fax
    PROVE  /\ [r EXCEPT !.removal = faxes] \in [flagged : BOOLEAN, removal : SUBSET Fax]
           /\ [r EXCEPT !.removal = faxes].removal = faxes
           /\ [r EXCEPT !.flagged = b] \in [flagged : BOOLEAN, removal : SUBSET Fax]
           /\ [r EXCEPT !.flagged = b].removal = r.removal
OBVIOUS

(***************************************************************************)
(* Stamps and files.                                                       *)
(***************************************************************************)
\* The thread of a fax in hand gets the stamp, no other.
LEMMA StampedThread ==
    ASSUME TypeOK, NEW f \in Fax, thread' = Stamped(f)
    PROVE  /\ thread' \in [Thread -> [flagged : BOOLEAN, removal : SUBSET Fax]]
           /\ thread'[ThreadOf[f]].removal = Filed(f)
           /\ \A t \in Thread \ {ThreadOf[f]} : thread'[t] = thread[t]
<1>1. ThreadOf[f] \in Thread /\ Filed(f) \in SUBSET Fax
  BY FilingAssumption DEF Filed, Mates
<1>2. PICK r \in [flagged : BOOLEAN, removal : SUBSET Fax] :
         r.removal = Filed(f) /\ thread' = [thread EXCEPT ![ThreadOf[f]] = r]
  <2>1. thread' = [thread EXCEPT ![ThreadOf[f]] = [thread[ThreadOf[f]] EXCEPT !.removal = Filed(f)]]
    BY <1>1 DEF Stamped, TypeOK
  <2>2. PICK old_row \in [flagged : BOOLEAN, removal : SUBSET Fax] : old_row = thread[ThreadOf[f]]
    BY <1>1 DEF TypeOK
  <2>3. PICK faxes \in SUBSET Fax : faxes = Filed(f) BY <1>1
  <2>4. /\ [old_row EXCEPT !.removal = faxes] \in [flagged : BOOLEAN, removal : SUBSET Fax]
        /\ [old_row EXCEPT !.removal = faxes].removal = faxes
    BY ThreadRow
  <2> QED BY <2>1, <2>2, <2>3, <2>4, Zenon
<1> QED BY <1>1, <1>2 DEF TypeOK

\* A step that sets no stamp, takes nothing out of moderation, gives nothing back
\* that is gone, and gives up a removal only by a fault, keeps the stamps true.
LEMMA StampKept ==
    ASSUME TypeOK, StampsHold, faults' \in {faults, faults + 1},
           \A f \in Fax : item[f].status # "none" => item'[f].status # "none",
           \A t \in Thread : thread'[t].removal = thread[t].removal,
           \A f \in Fax : inbound[f].filed => inbound'[f].filed,
           \A f \in Fax : Gone(f) => Gone(f)',
           \A t \in Thread : Removing(t) => Removing(t)' \/ faults' > 0
    PROVE  StampsHold'
<1> SUFFICES ASSUME NEW t \in Thread, NEW f \in thread[t].removal
             PROVE  /\ ThreadOf[f] = t /\ inbound'[f].filed
                    /\ Gone(f)' \/ (~Unmoderated(t)' /\ (faults' > 0 \/ Removing(t)'))
    BY DEF StampsHold
<1>1. f \in Fax BY DEF TypeOK
<1>2. ThreadOf[f] = t /\ inbound'[f].filed BY <1>1 DEF StampsHold
<1>3. CASE Gone(f) BY <1>1, <1>2, <1>3
<1>4. CASE ~Gone(f)
  <2>1. ~Unmoderated(t) /\ (faults > 0 \/ Removing(t)) BY <1>4 DEF StampsHold
  <2>2. ~Unmoderated(t)' BY <2>1 DEF Unmoderated
  <2>3. faults > 0 => faults' > 0 BY DEF TypeOK
  <2> QED BY <1>2, <2>1, <2>2, <2>3
<1> QED BY <1>3, <1>4

\* In particular a step that touches neither rows of exchanges nor stamps.
LEMMA StampUntouched ==
    ASSUME TypeOK, StampsHold, UNCHANGED <<inbound, thread>>, inbound_dir' \subseteq inbound_dir,
           faults' \in {faults, faults + 1},
           \A f \in Fax : item[f].status # "none" => item'[f].status # "none",
           \A t \in Thread : Removing(t) => Removing(t)' \/ faults' > 0
    PROVE  StampsHold'
BY StampKept DEF Gone

\* Outside the purges paths are only compared with files.
LEMMA PathsKept ==
    ASSUME PathsLast, inbound_dir' \subseteq inbound_dir, worker'.pc \notin {"purge", "expire"},
           \A f \in inbound_dir' : inbound'[f].pdf_path = inbound[f].pdf_path
    PROVE  PathsLast'
BY DEF PathsLast

(***************************************************************************)
(* The worker: an exchange.                                                *)
(***************************************************************************)
\* A fax that moves between the statuses of an open exchange.
LEMMA Moves ==
    ASSUME IInv, NEW f \in Fax, inbound[f].status # "replied",
           NEW s \in {"received", "processing", "ignored", "failed_processing"},
           inbound' = [inbound EXCEPT ![f].status = s],
           worker.pc \notin {"withdraw", "purge"}, worker'.pc \notin {"purge", "expire"},
           UNCHANGED <<item, thread, inbound_dir, media_dir, purged, faults>>
    PROVE  /\ inbound' \in [Fax -> InboundRow] /\ inbound'[f].status = s
           /\ \A g \in Fax \ {f} : inbound'[g] = inbound[g]
           /\ Moderated' /\ StampsHold' /\ PathsLast' /\ LettersPurged'
<1>1. inbound \in [Fax -> InboundRow] BY DEF IInv, TypeOK
<1>2. PICK r \in InboundRow :
         /\ r.status = s /\ inbound' = [inbound EXCEPT ![f] = r]
         /\ r.filed = inbound[f].filed /\ r.pdf_path = inbound[f].pdf_path
         /\ r.transcript = inbound[f].transcript
  <2>1. inbound' = [inbound EXCEPT ![f] = [inbound[f] EXCEPT !.status = s]] BY <1>1
  <2>2. /\ inbound[f] \in InboundRow
        /\ s \in {"received", "processing", "replied", "ignored", "failed_processing"}
    BY <1>1
  <2>3. PICK r \in InboundRow : r = [inbound[f] EXCEPT !.status = s] BY <2>2, StatusRow
  <2> QED BY <2>1, <2>2, <2>3, StatusRow
<1>3. /\ inbound' \in [Fax -> InboundRow] /\ inbound'[f].status = s
      /\ \A g \in Fax \ {f} : inbound'[g] = inbound[g]
  BY <1>1, <1>2
<1>4. \A g \in Fax : /\ inbound'[g].filed = inbound[g].filed
                     /\ inbound'[g].pdf_path = inbound[g].pdf_path
                     /\ inbound'[g].transcript = inbound[g].transcript
  BY <1>1, <1>2, <1>3
<1>5. Moderated' BY <1>3 DEF IInv, Moderated
<1>6. StampsHold'
  <2>1. \A g \in Fax : Gone(g) => Gone(g)' BY <1>4 DEF Gone
  <2>2. \A t \in Thread : ~Removing(t) BY DEF Removing
  <2> QED BY <1>4, <2>1, <2>2, StampKept DEF IInv
<1>7. PathsLast' BY <1>4, PathsKept DEF IInv, TypeOK
<1>8. LettersPurged' BY DEF IInv, LettersPurged
<1> QED BY <1>3, <1>5, <1>6, <1>7, <1>8

\* A fax in hand is claimed.
LEMMA ClaimKeeps ==
    ASSUME IInv, NEW f \in Fax, Claim(f) PROVE IInv'
<1> USE DEF Claim, files
<1>1. worker' \in WorkerState /\ worker'.pc = "work" /\ worker'.fax = f
  BY DEF WorkerIdle, WorkerState, Kind
<1>2. /\ inbound' \in [Fax -> InboundRow] /\ inbound'[f].status = "processing"
      /\ Moderated' /\ StampsHold' /\ PathsLast' /\ LettersPurged'
  BY <1>1, Moves
<1>3. TypeOK' BY <1>1, <1>2 DEF IInv, TypeOK
<1>4. InHand' BY <1>1, <1>2 DEF InHand
<1>5. AdminInHand' /\ ReplyKept' BY DEF IInv, AdminInHand, ReplyKept
<1> QED BY <1>2, <1>3, <1>4, <1>5 DEF IInv

\* Only faxes that are not closed are requeued.
LEMMA RequeueKeeps ==
    ASSUME IInv, NEW f \in Fax, Requeue(f) PROVE IInv'
<1> USE DEF Requeue, files
<1>1. /\ inbound' \in [Fax -> InboundRow]
      /\ Moderated' /\ StampsHold' /\ PathsLast' /\ LettersPurged'
  BY Moves
<1>2. TypeOK' BY <1>1 DEF IInv, TypeOK
<1>3. InHand' BY DEF IInv, InHand
<1>4. AdminInHand' /\ ReplyKept' BY DEF IInv, AdminInHand, ReplyKept
<1> QED BY <1>1, <1>2, <1>3, <1>4 DEF IInv

\* With nothing in hand the worker is in nobody's way.
LEMMA IdleInHand ==
    ASSUME worker' = WorkerIdle PROVE worker' \in WorkerState /\ worker'.pc = "idle" /\ InHand'
<1>1. WorkerIdle.pc = "idle" BY DEF WorkerIdle
<1> QED BY <1>1, IdleTypes DEF InHand

\* An ignored fax has nothing in moderation.
LEMMA IgnoreKeeps ==
    ASSUME IInv, Ignore PROVE IInv'
<1> USE DEF Ignore, files
<1>1. worker.fax \in Fax /\ inbound[worker.fax].status = "processing" BY DEF IInv, InHand
<1>2. worker' \in WorkerState /\ worker'.pc = "idle" /\ InHand' BY IdleInHand
<1>3. /\ inbound' \in [Fax -> InboundRow]
      /\ Moderated' /\ StampsHold' /\ PathsLast' /\ LettersPurged'
  BY <1>1, <1>2, Moves
<1>4. TypeOK' BY <1>2, <1>3 DEF IInv, TypeOK
<1>5. AdminInHand' /\ ReplyKept' BY DEF IInv, AdminInHand, ReplyKept
<1> QED BY <1>2, <1>3, <1>4, <1>5 DEF IInv

\* Flagging a thread does not stamp it.
LEMMA Flagged ==
    ASSUME TypeOK, NEW f \in Fax, NEW kind, thread' = FlaggedBy(f, kind)
    PROVE  /\ thread' \in [Thread -> [flagged : BOOLEAN, removal : SUBSET Fax]]
           /\ \A t \in Thread : thread'[t].removal = thread[t].removal
<1>1. ThreadOf[f] \in Thread BY FilingAssumption
<1>2. PICK b \in BOOLEAN :
         thread' = [thread EXCEPT ![ThreadOf[f]] = [thread[ThreadOf[f]] EXCEPT !.flagged = b]]
  <2>1. (thread[ThreadOf[f]].flagged \/ kind \in {"denied", "lost"}) \in BOOLEAN OBVIOUS
  <2>2. thread' = [thread EXCEPT ![ThreadOf[f]] =
           [thread[ThreadOf[f]] EXCEPT
               !.flagged = thread[ThreadOf[f]].flagged \/ kind \in {"denied", "lost"}]]
    BY <1>1 DEF FlaggedBy, TypeOK
  <2> QED BY <2>1, <2>2
<1>3. PICK r \in [flagged : BOOLEAN, removal : SUBSET Fax] :
         r.removal = thread[ThreadOf[f]].removal /\ thread' = [thread EXCEPT ![ThreadOf[f]] = r]
  <2>1. PICK old_row \in [flagged : BOOLEAN, removal : SUBSET Fax] : old_row = thread[ThreadOf[f]]
    BY <1>1 DEF TypeOK
  <2>2. /\ [old_row EXCEPT !.flagged = b] \in [flagged : BOOLEAN, removal : SUBSET Fax]
        /\ [old_row EXCEPT !.flagged = b].removal = old_row.removal
    BY ThreadRow
  <2> QED BY <1>2, <2>1, <2>2, Zenon
<1> QED BY <1>1, <1>3 DEF TypeOK

\* The reply PDF is there before the intent is, and a text taken from the pages is
\* filed for pages that are there.
LEMMA ComposeKeeps ==
    ASSUME IInv, Compose PROVE IInv'
<1> USE DEF IInv
<1>1. PICK f \in Fax : f = worker.fax /\ inbound[f].status = "processing"
  BY DEF Compose, InHand
<1>2. PICK kind \in Kind :
         /\ kind \in FromPages => f \in inbound_dir
         /\ media_dir' = media_dir \cup {f} /\ purged' = purged \ {f}
         /\ IF outbound[f] \notin {"none", "pending"}
            THEN /\ worker' = [worker EXCEPT !.pc = "sent", !.kind = kind]
                 /\ UNCHANGED <<inbound, outbound, thread>>
            ELSE /\ worker' = [worker EXCEPT !.pc = "send", !.kind = kind]
                 /\ inbound' = [inbound EXCEPT ![f] = FiledRow(@, kind)]
                 /\ outbound' = [outbound EXCEPT ![f] = "pending"]
                 /\ thread' = FlaggedBy(f, kind)
  <2>1. /\ Verdicts \subseteq Kind /\ {"lost"} \cup (Verdicts \ FromPages) \subseteq Kind
        /\ "lost" \notin FromPages
    BY FilingAssumption DEF Kind, FromPages
  <2> QED BY <1>1, <2>1 DEF Compose
<1>3. UNCHANGED <<item, inbound_dir, gallery_dir, old, admin, faults>> BY DEF Compose
<1>4. worker \in WorkerState BY DEF TypeOK
<1>5. LettersPurged' BY <1>2 DEF LettersPurged
<1>6. \A t \in Thread : ~Removing(t) BY DEF Compose, Removing
<1>7. CASE outbound[f] \notin {"none", "pending"}
  <2>1. UNCHANGED <<inbound, outbound, thread>> BY <1>2, <1>7
  <2>2. /\ worker' \in WorkerState /\ worker'.pc = "sent" /\ worker'.fax = f
        /\ worker'.kind = kind
    BY <1>1, <1>2, <1>4, <1>7 DEF WorkerState
  <2>3. TypeOK' BY <1>2, <1>3, <2>1, <2>2 DEF TypeOK
  <2>4. InHand' BY <1>1, <1>2, <1>3, <2>1, <2>2 DEF InHand
  <2>5. AdminInHand' /\ Moderated' BY <1>3, <2>1 DEF AdminInHand, Moderated
  <2>6. StampsHold' BY <1>3, <1>6, <2>1, StampUntouched
  <2>7. ReplyKept' BY <1>2, <2>1 DEF ReplyKept
  <2>8. PathsLast' BY <1>3, <2>1, <2>2, PathsKept
  <2> QED BY <1>5, <2>3, <2>4, <2>5, <2>6, <2>7, <2>8
<1>8. CASE outbound[f] \in {"none", "pending"}
  <2>1. PICK r \in InboundRow : /\ inbound' = [inbound EXCEPT ![f] = r]
                                /\ r.status = "processing" /\ r.filed = TRUE
                                /\ r.pdf_path = inbound[f].pdf_path
                                /\ r.transcript => kind \in FromPages
    <3>1. inbound[f] \in InboundRow BY DEF TypeOK
    <3>2. inbound' = [inbound EXCEPT ![f] = FiledRow(inbound[f], kind)] BY <1>2, <1>8
    <3> QED BY <1>1, <3>1, <3>2, FiledRowKeeps
  <2>2. outbound' = [outbound EXCEPT ![f] = "pending"] /\ thread' = FlaggedBy(f, kind)
    BY <1>2, <1>8
  <2>3. /\ worker' \in WorkerState /\ worker'.pc = "send" /\ worker'.fax = f
        /\ worker'.kind = kind
    BY <1>1, <1>2, <1>4, <1>8 DEF WorkerState
  <2>4. /\ thread' \in [Thread -> [flagged : BOOLEAN, removal : SUBSET Fax]]
        /\ \A t \in Thread : thread'[t].removal = thread[t].removal
    BY <2>2, Flagged
  <2>5. /\ inbound' \in [Fax -> InboundRow] /\ inbound'[f] = r
        /\ \A g \in Fax \ {f} : inbound'[g] = inbound[g]
    BY <2>1 DEF TypeOK
  <2>6. outbound' \in [Fax -> OutboundStatus] /\ outbound'[f] = "pending"
    BY <2>2 DEF TypeOK, OutboundStatus
  <2>7. TypeOK' BY <1>2, <1>3, <2>3, <2>4, <2>5, <2>6 DEF TypeOK
  <2>8. InHand' BY <1>2, <1>3, <2>1, <2>3, <2>5, <2>6 DEF InHand
  <2>9. AdminInHand' /\ Moderated' BY <1>1, <1>3, <2>5 DEF AdminInHand, Moderated
  <2>10. StampsHold'
    <3>1. \A g \in Fax : Gone(g) => Gone(g)'
      BY <1>2, <1>3, <2>1, <2>5 DEF Gone
    <3>2. \A g \in Fax : inbound[g].filed => inbound'[g].filed BY <2>1, <2>5
    <3> QED BY <1>3, <1>6, <2>4, <3>1, <3>2, StampKept
  <2>11. ReplyKept' BY <1>2, <2>2 DEF ReplyKept, TypeOK
  <2>12. PathsLast'
    <3>1. \A g \in inbound_dir' : inbound'[g].pdf_path = inbound[g].pdf_path
      BY <1>3, <2>1, <2>5 DEF TypeOK
    <3> QED BY <1>3, <2>3, <3>1, PathsKept
  <2> QED BY <1>5, <2>7, <2>8, <2>9, <2>10, <2>11, <2>12
<1> QED BY <1>7, <1>8

\* The letter that goes out is the one that is on disk.
LEMMA SendKeeps ==
    ASSUME IInv, Send PROVE IInv'
<1> USE DEF IInv, Send, Goto, files
<1>1. PICK f \in Fax : /\ f = worker.fax /\ inbound[f].status = "processing"
                       /\ outbound[f] = "pending"
                       /\ worker.kind \in FromPages => f \in inbound_dir
  BY DEF InHand
<1>2. /\ worker' \in WorkerState /\ worker'.pc = "sent" /\ worker'.fax = f
      /\ worker'.kind = worker.kind
  BY <1>1 DEF TypeOK, WorkerState
<1>3. TypeOK' BY <1>1, <1>2 DEF TypeOK, OutboundStatus
<1>4. InHand' BY <1>1, <1>2 DEF InHand
<1>5. AdminInHand' /\ Moderated' /\ LettersPurged'
  BY DEF AdminInHand, Moderated, LettersPurged
<1>6. StampsHold'
  <2>1. \A t \in Thread : ~Removing(t) BY DEF Removing
  <2> QED BY <2>1, StampUntouched
<1>7. ReplyKept' BY <1>1 DEF ReplyKept, TypeOK
<1>8. PathsLast' BY <1>2, PathsKept
<1> QED BY <1>3, <1>4, <1>5, <1>6, <1>7, <1>8

\* A failure gives the fax up and leaves what is committed; if the worker was at a
\* removal, that was a fault.
LEMMA GivenUp ==
    ASSUME IInv, worker' = WorkerIdle, UNCHANGED <<rows, files, old, purged>>,
           UNCHANGED admin \/ admin' = AdminIdle,
           faults' \in {faults, faults + 1},
           worker.pc \in {"withdraw", "purge"} => faults' = faults + 1
    PROVE  IInv'
<1> USE DEF IInv, rows, files
<1>1. worker' \in WorkerState /\ worker'.pc = "idle" /\ InHand' BY IdleInHand
<1>2. admin' \in AdminState /\ AdminInHand'
  <2>1. AdminIdle.pc = "idle" BY DEF AdminIdle
  <2> QED BY <2>1, IdleTypes DEF TypeOK, AdminInHand
<1>3. TypeOK' BY <1>1, <1>2 DEF TypeOK
<1>4. Moderated' /\ ReplyKept' /\ LettersPurged' BY DEF Moderated, ReplyKept, LettersPurged
<1>5. StampsHold'
  <2>1. \A t \in Thread : Removing(t) => faults' > 0 BY DEF Removing, TypeOK
  <2> QED BY <2>1, StampUntouched
<1>6. PathsLast' BY <1>1, PathsKept
<1> QED BY <1>1, <1>2, <1>3, <1>4, <1>5, <1>6

\* The exchange enters moderation with the commit that closes it.
LEMMA CloseKeeps ==
    ASSUME IInv, Close PROVE IInv'
<1> USE DEF IInv
<1>1. PICK f \in Fax : /\ f = worker.fax /\ inbound[f].status = "processing"
                       /\ worker.kind \in FromPages => f \in inbound_dir
  BY DEF Close, InHand
<1>2. PICK r \in InboundRow : /\ r.status = "replied" /\ r.filed = TRUE
                              /\ r.pdf_path = inbound[f].pdf_path
                              /\ r.transcript => worker.kind \in FromPages
                              /\ inbound' = [inbound EXCEPT ![f] = r]
  <2>1. inbound[f] \in InboundRow BY DEF TypeOK
  <2>2. inbound' = [inbound EXCEPT ![f] =
                       [FiledRow(inbound[f], worker.kind) EXCEPT !.status = "replied"]]
    BY <1>1 DEF Close
  <2> QED BY <2>1, <2>2, ClosedRow
<1>3. item' \in {item, [item EXCEPT ![f] = [status |-> "pending", slug |-> FALSE]]}
  BY <1>1 DEF Close
<1>4. thread' = FlaggedBy(f, worker.kind) BY <1>1 DEF Close
<1>5. UNCHANGED <<outbound, files, old, admin, purged, faults>> BY DEF Close
<1>6. /\ thread' \in [Thread -> [flagged : BOOLEAN, removal : SUBSET Fax]]
      /\ \A t \in Thread : thread'[t].removal = thread[t].removal
  BY <1>4, Flagged
<1>7. /\ inbound' \in [Fax -> InboundRow] /\ inbound'[f] = r
      /\ \A g \in Fax \ {f} : inbound'[g] = inbound[g]
  BY <1>2 DEF TypeOK
<1>8. /\ item' \in [Fax -> [status : ItemStatus, slug : BOOLEAN]]
      /\ \A g \in Fax : item[g].status # "none" => item'[g].status # "none"
      /\ \A g \in Fax \ {f} : item'[g] = item[g]
  <2>1. PICK new \in [status : ItemStatus, slug : BOOLEAN] :
           new = [status |-> "pending", slug |-> FALSE] /\ new.status = "pending"
    <3>1. [status |-> "pending", slug |-> FALSE] \in [status : ItemStatus, slug : BOOLEAN]
      BY DEF ItemStatus
    <3>2. [status |-> "pending", slug |-> FALSE].status = "pending" OBVIOUS
    <3> QED BY <3>1, <3>2, Zenon
  <2>2. CASE item' = item BY <2>2 DEF TypeOK
  <2>3. CASE item' = [item EXCEPT ![f] = new] BY <2>1, <2>3 DEF TypeOK
  <2> QED BY <1>3, <2>1, <2>2, <2>3
<1>9. worker' \in WorkerState /\ worker'.pc = "idle" /\ InHand' BY IdleInHand DEF Close
<1>10. TypeOK' BY <1>5, <1>6, <1>7, <1>8, <1>9 DEF TypeOK, files
<1>11. AdminInHand' BY <1>5, <1>8 DEF AdminInHand
<1>12. Moderated' BY <1>2, <1>7, <1>8 DEF Moderated
<1>13. StampsHold'
  <2>1. \A t \in Thread : ~Removing(t) BY DEF Close, Removing
  <2>2. \A g \in Fax : Gone(g) => Gone(g)'
    BY <1>1, <1>2, <1>5, <1>7 DEF Gone, files
  <2>3. \A g \in Fax : inbound[g].filed => inbound'[g].filed BY <1>2, <1>7
  <2> QED BY <1>5, <1>6, <1>8, <2>1, <2>2, <2>3, StampKept
<1>14. ReplyKept' /\ LettersPurged' BY <1>5 DEF ReplyKept, LettersPurged, files
<1>15. PathsLast'
  <2>1. \A g \in inbound_dir' : inbound'[g].pdf_path = inbound[g].pdf_path
    BY <1>2, <1>5, <1>7 DEF TypeOK, files
  <2> QED BY <1>5, <1>9, <2>1, PathsKept DEF files
<1> QED BY <1>9, <1>10, <1>11, <1>12, <1>13, <1>14, <1>15

(***************************************************************************)
(* The worker: a removal, and the hourly purge.                            *)
(***************************************************************************)
\* What is selected to be withdrawn is in moderation, and of the same thread.
LEMMA StartRemovalKeeps ==
    ASSUME IInv, StartRemoval PROVE IInv'
<1> USE DEF IInv, StartRemoval, rows, files
<1> DEFINE live == {g \in Mates(worker.fax) : item[g].status \in {"pending", "approved"}}
<1>1. live \subseteq Fax /\ {g \in live : item[g].slug} \subseteq Fax BY DEF Mates
<1>2. worker.fax \in RemoveFax BY DEF Removes
<1>3. worker' = [worker EXCEPT !.pc = "withdraw", !.items = live,
                               !.slugs = {g \in live : item[g].slug}]
  OBVIOUS
<1>4. \A g \in live : g \in Mates(worker.fax) /\ item[g].status # "none" OBVIOUS
<1> HIDE DEF live
<1>5. /\ worker' \in WorkerState /\ worker'.pc = "withdraw" /\ worker'.fax = worker.fax
      /\ worker'.items = live
  BY <1>1, <1>3 DEF TypeOK, WorkerState
<1>6. TypeOK' BY <1>5 DEF TypeOK
<1>7. InHand' BY <1>2, <1>4, <1>5 DEF InHand, Mates
<1>8. AdminInHand' /\ Moderated' /\ ReplyKept' /\ LettersPurged'
  BY DEF AdminInHand, Moderated, ReplyKept, LettersPurged
<1>9. StampsHold'
  <2>1. \A t \in Thread : ~Removing(t) BY DEF Removing
  <2> QED BY <2>1, StampUntouched
<1>10. PathsLast' BY <1>5, PathsKept
<1> QED BY <1>6, <1>7, <1>8, <1>9, <1>10

\* The commit of unpublish stamps the thread early, but with an item of the
\* thread in moderation and the removal under way.
LEMMA WithdrawKeeps ==
    ASSUME IInv, NEW g \in Fax, Withdraw(g) PROVE IInv'
<1> USE DEF IInv
<1>1. PICK f \in Fax : f = worker.fax /\ f \in RemoveFax
  BY FilingAssumption DEF Withdraw, InHand
<1>2. g \in worker.items /\ ThreadOf[g] = ThreadOf[f] /\ item[g].status # "none"
  BY <1>1 DEF Withdraw, InHand, Mates
<1>3. /\ gallery_dir' \subseteq Fax
      /\ UNCHANGED <<outbound, inbound_dir, media_dir, old, admin, purged, faults>>
  BY DEF Withdraw, TypeOK
<1>4. /\ item' \in [Fax -> [status : ItemStatus, slug : BOOLEAN]]
      /\ item'[g].status = "removed" /\ \A e \in Fax \ {g} : item'[e] = item[e]
  <2>1. item' = [item EXCEPT ![g] = [item[g] EXCEPT !.status = "removed"]]
    BY DEF Withdraw, TypeOK
  <2>2. /\ [item[g] EXCEPT !.status = "removed"] \in [status : ItemStatus, slug : BOOLEAN]
        /\ [item[g] EXCEPT !.status = "removed"].status = "removed"
    BY ItemRow DEF TypeOK, ItemStatus
  <2> QED BY <2>1, <2>2 DEF TypeOK
<1>5. /\ inbound' \in [Fax -> InboundRow] /\ inbound'[f].status = "replied"
      /\ inbound'[f].filed /\ inbound'[f].pdf_path = inbound[f].pdf_path
      /\ \A e \in Fax \ {f} : inbound'[e] = inbound[e]
  <2>1. PICK r \in InboundRow : /\ r.status = "replied" /\ r.filed = TRUE
                                /\ r.pdf_path = inbound[f].pdf_path
                                /\ inbound' = [inbound EXCEPT ![f] = r]
    <3>1. inbound' = [inbound EXCEPT ![f] =
                         [FiledRow(inbound[f], worker.kind) EXCEPT !.status = "replied"]]
      BY <1>1 DEF Withdraw
    <3> QED BY <3>1, ClosedRow DEF TypeOK
  <2> QED BY <2>1 DEF TypeOK
<1>6. /\ thread' \in [Thread -> [flagged : BOOLEAN, removal : SUBSET Fax]]
      /\ thread'[ThreadOf[f]].removal = Filed(f)
      /\ \A t \in Thread \ {ThreadOf[f]} : thread'[t] = thread[t]
  BY <1>1, StampedThread DEF Withdraw
<1>7. /\ worker' \in WorkerState /\ worker'.pc = "withdraw" /\ worker'.fax = f
      /\ worker'.items = worker.items \ {g}
  BY <1>1 DEF Withdraw, TypeOK, WorkerState
<1>8. TypeOK' BY <1>3, <1>4, <1>5, <1>6, <1>7 DEF TypeOK
<1>9. \A e \in Fax : item[e].status # "none" => item'[e].status # "none" BY <1>4
<1>10. InHand'
  <2>1. \A e \in worker'.items : e \in Mates(f) /\ item'[e].status # "none"
    BY <1>1, <1>7, <1>9 DEF Withdraw, InHand, Mates
  <2> QED BY <1>1, <1>7, <2>1 DEF InHand
<1>11. AdminInHand' BY <1>3, <1>9 DEF AdminInHand
<1>12. Moderated'
  <2>1. inbound[g].status = "replied" BY <1>2 DEF Moderated
  <2> QED BY <1>4, <1>5, <2>1 DEF Moderated
<1>13. StampsHold'
  <2> SUFFICES ASSUME NEW t \in Thread, NEW e \in thread'[t].removal
               PROVE  /\ ThreadOf[e] = t /\ inbound'[e].filed
                      /\ Gone(e)' \/ (~Unmoderated(t)' /\ (faults' > 0 \/ Removing(t)'))
      BY DEF StampsHold
  <2>1. CASE t = ThreadOf[f]
    <3>1. ThreadOf[e] = t /\ inbound'[e].filed BY <1>5, <1>6, <2>1 DEF Filed, Mates
    <3>2. ~Unmoderated(t)' BY <1>2, <1>4, <2>1 DEF Unmoderated
    <3>3. Removing(t)' BY <1>7, <2>1 DEF Removing
    <3> QED BY <3>1, <3>2, <3>3
  <2>2. CASE t # ThreadOf[f]
    <3>1. e \in thread[t].removal /\ e \in Fax BY <1>6, <2>2 DEF TypeOK
    <3>2. ThreadOf[e] = t /\ inbound[e].filed BY <3>1 DEF StampsHold
    <3>3. inbound'[e] = inbound[e] BY <1>5, <2>2, <3>1, <3>2
    <3>4. ~Unmoderated(t) => ~Unmoderated(t)' BY <1>9 DEF Unmoderated
    <3>5. ~Removing(t) BY <1>1, <2>2 DEF Removing
    <3> QED BY <1>3, <3>1, <3>2, <3>3, <3>4, <3>5 DEF StampsHold, Gone
  <2> QED BY <2>1, <2>2
<1>14. ReplyKept' /\ LettersPurged' BY <1>3 DEF ReplyKept, LettersPurged
<1>15. PathsLast'
  <2>1. \A e \in inbound_dir' : inbound'[e].pdf_path = inbound[e].pdf_path
    BY <1>3, <1>5 DEF TypeOK
  <2> QED BY <1>3, <1>7, <2>1, PathsKept
<1> QED BY <1>8, <1>10, <1>11, <1>12, <1>13, <1>14, <1>15

\* Only final letters are purged, and all pages filed in the thread.
LEMMA PurgeThreadKeeps ==
    ASSUME IInv, PurgeThread PROVE IInv'
<1> USE DEF IInv, Goto, rows
<1>1. PICK closed \in SUBSET Fax :
         /\ \A g \in closed : outbound[g] = "closed"
         /\ media_dir' = media_dir \ closed /\ purged' = purged \cup closed
  BY DEF PurgeThread, Filed, Mates
<1>2. /\ inbound_dir' = inbound_dir \ {g \in Filed(worker.fax) : inbound[g].pdf_path}
      /\ worker.pc = "withdraw"
      /\ UNCHANGED <<rows, gallery_dir, old, admin, faults>>
  BY DEF PurgeThread
<1>3. worker' \in WorkerState /\ worker'.pc = "purge" /\ worker'.fax = worker.fax
  BY DEF PurgeThread, TypeOK, WorkerState
<1>4. TypeOK' BY <1>1, <1>2, <1>3 DEF TypeOK
<1>5. InHand' BY <1>2, <1>3 DEF InHand
<1>6. AdminInHand' /\ Moderated' BY <1>2 DEF AdminInHand, Moderated
<1>7. ReplyKept' /\ LettersPurged' BY <1>1, <1>2 DEF ReplyKept, LettersPurged
<1>8. StampsHold'
  <2>1. \A t \in Thread : Removing(t) => Removing(t)' BY <1>3 DEF Removing
  <2> QED BY <1>2, <2>1, StampUntouched
<1>9. PathsLast'
  <2>1. \A f \in inbound_dir' : inbound'[f].pdf_path BY <1>2 DEF PathsLast
  <2>2. Filed(worker.fax)' = Filed(worker.fax) BY <1>2, <1>3 DEF Filed, Mates
  <2>3. Filed(worker.fax) \cap inbound_dir' = {} BY <1>2 DEF PathsLast
  <2> QED BY <1>3, <2>1, <2>2, <2>3 DEF PathsLast
<1> QED BY <1>4, <1>5, <1>6, <1>7, <1>8, <1>9

\* The stamp is committed together with the cleared rows of the thread, whose
\* files are gone by then.
LEMMA CommitRemovalKeeps ==
    ASSUME IInv, CommitRemoval PROVE IInv'
<1> USE DEF IInv
<1>1. PICK f \in Fax : f = worker.fax /\ f \in RemoveFax /\ Filed(f) \cap inbound_dir = {}
  BY FilingAssumption DEF CommitRemoval, InHand, PathsLast
<1>2. UNCHANGED <<outbound, item, files, old, admin, purged, faults>> BY DEF CommitRemoval
<1>3. ASSUME NEW g \in Fax
      PROVE  /\ inbound'[g] \in InboundRow
             /\ inbound'[g].status = IF g = f THEN "replied" ELSE inbound[g].status
             /\ inbound'[g].filed <=> inbound[g].filed \/ g = f
             /\ inbound'[g].pdf_path <=> inbound[g].pdf_path /\ g \notin Filed(f)
             /\ inbound'[g].transcript <=> inbound[g].transcript /\ g \notin Filed(f)
  <2> DEFINE r == inbound[g]
  <2>1. inbound'[g] = [r EXCEPT !.status = IF g = f THEN "replied" ELSE @,
                                !.filed = @ \/ g = f,
                                !.pdf_path = @ /\ g \notin Filed(f),
                                !.transcript = @ /\ g \notin Filed(f)]
    BY <1>1 DEF CommitRemoval
  <2>2. r \in InboundRow BY DEF TypeOK
  <2>3. PICK s \in {"received", "processing", "replied", "ignored", "failed_processing"},
             b \in BOOLEAN, p \in BOOLEAN, w \in BOOLEAN :
           /\ s = IF g = f THEN "replied" ELSE r.status
           /\ b = (r.filed \/ g = f)
           /\ p = (r.pdf_path /\ g \notin Filed(f))
           /\ w = (r.transcript /\ g \notin Filed(f))
    BY <2>2 DEF InboundRow
  <2>4. inbound'[g] = [r EXCEPT !.status = s, !.filed = b, !.pdf_path = p, !.transcript = w]
    BY <2>1, <2>3
  <2>5. /\ inbound'[g] \in InboundRow /\ inbound'[g].status = s /\ inbound'[g].filed = b
        /\ inbound'[g].pdf_path = p /\ inbound'[g].transcript = w
    BY <2>2, <2>4 DEF InboundRow
  <2> QED BY <2>3, <2>5
<1>4. DOMAIN inbound' = Fax /\ inbound' \in [Fax -> InboundRow]
  BY <1>3 DEF CommitRemoval
<1>5. /\ thread' \in [Thread -> [flagged : BOOLEAN, removal : SUBSET Fax]]
      /\ thread'[ThreadOf[f]].removal = Filed(f)
      /\ \A t \in Thread \ {ThreadOf[f]} : thread'[t] = thread[t]
  BY <1>1, StampedThread DEF CommitRemoval
<1>6. worker' \in WorkerState /\ worker'.pc = "idle" /\ InHand'
  BY IdleInHand DEF CommitRemoval
<1>7. TypeOK' BY <1>2, <1>4, <1>5, <1>6 DEF TypeOK, files
<1>8. AdminInHand' /\ ReplyKept' /\ LettersPurged'
  BY <1>2 DEF AdminInHand, ReplyKept, LettersPurged, files
<1>9. Moderated' BY <1>2, <1>3 DEF Moderated
<1>10. StampsHold'
  <2> SUFFICES ASSUME NEW t \in Thread, NEW e \in thread'[t].removal
               PROVE  /\ ThreadOf[e] = t /\ inbound'[e].filed
                      /\ Gone(e)' \/ (~Unmoderated(t)' /\ (faults' > 0 \/ Removing(t)'))
      BY DEF StampsHold
  <2>1. CASE t = ThreadOf[f]
    <3>1. e \in Filed(f) /\ e \in Fax BY <1>5, <2>1 DEF Filed, Mates
    <3>2. ThreadOf[e] = t /\ inbound'[e].filed BY <1>3, <2>1, <3>1 DEF Filed, Mates
    <3>3. Gone(e)' BY <1>1, <1>2, <1>3, <3>1 DEF Gone, files
    <3> QED BY <3>2, <3>3
  <2>2. CASE t # ThreadOf[f]
    <3>1. e \in thread[t].removal /\ e \in Fax BY <1>5, <2>2 DEF TypeOK
    <3>2. ThreadOf[e] = t /\ inbound[e].filed BY <3>1 DEF StampsHold
    <3>3. inbound'[e].filed /\ (Gone(e) => Gone(e)')
      BY <1>2, <1>3, <3>1, <3>2 DEF Gone, files
    <3>4. ~Unmoderated(t) => ~Unmoderated(t)' BY <1>2 DEF Unmoderated
    <3>5. ~Removing(t) BY <1>1, <2>2 DEF Removing
    <3> QED BY <1>2, <3>1, <3>2, <3>3, <3>4, <3>5 DEF StampsHold
  <2> QED BY <2>1, <2>2
<1>11. PathsLast'
  <2>1. \A e \in inbound_dir' : inbound'[e].pdf_path = inbound[e].pdf_path
    <3> SUFFICES ASSUME NEW e \in inbound_dir PROVE inbound'[e].pdf_path = inbound[e].pdf_path
        BY <1>2 DEF files
    <3>1. e \in Fax /\ e \notin Filed(f) BY <1>1 DEF TypeOK
    <3>2. inbound'[e].pdf_path \in BOOLEAN /\ inbound[e].pdf_path \in BOOLEAN
      BY <1>4, <3>1 DEF TypeOK, InboundRow
    <3> QED BY <1>3, <3>1, <3>2
  <2> QED BY <1>2, <1>6, <2>1, PathsKept DEF files
<1> QED BY <1>6, <1>7, <1>8, <1>9, <1>10, <1>11

\* The hourly purge takes final letters only ...
LEMMA PurgeExpiredKeeps ==
    ASSUME IInv, PurgeExpired PROVE IInv'
<1> USE DEF IInv, PurgeExpired, rows
<1>1. /\ worker' \in WorkerState /\ worker'.pc = "expire"
      /\ worker'.items = {f \in old : inbound[f].pdf_path}
  BY DEF TypeOK, WorkerState, WorkerIdle, Kind
<1>2. TypeOK' BY <1>1 DEF TypeOK
<1>3. InHand' BY <1>1 DEF InHand
<1>4. AdminInHand' /\ Moderated' /\ ReplyKept' /\ LettersPurged'
  BY DEF AdminInHand, Moderated, ReplyKept, LettersPurged
<1>5. StampsHold'
  <2>1. \A t \in Thread : ~Removing(t) BY DEF Removing
  <2> QED BY <2>1, StampUntouched
<1>6. PathsLast' BY <1>1 DEF PathsLast
<1> QED BY <1>2, <1>3, <1>4, <1>5, <1>6

\* ... and clears paths, nothing else.
LEMMA CommitExpiredKeeps ==
    ASSUME IInv, CommitExpired PROVE IInv'
<1> USE DEF IInv, CommitExpired, files
<1>1. ASSUME NEW f \in Fax
      PROVE  /\ inbound'[f] \in InboundRow /\ inbound'[f].status = inbound[f].status
             /\ inbound'[f].filed = inbound[f].filed
             /\ f \notin worker.items => inbound'[f] = inbound[f]
             /\ Gone(f) => Gone(f)'
  <2>1. inbound[f] \in InboundRow BY DEF TypeOK
  <2>2. CASE f \in worker.items
    <3>1. inbound'[f] = [inbound[f] EXCEPT !.pdf_path = FALSE] BY <2>2
    <3> QED BY <2>1, <2>2, <3>1, PurgedRow DEF Gone
  <2>3. CASE f \notin worker.items BY <2>1, <2>3 DEF Gone
  <2> QED BY <2>2, <2>3
<1>2. inbound' \in [Fax -> InboundRow] BY <1>1
<1>3. worker' \in WorkerState /\ worker'.pc = "idle" /\ InHand' BY IdleInHand
<1>4. TypeOK' BY <1>2, <1>3 DEF TypeOK
<1>5. AdminInHand' /\ ReplyKept' /\ LettersPurged'
  BY DEF AdminInHand, ReplyKept, LettersPurged
<1>6. Moderated' BY <1>1 DEF Moderated
<1>7. StampsHold'
  <2>1. \A t \in Thread : ~Removing(t) BY DEF Removing
  <2> QED BY <1>1, <2>1, StampKept
<1>8. PathsLast'
  <2>1. \A f \in inbound_dir' : inbound'[f].pdf_path = inbound[f].pdf_path
    BY <1>1 DEF PathsLast, TypeOK
  <2> QED BY <1>3, <2>1, PathsKept
<1> QED BY <1>3, <1>4, <1>5, <1>6, <1>7, <1>8

(***************************************************************************)
(* The moderator.                                                          *)
(***************************************************************************)
\* What the moderator's request leaves alone.
LEMMA WorkerUntouched ==
    ASSUME IInv, UNCHANGED <<inbound, outbound, thread, inbound_dir, media_dir, old, worker, purged, faults>>,
           gallery_dir' \subseteq Fax, admin' \in AdminState,
           item' \in [Fax -> [status : ItemStatus, slug : BOOLEAN]],
           \A f \in Fax : item[f].status # "none" <=> item'[f].status # "none"
    PROVE  /\ TypeOK' /\ InHand' /\ Moderated' /\ PathsLast' /\ StampsHold' /\ LettersPurged'
           /\ ReplyKept'
<1> USE DEF IInv
<1>1. TypeOK' BY DEF TypeOK
<1>2. InHand'
  <2>1. worker.pc = "withdraw" =>
           \A g \in worker.items : g \in Mates(worker.fax) /\ item'[g].status # "none"
    BY DEF InHand, Mates
  <2> QED BY <2>1 DEF InHand
<1>3. Moderated' /\ ReplyKept' /\ LettersPurged' BY DEF Moderated, ReplyKept, LettersPurged
<1>4. StampsHold'
  <2>1. \A t \in Thread : Removing(t) => Removing(t)' BY DEF Removing
  <2> QED BY <2>1, StampUntouched
<1>5. PathsLast' BY DEF PathsLast, Filed, Mates
<1> QED BY <1>1, <1>2, <1>3, <1>4, <1>5

\* A request is about an item in moderation.
LEMMA ModerateKeeps ==
    ASSUME IInv, NEW f \in Fax, Moderate(f) PROVE IInv'
<1> USE DEF IInv, Moderate, rows, files
<1>1. admin' \in AdminState /\ admin'.fax = f BY DEF AdminState
<1>2. item[f].status # "none" OBVIOUS
<1>3. AdminInHand' BY <1>1, <1>2 DEF AdminInHand
<1>4. /\ TypeOK' /\ InHand' /\ Moderated' /\ PathsLast' /\ StampsHold' /\ LettersPurged'
      /\ ReplyKept'
  BY <1>1, WorkerUntouched DEF TypeOK
<1> QED BY <1>3, <1>4

\* Page images are files of the gallery only.
LEMMA RasterizeKeeps ==
    ASSUME IInv, Rasterize PROVE IInv'
<1> USE DEF IInv, Rasterize, rows
<1>1. admin.fax \in Fax /\ item[admin.fax].status # "none" BY DEF AdminInHand
<1>2. admin' \in AdminState /\ admin'.fax = admin.fax BY DEF TypeOK, AdminState
<1>3. gallery_dir' \subseteq Fax BY <1>1 DEF TypeOK
<1>4. AdminInHand' BY <1>1, <1>2 DEF AdminInHand
<1>5. /\ TypeOK' /\ InHand' /\ Moderated' /\ PathsLast' /\ StampsHold' /\ LettersPurged'
      /\ ReplyKept'
  BY <1>2, <1>3, WorkerUntouched DEF TypeOK
<1> QED BY <1>4, <1>5

\* A decision writes an item that is in moderation, whatever it is by now.
LEMMA DecisionKeeps ==
    ASSUME IInv, admin.pc # "idle", admin' = AdminIdle, gallery_dir' \subseteq Fax,
           NEW new \in [status : ItemStatus, slug : BOOLEAN], new.status # "none",
           item' = [item EXCEPT ![admin.fax] = new],
           UNCHANGED <<inbound, outbound, thread, inbound_dir, media_dir, old, worker, purged, faults>>
    PROVE  IInv'
<1> USE DEF IInv
<1>1. admin.fax \in Fax /\ item[admin.fax].status # "none" BY DEF AdminInHand
<1>2. admin' \in AdminState /\ admin'.pc = "idle" BY IdleTypes DEF AdminIdle
<1>3. /\ item' \in [Fax -> [status : ItemStatus, slug : BOOLEAN]]
      /\ \A f \in Fax : item[f].status # "none" <=> item'[f].status # "none"
  BY <1>1 DEF TypeOK
<1>4. AdminInHand' BY <1>2 DEF AdminInHand
<1>5. /\ TypeOK' /\ InHand' /\ Moderated' /\ PathsLast' /\ StampsHold' /\ LettersPurged'
      /\ ReplyKept'
  BY <1>2, <1>3, WorkerUntouched
<1> QED BY <1>4, <1>5

\* The three decisions.
LEMMA DecisionsKeep ==
    ASSUME IInv, Publish \/ Reject \/ Unpublish PROVE IInv'
<1>1. admin.fax \in Fax \/ admin.pc = "idle" BY DEF IInv, AdminInHand
<1>2. CASE Publish
  <2>1. PICK new \in [status : ItemStatus, slug : BOOLEAN] :
           new = [status |-> "approved", slug |-> TRUE] /\ new.status = "approved"
    <3>1. [status |-> "approved", slug |-> TRUE] \in [status : ItemStatus, slug : BOOLEAN]
      BY DEF ItemStatus
    <3>2. [status |-> "approved", slug |-> TRUE].status = "approved" OBVIOUS
    <3> QED BY <3>1, <3>2, Zenon
  <2> QED BY <1>2, <2>1, DecisionKeeps DEF Publish, files, IInv, TypeOK
<1>3. ASSUME NEW s \in ItemStatus \ {"none"}, admin.pc # "idle", admin' = AdminIdle,
             gallery_dir' \subseteq Fax, item' = [item EXCEPT ![admin.fax].status = s],
             UNCHANGED <<inbound, outbound, thread, inbound_dir, media_dir, old, worker, purged, faults>>
      PROVE  IInv'
  <2>1. admin.fax \in Fax BY <1>1, <1>3
  <2>2. item' = [item EXCEPT ![admin.fax] = [item[admin.fax] EXCEPT !.status = s]]
    BY <1>3, <2>1 DEF IInv, TypeOK
  <2>3. item[admin.fax] \in [status : ItemStatus, slug : BOOLEAN] BY <2>1 DEF IInv, TypeOK
  <2>4. PICK new \in [status : ItemStatus, slug : BOOLEAN] :
           new = [item[admin.fax] EXCEPT !.status = s] /\ new.status = s
    BY <2>3, ItemRow
  <2> QED BY <1>3, <2>2, <2>4, DecisionKeeps
<1>4. gallery_dir \subseteq Fax BY DEF IInv, TypeOK
<1>5. CASE Reject
  <2>1. /\ admin.pc # "idle" /\ admin' = AdminIdle /\ gallery_dir' \subseteq Fax
        /\ item' = [item EXCEPT ![admin.fax].status = "rejected"]
        /\ UNCHANGED <<inbound, outbound, thread, inbound_dir, media_dir, old, worker, purged, faults>>
    BY <1>4, <1>5 DEF Reject, files
  <2>2. "rejected" \in ItemStatus \ {"none"} BY DEF ItemStatus
  <2> QED BY <1>3, <2>1, <2>2
<1>6. CASE Unpublish
  <2>1. /\ admin.pc # "idle" /\ admin' = AdminIdle /\ gallery_dir' \subseteq Fax
        /\ item' = [item EXCEPT ![admin.fax].status = "removed"]
        /\ UNCHANGED <<inbound, outbound, thread, inbound_dir, media_dir, old, worker, purged, faults>>
    BY <1>4, <1>6 DEF Unpublish
  <2>2. "removed" \in ItemStatus \ {"none"} BY DEF ItemStatus
  <2> QED BY <1>3, <2>1, <2>2
<1> QED BY <1>2, <1>5, <1>6

(***************************************************************************)
(* The world.                                                              *)
(***************************************************************************)
\* A letter becomes final, or is reopened; neither makes it one to be fetched.
LEMMA SettleKeeps ==
    ASSUME IInv, NEW f \in Fax, Settle(f) \/ Reopen(f) PROVE IInv'
<1> USE DEF IInv, Settle, Reopen, files
<1>1. PICK s \in {"closed", "reopened"} :
         outbound' = [outbound EXCEPT ![f] = s] /\ outbound[f] # "pending"
  OBVIOUS
<1>2. UNCHANGED <<inbound, thread, item, files, old, worker, admin, purged, faults>> OBVIOUS
<1>3. TypeOK' BY <1>1, <1>2 DEF TypeOK, OutboundStatus
<1>4. InHand' BY <1>1, <1>2 DEF InHand, TypeOK
<1>5. AdminInHand' /\ Moderated' BY <1>2 DEF AdminInHand, Moderated
<1>6. ReplyKept' /\ LettersPurged' BY <1>1, <1>2 DEF ReplyKept, LettersPurged, TypeOK
<1>7. StampsHold'
  <2>1. \A t \in Thread : Removing(t) => Removing(t)' BY <1>2 DEF Removing
  <2> QED BY <1>2, <2>1, StampUntouched
<1>8. PathsLast' BY <1>2 DEF PathsLast, Filed, Mates
<1> QED BY <1>3, <1>4, <1>5, <1>6, <1>7, <1>8

\* An exchange gets old.
LEMMA AgeKeeps ==
    ASSUME IInv, NEW f \in Fax, Age(f) PROVE IInv'
<1> USE DEF IInv, Age, rows, files
<1>1. TypeOK' BY DEF TypeOK
<1>2. InHand' BY DEF InHand
<1>3. AdminInHand' /\ Moderated' /\ ReplyKept' /\ LettersPurged'
  BY DEF AdminInHand, Moderated, ReplyKept, LettersPurged
<1>4. StampsHold'
  <2>1. \A t \in Thread : Removing(t) => Removing(t)' BY DEF Removing
  <2> QED BY <2>1, StampUntouched
<1>5. PathsLast' BY DEF PathsLast, Filed, Mates
<1> QED BY <1>1, <1>2, <1>3, <1>4, <1>5

(***************************************************************************)
(* The theorems.                                                           *)
(***************************************************************************)
\* Faxes have been received, and nothing else has happened.
LEMMA InitIInv == Init => IInv
<1> SUFFICES ASSUME Init PROVE IInv OBVIOUS
<1> USE DEF Init
<1>1. TypeOK
  <2>1. inbound \in [Fax -> InboundRow] BY DEF InboundRow
  <2>2. item \in [Fax -> [status : ItemStatus, slug : BOOLEAN]] BY DEF ItemStatus
  <2> QED BY <2>1, <2>2, IdleTypes DEF TypeOK, OutboundStatus
<1>2. InHand /\ PathsLast BY DEF InHand, WorkerIdle, PathsLast
<1>3. AdminInHand BY DEF AdminInHand, AdminIdle
<1>4. Moderated BY DEF Moderated
<1>5. StampsHold
  <2>1. \A t \in Thread : thread[t].removal = {} BY Zenon
  <2> QED BY <2>1 DEF StampsHold
<1>6. ReplyKept /\ LettersPurged BY DEF ReplyKept, LettersPurged
<1> QED BY <1>1, <1>2, <1>3, <1>4, <1>5, <1>6 DEF IInv

\* Failures and crashes: only those before the letter is sent are not counted.
LEMMA FailuresKeep ==
    ASSUME IInv, ExchangeFails \/ WorkerError \/ Crash PROVE IInv'
<1>1. CASE ExchangeFails
  <2>1. /\ worker' = WorkerIdle /\ UNCHANGED <<rows, files, old, purged>> /\ UNCHANGED admin
        /\ faults' = faults /\ worker.pc \notin {"withdraw", "purge"}
    BY <1>1 DEF ExchangeFails
  <2> QED BY <2>1, GivenUp
<1>2. CASE WorkerError
  <2>1. /\ worker' = WorkerIdle /\ UNCHANGED <<rows, files, old, purged>> /\ UNCHANGED admin
        /\ faults' = faults + 1
    BY <1>2 DEF WorkerError
  <2> QED BY <2>1, GivenUp
<1>3. CASE Crash
  <2>1. /\ worker' = WorkerIdle /\ UNCHANGED <<rows, files, old, purged>> /\ admin' = AdminIdle
        /\ faults' = faults + 1
    BY <1>3 DEF Crash
  <2> QED BY <2>1, GivenUp
<1> QED BY <1>1, <1>2, <1>3

\* Every step keeps IInv.
LEMMA StepIInv == IInv /\ [Next]_vars => IInv'
<1> SUFFICES ASSUME IInv, [Next]_vars PROVE IInv' OBVIOUS
<1>1. CASE WorkerStep
  BY <1>1, ClaimKeeps, RequeueKeeps, WithdrawKeeps, IgnoreKeeps, ComposeKeeps, SendKeeps,
     FailuresKeep, StartRemovalKeeps, PurgeThreadKeeps, CommitRemovalKeeps, CloseKeeps,
     PurgeExpiredKeeps, CommitExpiredKeeps DEF WorkerStep
<1>2. CASE AdminStep
  BY <1>2, ModerateKeeps, RasterizeKeeps, DecisionsKeep DEF AdminStep
<1>3. ASSUME NEW f \in Fax, Settle(f) \/ Reopen(f) \/ Age(f) PROVE IInv'
  BY <1>3, SettleKeeps, AgeKeeps
<1>4. CASE WorkerError \/ Crash BY <1>4, FailuresKeep
<1>5. CASE UNCHANGED vars
  BY <1>5 DEF vars, rows, files, IInv, TypeOK, InHand, AdminInHand, Moderated, PathsLast,
              StampsHold, LettersPurged, ReplyKept, Gone, Removing, Filed, Mates, Unmoderated
<1> QED BY <1>1, <1>2, <1>3, <1>4, <1>5 DEF Next

\* IInv holds at every moment of every run.
THEOREM RecordsInductive == Spec => []IInv
BY InitIInv, StepIInv, PTL DEF Spec

\* Rows, files, the worker and the moderator's request keep their types.
THEOREM RecordsTyped == Spec => []TypeOK
<1>1. IInv => TypeOK BY DEF IInv
<1> QED BY <1>1, RecordsInductive, PTL

\* However purges, removals, crashes and reprocessing interleave, a letter that
\* Telnyx has yet to fetch is on disk.
THEOREM LettersOnDisk == Spec => []ReplyKept
<1>1. IInv => ReplyKept BY DEF IInv
<1> QED BY <1>1, RecordsInductive, PTL

\* As long as nothing fails, and for a thread that never had anything in
\* moderation whatever fails, the stamp means that the removal was carried out:
\* of every fax filed in the thread by then the row holds no path and no
\* transcript, and its pages are no longer on disk. A letter whose PDF a removal
\* took stays away until it is rendered anew.
THEOREM StampsTrue == Spec => []RemovalDone
<1>1. IInv => RemovalDone
  BY DEF IInv, StampsHold, LettersPurged, RemovalDone, CarriedOut, TypeOK
<1> QED BY <1>1, RecordsInductive, PTL

\* Once judged or withdrawn, an exchange does not come back into moderation.
THEOREM ModeratedOnce == Spec => ItemOnce
<1>1. IInv /\ [Next]_vars =>
         [\A f \in Fax : item[f].status \notin {"none", "pending"} =>
             item'[f].status # "pending"]_vars
  <2> SUFFICES ASSUME IInv, [Next]_vars, NEW f \in Fax, item[f].status \notin {"none", "pending"}
               PROVE  item'[f].status # "pending"
      OBVIOUS
  <2> USE DEF IInv, TypeOK
  <2>1. CASE UNCHANGED item BY <2>1
  <2>2. CASE Close
    <3>1. worker.fax # f BY <2>2 DEF Close, InHand, Moderated
    <3> QED BY <2>2, <3>1 DEF Close
  <2>3. ASSUME NEW g \in Fax, NEW s \in ItemStatus \ {"pending"},
               item' = [item EXCEPT ![g].status = s]
        PROVE  item'[f].status # "pending"
    BY <2>3
  <2>4. ASSUME NEW g \in Fax, Withdraw(g) PROVE item'[f].status # "pending"
    BY <2>3, <2>4 DEF Withdraw, ItemStatus
  <2>5. CASE Publish BY <2>5 DEF Publish, AdminInHand
  <2>6. CASE Reject \/ Unpublish BY <2>3, <2>6 DEF Reject, Unpublish, AdminInHand, ItemStatus
  <2> QED
    BY <2>1, <2>2, <2>4, <2>5, <2>6
    DEF Next, WorkerStep, AdminStep, Claim, Requeue, Ignore, Compose, Send, ExchangeFails,
        StartRemoval, PurgeThread, CommitRemoval, PurgeExpired, CommitExpired, Moderate, Rasterize,
        Settle, Reopen, Age, WorkerError, Crash, rows, vars
<1> QED BY <1>1, RecordsInductive, PTL DEF Spec, ItemOnce
=============================================================================
