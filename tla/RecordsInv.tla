------------------------------ MODULE RecordsInv ------------------------------
(***************************************************************************)
(* The inductive invariant of Records. TLC checks it (run records);        *)
(* RecordsProofs proves it and what follows.                               *)
(***************************************************************************)
EXTENDS Records

\* Until its final commit a fax in hand is claimed; its intent is on file when the
\* worker sends; pages from which the letter was written are still there; only a
\* REMOVE fax leads to a removal, which withdraws items of its own thread.
InHand ==
    /\ worker.pc \in {"work", "send", "sent"} =>
          worker.fax \in Fax /\ inbound[worker.fax].status = "processing"
    /\ worker.pc = "send" => outbound[worker.fax] = "pending"
    /\ worker.pc \in {"send", "sent"} /\ worker.kind \in FromPages => worker.fax \in inbound_dir
    /\ worker.pc \in {"withdraw", "purge"} => worker.fax \in RemoveFax
    /\ worker.pc = "withdraw" =>
          \A g \in worker.items : g \in Mates(worker.fax) /\ item[g].status # "none"

\* A moderator decides about items there are.
AdminInHand == admin.pc # "idle" => admin.fax \in Fax /\ item[admin.fax].status # "none"

\* Only an exchange that is closed is in moderation.
Moderated == \A f \in Fax : item[f].status # "none" => inbound[f].status = "replied"

\* Files are unlinked before the paths to them are taken.
PathsLast ==
    /\ \A f \in inbound_dir : inbound[f].pdf_path
    /\ worker.pc = "purge" => Filed(worker.fax) \cap inbound_dir = {}
    /\ worker.pc = "expire" => worker.items \cap inbound_dir = {}

\* A stamp is about faxes filed in its thread. They are gone, or the stamp was
\* committed by a withdrawal and the rest is under way, or failed.
StampsHold ==
    \A t \in Thread : \A f \in thread[t].removal :
        /\ ThreadOf[f] = t /\ inbound[f].filed
        /\ Gone(f) \/ (~Unmoderated(t) /\ (faults > 0 \/ Removing(t)))

LettersPurged == purged \cap media_dir = {}

IInv ==
    /\ TypeOK /\ InHand /\ AdminInHand /\ Moderated /\ PathsLast
    /\ StampsHold /\ LettersPurged /\ ReplyKept
=============================================================================
