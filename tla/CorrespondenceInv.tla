------------------------- MODULE CorrespondenceInv --------------------------
(***************************************************************************)
(* The inductive invariant of Correspondence. TLC checks it (run           *)
(* correspondence); CorrespondenceProofs proves it and what follows.       *)
(***************************************************************************)
EXTENDS Correspondence

\* The worker holds a fax that is claimed, and so was received, and dials only
\* with the intent on file.
InHand ==
    worker.pc # "idle" =>
        /\ worker.fax \in Fax
        /\ inbound[worker.fax].status = "processing"
        /\ inbound[worker.fax].from \in Caller
        /\ worker.pc = "dial" => outbound[worker.fax].status # "none"

\* Only a fax that was received has anything on file; only one that was not
\* given up with its last attempt can be claimed.
RowsReceived ==
    \A f \in Fax :
        /\ inbound[f].status = "unsent" <=> inbound[f].from = NoCaller
        /\ inbound[f].from = NoCaller =>
              inbound[f].thread = NoThread /\ outbound[f].thread = NoThread
        /\ inbound[f].status \in {"unsent", "failed_download"} => letters[f] = {}
        /\ inbound[f].status \in {"unsent", "failed_download", "received"} =>
              inbound[f].attempts < MaxProcessAttempts
        /\ outbound[f].status # "none" => outbound[f].thread # NoThread

\* The thread found before the brain was asked is the caller's, and when none
\* was found every thread of the caller had left the window.
FoundThread ==
    worker.pc = "think" =>
        /\ worker.found # NoThread => thread[worker.found].caller = inbound[worker.fax].from
        /\ worker.found = NoThread =>
              \A u \in Of(inbound[worker.fax].from) : thread[u].last + WindowDays <= day

\* Past the gates no thread of the caller is opted out, until the brain reads
\* STOP in the fax at hand; nor is a thread that nobody has used yet.
PastOptOut ==
    /\ \A t \in Of(NoCaller) : thread[t].status # "opted_out"
    /\ worker.pc = "think" =>
          \A t \in Of(inbound[worker.fax].from) : thread[t].status # "opted_out"

\* The fax at hand, if it came on the day its gates were passed.
AtHand(d) == {f \in {worker.fax} : f \in Fax /\ inbound[f].day = d}

\* Past the gates there is room for one more letter, and for one more reply
\* unless it is to be the cap letter.
RoomLeft ==
    worker.pc \in {"think", "dial"} =>
        LET c == inbound[worker.fax].from
            d == worker.day IN
        /\ Cardinality(Answered(c, d, BOOLEAN) \cup AtHand(d)) <= PerAniDailyCap + 1
        /\ ~worker.capped => Cardinality(Answered(c, d, {FALSE}) \cup AtHand(d)) <= PerAniDailyCap

\* What c sent on day d, and days on which that was too much.
SentOn(c, d) == {f \in Received(c) : inbound[f].day = d}
Exceeded(c) == \E d \in Days : ~(Cardinality(SentOn(c, d)) <= PerAniDailyCap)

\* Whoever is refused, or about to be, has exceeded the cap on some day.
RefusedExceeded ==
    /\ \A f \in Fax : inbound[f].status \in {"capped", "ignored_cap"} => Exceeded(inbound[f].from)
    /\ worker.pc \in {"think", "dial", "close"} /\ worker.capped =>
          Exceeded(inbound[worker.fax].from)

IInv ==
    /\ TypeOK /\ InHand /\ RowsReceived /\ FoundThread /\ PastOptOut /\ RoomLeft /\ RefusedExceeded
    /\ CallerBound /\ SilenceAfterStop /\ CapPerCaller
=============================================================================
