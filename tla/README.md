# fax-bot in TLA+

Specifications of fax-bot's control: how the service comes up, how an inbound
fax gets into the database, who is answered and in which thread, how the reply
is sent, followed and sent again, and how the records of an exchange are kept,
published and given up. TLC checks small instances; TLAPS proves the safety
properties of every component for every value of their constants. All source
paths are relative to `src/`.

## 1. The system

fax-bot runs as one ECS task with two processes (`start.sh`): the **web**
process (`app/main.py`, an async FastAPI application) and the **worker**
(`app/worker/run.py`, a loop in one thread). They share a Postgres database and
the directory `/data`, and each talks to Telnyx, the fax carrier. When either
process dies, the task exits and both start again; a deployment stops the old
task before it starts the new one (`infra/ecs.tf:135-138`).

| component | state | operations | interacts through |
|---|---|---|---|
| intake webhook (`main.py` 387-517, `telnyx_client.download_media`) | `inbound_faxes`, `webhook_events`, PDFs in `inbound/` | dedupe, download, write, commit row and event; 503 when the download failed | Telnyx redelivers until it gets a 200; the worker polls `status = 'received'` |
| status webhook (`main.py` 520-554, `delivery.handle_failure`) | `outbound_faxes`, `threads.status`, `webhook_events` | map an event to a status, schedule or give up a retry, mark a line undeliverable | rows the worker writes at the same time |
| queue (`pipeline.py` 21-97) | `inbound_faxes.status/attempts` | claim by conditional UPDATE, stale sweep, give up | crash recovery of the worker |
| exchange (`pipeline._process_one`) | `threads`, `inbound_faxes`, reply PDFs | gates, brain, thread, render, `send_reply`, REMOVE, gallery opt-in | Telnyx, language model |
| delivery (`delivery.py`) | `outbound_faxes`, `outbound_attempts` | intent, dial, record; claim a retry, dial, record; stale sweep | Telnyx accepts a letter, later reports by webhook |
| policy (`policy.py`) | counts over the tables | breaker (money, faxes a day), opt-out, per-caller cap, failure classes | read before each claim |
| retention (`retention.py`) | files, `pdf_path` | hourly purge, purge of a thread | unlink first, commit later |
| gallery (`gallery.py`, admin routes of `main.py`) | `gallery_items`, `gallery/` | approve, reject, unpublish | moderator's requests race with the worker |
| brain, ingest, render, pdf | none | conversions and a call to a model | verdict enters the exchange |
| correspondence (`pipeline.py` 100-146, 184-262, `policy.py` 32-54) | `threads`, `thread_id` of faxes and letters | find a thread by number or reference, open one, count the day's exchanges, opt out | reads before the brain is asked, writes after it |
| migrations (`db._run_migrations`, `alembic/`) | the schema, `alembic_version`, an advisory lock | lock, stamp, upgrade, unlock | every process at its start |
| gallery samples (`gallery_seeds.seed_gallery_samples`) | rows and files of three fixed exchanges | create, render, approve what is missing | web process before it serves; purge by the worker |
| read-only pages, configuration, infrastructure | - | - | - |

What is hard about it, and where the models look (`PROJECT.json` "hazards" has
every place, with its line):

- the call to Telnyx and the commit that records it are two steps, with no
  idempotency key: duplicates must stay bounded;
- webhooks come late, twice, out of order, and before the commit of the id they
  are about;
- a handler decides from a row it loaded while the other process commits;
- effects and the record of the event that caused them are not always in one
  transaction (`handle_failure` and `gallery.unpublish` commit on their own);
- files are changed at once, rows at the commit;
- counts "since midnight" and limits compared in three places;
- a thread is looked up before a call of many seconds and used after it, and a
  fax processed again is filed again;
- two processes migrate one database, and the task may die while it does, or
  while it writes a file the next start takes as whole.

What makes each component correct: intake acknowledges no fax whose pages it
could have had, and files no path before its pages; a fax costs a bounded number of
letters, is closed once, and its row is always settled in the end; the daily
cap holds; an opt-out holds; letters not yet fetched keep their PDF; a
withdrawn exchange stays withdrawn; a removal that was acknowledged is carried
out; originals go after thirty days; a fax stays with the number that sent it; no
number gets more replies than its cap, and none within the cap is refused; the
service comes up on any database and shows no sample that was withdrawn.

## 2. Modules

| module | models | how |
|---|---|---|
| `OutboundTables` | the rows both processes share, Telnyx, policy decisions | variables, types, `BreakerTripped`, `OrmWrite`, acceptance of a letter, midnight |
| `DeliveryWorker` | the worker | one action for the code between two commits, or between a commit and Telnyx's answer |
| `StatusWebhook` | the web process on outbound events | `WebLoad`, `WebCommit`, `WebRecord` |
| `Delivery` | both together with crashes; the properties | EXTENDS the two |
| `ReplyContract` | what is promised about the letters for a fax | abstract; `Delivery` implements it (`ImplementsContract`) |
| `DeliveryInv` | the inductive invariants `IInv` (what is sent) and `RetryInv` (what the rows remember of it) | checked by TLC and proved |
| `DeliveryProofs`, `DeliveryRefines`, `DeliveryRetryProofs` | theorems | TLAPS |
| `Intake` | the intake webhook and the purges of its files, by age and by REMOVE | one handler for each web process |
| `Records` | what is kept of an exchange: pages, letters, transcripts, gallery | worker, moderator, purge, crash |
| `Correspondence` | who is answered, how often, in which thread | several faxes of several numbers over several days; sending is one step |
| `Migrations` | `_run_migrations` and the revisions | one action per step of a process; stamp and upgrade are transactions |
| `Startup` | the task coming up: migrations, then samples, with purge, operator, crashes | EXTENDS `Migrations` |
| `IntakeInv`, `RecordsInv`, `CorrespondenceInv`, `StartupInv` | the inductive invariant `IInv` of each | checked by TLC and proved |
| `IntakeProofs`, `RecordsProofs`, `CorrespondenceProofs`, `StartupProofs` | theorems | TLAPS |
| `MCDelivery`, `MCDeliveryInv`, `MCIntake`, `MCRecords`, `MCCorrespondence`, `MCStartup` | values for constants | |

### How state and actions correspond to the code

*Transactions.* A database transaction is one action. What a session loaded
earlier and writes later is kept in the local state of its process
(`worker.row`, `web.row`, `handler[h].loaded`), and `OrmWrite` says what a
commit of SQLAlchemy does: only columns whose new value differs from the one
loaded reach the table (`expire_on_commit=False`, `db.py:39`, so a session does
not reload after a commit). This is what makes lost updates visible.

*Telnyx.* `Accept` gives a letter a fresh id, counts it, and fixes which
webhooks the call will cause (`Histories`). A webhook is delivered until it is
recorded in `webhook_events`; with `Reordering` at any time and in any order,
without it in order and after the commit of the id. `DialLost` is the answer
that does not arrive although the letter was accepted.

*Time.* A retry date is `null`, `later` or `due`; what is stale is any subset
of the rows in question; `NewDay` resets the counts of the day and the budget.

*Crashes.* `Crash` resets both processes (they restart together) and keeps
tables, files and Telnyx. `WorkerError` and `WebError` are a failed commit.
`MaxFaults` bounds both together.

*Simplifications of Delivery.* A caller has one thread. Which of the two gates
files a fax as `ignored_cap` is left open (any fax may be); `capped` and
`replied` are one status; summaries, texts and counts are left out. The
load at the start of `_recover_stale_retrying` and `requeue_stale` and their
commit are one action (single worker; the web process does not move rows that
are in `retrying` for longer than the stale window, nor rows in `processing`);
so are the two selects of `_update_outbound_status`. `session.get` after a
retry is claimed is taken together with the dialling.

*Intake.* The body of the async handler never yields, so a web process handles
one event at a time: `Handler = {h1}` is the deployed system. Two handlers
(`intake_two`) are the case for which the code catches `IntegrityError`. In
that case, and not in the deployed one, a handler that loses the INSERT of the
row is answered "duplicate" while the row stays `failed_download`; `PagesAcknowledged`
is therefore stated for one process. A fax whose pages are past retention is
not redelivered any more. Two purges take files away, and each unlinks first and
commits later (`CommitPurge`), or fails in between (`PurgeError`, `Crash`):
`Unlink` is `purge_expired`, `UnlinkThread` is `purge_thread` for a REMOVE read
from pages that are there, with any other faxes as the rest of the thread.
`removing` is the REMOVE fax, which the same commit closes; `removed` remembers
whose pages a REMOVE has unlinked, which no row says before the commit.

*Records.* Sending is one action and the webhooks are reduced to `Settle` and
`Reopen` (a late failure puts a final letter back into the retries); attempts
are not counted (Delivery has them). Deleting the published images and committing is one action
in `Withdraw` and `Unpublish`. Rows keep for `slug` only whether there is one.
The brain answers any verdict in `Verdicts` for readable pages (the same fax
may be read differently the second time); `oversize` and `capped` letters are
one kind; a denial for want of pages is `"lost"`, flags the thread like any
denial, and holds nothing of the pages. `transcript` is the summary and the reply
text where they derive from pages. `threads.removal_requested_at` is kept as the
set of faxes filed in the thread when the stamp was committed, which is what the
stamp is about; `purged` remembers whose letters a REMOVE has deleted.
`ExchangeFails` is an exception before the letter is sent, which changes
nothing; `WorkerError` is one after it or in a purge, counted as a fault like
`Crash`. `gallery_items.inbound_fax_id` is unique (`models.py:84-86`), which the
model leaves out: a second item would raise in the code and overwrite here, so
that `ItemOnce` is harder for the model. Inbound and outbound rows of an exchange
age together.

*Correspondence.* `from_number` is chosen when a fax arrives. Time is a day:
`last` is the day of `last_activity_at`, so two threads last active on one day
may be found in either order, and one last active exactly `WindowDays` ago may
be found or not. The brain may read any reference, on file or not, of this
number or another, and STOP or not, anew at each attempt. A denial or an
oversize letter is a reply without STOP (and, oversize, without a reference).
Claim and gates are two actions, brain and filing a third: faxes arrive,
midnight comes and lines fail in between. `Interrupted` is an exception or a
crash anywhere in an exchange. A fax whose first send is on record is filed
again in one transaction; otherwise the filing is committed with the intent.
`Undeliverable` is atomic here (its race with the opt-out is in Delivery).

*Startup.* The schema is the set of things the revisions add; a revision fails
on things that are there, and revision 3 on data that break it. A new database,
one from before Alembic and one at any revision are initial states. The
advisory lock is given back when the upgrade is over or has raised (`db.py:75`),
and when its process dies. A sample has two PDFs and a set of page images; a
crash while a PDF is written may leave it torn. Images are written one by one
before the commit that publishes them: a crash there may leave them all in
place, the last one torn, and `is_file` does not tell such an image from a whole
one, so neither does `rasters`. Only the web process of the task seeds.

## 3. Runs

Passing runs:

| run | instance | shows |
|---|---|---|
| `delivery` | 1 fax, 1 processing attempt, 2 backoffs, `MixedHistories`, reordering, 1 fault | `TypeOK`; the row is consistent (`AttemptsTrail`, `ScheduledHasDate`, `PendingIffUnsent`); letters and attempts are bounded (`BoundedLetters`, `BoundedAttempts`), and the bounds are attained; the invariants of the proofs (`IInv`, `RetryInv`) |
| `delivery_live` | 1 fax, 2 processing attempts, 1 backoff, `InOrder`, cap 1, midnights, budget, 1 fault, fair | no first send is repeated once recorded (`FirstSendOnce`); the contract (`ImplementsContract`); `CapHolds`, `DeliveredIsFinal`, `EventuallyClosed`, `EventuallySettled` |
| `intake` | 1 process, 3 events for 2 PDF faxes, purge by age and by REMOVE, 2 faults, fair | `TypeOK`, `PagesAcknowledged`, `PathHasFile`, `EventuallyFiled`; the invariant of the proofs (`IInv`) |
| `intake_two` | 2 processes, 4 faxes (PDF, bad, none, ignored), 1 fault | `NeverUndone` |
| `records` | 2 faxes of one thread, one opted in, one REMOVE, letters reopened, 1 crash or failed commit, fair | `TypeOK`, `ReplyKept`, `RemovalDone`, `ItemOnce`, `OldPurged`; the invariant of the proofs (`IInv`) |
| `correspondence` | 3 faxes of 2 numbers in any mixture, 3 threads, cap 1, window 1 day, 1 midnight, 2 attempts, 2 interruptions or lost answers | `TypeOK`, `CallerBound`, `SilenceAfterStop`, `CapPerCaller`, `WithinAllotment`, `OneConversation`; the invariant of the proofs (`IInv`) |
| `startup` | 2 processes, 9 initial databases, 2 samples, 2 crashes, fair | `TypeOK`, `UpToDate`, `NoClash`, `SamplesShown`, `WithdrawnSampleStays`, `EventuallyUp`; the invariant of the proofs (`IInv`) |

*Why the bounds are enough.* The delivery hazards are about one row touched by
two processes. Faxes interact only through the day's count, which the retries
of one fax reach as well as two faxes do when the cap is one, and through the
status of their thread (`delivery_optout` and `delivery_farewell` look at
that). One processing attempt with two backoffs (`delivery`) and two with one
(`delivery_live`) reach every branch of the limits between them: a fax requeued
and given up, a retry scheduled again and exhausted, the retry beyond the
documented limit (below), and, with the second processing attempt, a first send
found recorded. The pool of ids is at least as large as the proved bound on
letters (`LetterLimit`, 4 in both), so no send is refused for want of an id.
One fault is a crash or a failed commit at any point of either process, and
reaches every recovery path. In `correspondence` three faxes of one number are
one within the cap, one that gets the cap letter and one that is ignored; two
of one number and one of another are what a quoted reference needs; one
midnight separates a count from the next and closes a window of one day; two
interruptions reach a fax processed twice and one given up. The numbers are
interchangeable, hence the symmetry. In `startup` two crashes are one in the
middle of something and one in the repair of it. The proofs remove these bounds
for everything but liveness, and it was in proving that two statements which hold
within them turned out false beyond (next section). `Ids` is a symmetry of the Telnyx ids, used
in safety runs only. Deadlock is not checked:
the systems come to rest when every fax is closed and settled and the faults
are used up.

*Fairness.* Delivery: the worker's loop and the webhook handler go on
(`run.py:38-49` catches every exception; Telnyx redelivers until acknowledged);
each stale sweep is taken with everything stale infinitely often (time passes,
strong fairness because the loop is elsewhere in between); dates come due;
midnight comes. Calls to Telnyx or the brain are not assumed to succeed.
Startup: a process that can go on does, and the platform restarts the task.
Intake: a handler goes on, an unacknowledged event is redelivered infinitely
often, and a download tried again and again succeeds some time while the URL is
good; without that no service could file anything. Records: the worker goes on
and purges every hour.

### Disagreements between code and documentation

Each of these runs checks one property and TLC refutes it; `PROJECT.json`
"findings" quotes the sentences.

| run | the code |
|---|---|
| `delivery_settle` | a webhook before the commit of its id is lost, the row never settles |
| `delivery_optout` | an opt-out is overwritten with `undeliverable` |
| `delivery_farewell` | the farewell is dropped when its first send fails |
| `records_stamp` | a removal is stamped and closed by `unpublish` before it is carried out |
| `records_withdrawn` | a moderator's decision overwrites a withdrawal |

`delivery_settle` is why `delivery_live` needs webhooks in order, and
`records_stamp` why `RemovalDone` is about runs in which nothing fails, or threads
with nothing in moderation: for those it says of every fax filed before the stamp
what `StampMeansPurged` says.

Met while modelling, with no run of its own:

- a failure handler that loaded the row before the worker claimed it schedules a
  retry beyond the limit (`delivery.py:68`); hence `Backoffs + 2` in
  `AttemptLimit`, a bound the `delivery` run attains;
- letters waiting for a retry are dialled after STOP: `process_retries`
  never asks for the opt-out (`delivery.py:141`);
- when a superseded attempt has been delivered, a failure of the newest one
  still schedules a retry (`main.py:544`);
- with webhooks out of order a row leaves `delivered` (`main.py:552`): `DeliveredIsFinal` is
  checked, and proved, for webhooks in order;
- a row can be `retry_scheduled` with no date, which no query selects
  (`delivery.py:135`). `ScheduledHasDate` names the two ways. (1) While a second
  retry is dialled, both letters that had failed are reported delivered after
  all. The row says `delivered` when the handler loads it for the superseded
  one; the dialling fails, and `process_retries` schedules the next retry; the
  handler commits only the column that differs from what it loaded, and its NULL
  lands on that date. This takes three backoffs, the number deployed
  (`config.py:49`), and no fault. (2) The commit of a webhook's event fails, the
  failure is handled a second time while the retry is in the air and a late
  `queued` has set the row back: `process_retries` then writes the NULL and not
  the status. The `delivery` run reaches (2);
- a failure handled twice (`delivery.py:102`) also undoes a delivery, with
  webhooks in order: the second handling schedules a retry while the next letter
  is out, and that retry writes over the letter's `delivered` and dials again.
  This takes two backoffs and a failed commit; `DeliveredIsFinal` excepts it;
- were Telnyx to issue two events for one fax and two web processes to handle
  them, the handler that loaded `failed_download` would write `received` over a
  fax the worker has answered meanwhile (`main.py:480`). One of the two is not
  enough, which is what `NothingUndone` proves; deployed is neither;
- a letter whose answer was lost is not in `outbound_attempts` and not in the
  day's count (`policy.py:69`): `CapHolds` is about recorded sends;
- `handle_failure` and the event commit separately, so that after a crash in
  between one failure can schedule two retries (`delivery.py:102`);
- pages written by an intake handler that then fails to commit belong to no row
  once the URL has expired, and no purge finds them (`main.py:511`);
- a late failure reopens a delivered letter whose PDF has been purged: the retry
  points to nothing (`retention.py:77`); `ReplyKept` excepts reopened letters;
- a crash after a REMOVE fax has unlinked its own pages: the reprocessed fax is
  denied for want of pages and the transcripts stay (`retention.py:70`). The rows
  of the thread keep their paths, too, although the files are gone; `PathHasFile`
  names this window, and `pipeline.py:215` is where the code meets it;
- images of an item approved during a removal stay on disk (`gallery.py:80`);
- the count of `pipeline.py:196` "includes this fax" only if it came today: a
  backlog of yesterday is answered without limit, while of a batch of cap + 1
  received together all get the cap letter, and of a larger one none is
  answered. `CapPerCaller` is about faxes received and processed on one day;
- a fax given up after its letter went out leaves the count (`policy.py:42`):
  `CapPerCaller` is about faxes not given up;
- STOP on a fax that is over the cap, too long or flagged is never read
  (`pipeline.py:211-224`, `brain.py:159-168`), though `privacy.html:101-103`
  promises silence for the word; a withheld number is the empty string, and all
  such callers are one correspondent;
- REMOVE reaches the one thread it is filed under, not the others of the number
  (`pipeline.py:149`);
- a fax processed again overwrites reply text and PDF with a letter that was not
  sent (`pipeline.py:254`), although the text in the row is what survives of
  the letter (`retention.py:34`); its letter row keeps the first thread;
- a sample PDF torn by a crash is taken as whole at every later start
  (`gallery_seeds.py:308`); if it cannot be opened, the task dies each time;
- `scripts/seed_gallery.py` beside a running service publishes a sample the
  operator withdraws while it renders (`gallery_seeds.py:321`);
- data with two replies for one fax keep the task from starting (revision 3).

### Mutants

Each property of a passing run has a mutant: an operator next to the original
(comment "Mutant of ...") that changes it as a plausible bug would, and with which
TLC refutes the property.

## 4. Proofs

*Delivery.* `DeliveryProofs`, `DeliveryRefines` and `DeliveryRetryProofs` hold
for any number of faxes, threads and ids, any limits, any histories, with or
without reordering. They use only the assumptions named in `OutboundTables`
(`FaxAssumption`, `ThreadAssumption`, `LimitAssumption`, `HistoryAssumption`,
`SwitchAssumption`); `DeliveredForGood` has two hypotheses besides, below.

| theorem | states |
|---|---|
| `Inductive` | `Spec => []IInv` |
| `TypeCorrect` | `Spec => []TypeOK` |
| `AttemptsBounded` | a row spends at most `Backoffs + 2` attempts |
| `LettersBounded` | a fax costs at most `MaxProcessAttempts + Backoffs + 1` letters |
| `CapRespected` | recorded sends of a day never exceed `DailyCap` |
| `PendingMeansUnsent` | `pending_send` means no recorded send, and conversely |
| `Implements` | `Delivery` implements `ReplyContract` |
| `RetryInductive` | `Spec => []RetryInv` |
| `LogComplete` | every id a row carried is on file for it, and no more than its attempts (`AttemptsTrail`) |
| `RetriesDated` | a scheduled retry has a date, but for the two races above (`ScheduledHasDate`) |
| `SentOnce` | a recorded first send is not repeated (`FirstSendOnce`) |
| `DeliveredForGood` | a delivered row stays so, webhooks in order (`DeliveredIsFinal`) |

The argument. The bounds are not inductive by themselves: they depend on what
the two processes have in hand. `IInv` adds

- `WorkerInHand`, `WebInHand`: a fax in the worker's first phase is
  `processing`, a letter in the air is known to Telnyx, the copy of a row that
  a retry works on is current in `attempts` (only the worker writes it);
- `RowsSent`, `LoggedSent`: an id in a row means an attempt spent, a logged id
  and a letter of this fax, so that a webhook is never about a row that was
  not sent;
- `TriesLeft`, `LettersPaid`: letters plus the one the worker may still post are
  paid for by processing attempts and retries spent. Every dial belongs to a
  claim, and a claim counts before it dials;
- `AttemptsSpent`: a failure handler that holds a copy with retries left can
  schedule one more, so while it does the row has spent at most `Backoffs + 1`.
  This is where the bound `Backoffs + 2` instead of the `Backoffs + 1` of the
  documentation comes from;
- `CapKept`: a send in hand was allowed while there was room for it.

`TypeOK` is preserved by every step given the two "in hand" parts; each other
part has a lemma for every group of actions, and `StepIInv` puts them together.
`Implements` maps a dial to `Post` (room by `LettersPaid`), the final commit to
`Answer` (a letter exists by `RowsSent`), the gates and the giving up of the
sweep to `GiveUp` (no letter is posted afterwards, since the worker holds the
only claim), and everything else to a stutter.

What a row says of its retries is a matter of who wrote which column last, so
`RetryInv` ties the row to the log, to what Telnyx will report of each letter,
and to what either process has in hand:

- `LogPaid`: the log is no longer than the attempts, and shorter while a retry
  is in hand, because that attempt is spent and not yet logged;
- `EventInHand`: a handler works on a logged letter and on what Telnyx reported
  of it, and has not recorded it yet; of a superseded letter only `delivered`;
- `RetryOfFailure`, `FailureOnce`: a retry answers a failure of the row, and as
  long as no transaction failed, that of the newest letter, which is not
  handled again. This is what the separate commit of `handle_failure` breaks;
- `QueuedInRetry`, `GivenUpInRetry`: if the row changed in the middle of a retry
  to what the worker is about to write, so that the worker's commit leaves the
  status alone, a webhook said so, and none that could schedule a retry is left;
- `InOrderEvents`, `DeliveredByNewest`: with webhooks in order a delivered row
  was delivered by its newest letter, of which nothing is left to come, while
  all earlier ones failed.

The lemmas `SendRow` to `RecordedEvent` say once for each kind of action what it
does to a row and the log; `Quiet` and `Redialled` are the actions that touch
neither. `DeliveredForGood` assumes `~Reordering` and `OneVerdict` (no call
reports both a delivery and a failure), which is how `delivery_live` is
instantiated; both are about Telnyx, and without either the code does leave
`delivered`.

*Correspondence.* `CorrespondenceProofs` holds for any number of faxes, numbers,
threads and days, any cap, window and limit of attempts, any number of
interruptions. It uses only `QueueAssumption` (ids of faxes are numbers, and
there are finitely many of them in a run), `ThreadsAssumption` and
`CapAssumption`.

| theorem | states |
|---|---|
| `CorrespondenceInductive` | `Spec => []IInv` |
| `RowsTyped` | `Spec => []TypeOK` |
| `FiledWithItsSender` | a fax and its letter are filed under threads of its sender (`CallerBound`) |
| `PermanentSilence` | a number that opted out gets no first send but the farewell (`SilenceAfterStop`) |
| `CapPerCallerKept` | the cap of a day holds (`CapPerCaller`) |
| `NobodyWronged` | within the cap nobody is refused (`WithinAllotment`) |
| `NoSplit` | no thread is opened while another is in the window (`OneConversation`) |

The argument. What is decided at the gates is used two steps later, so `IInv`
says what stays true of it in between, whatever arrives meanwhile:

- `InHand`, `RowsReceived`: the fax in hand was received and is claimed; what
  was never received has nothing on file and no letter, so an arrival cannot
  disturb any count; the intent is on file when the worker dials;
- `FoundThread`: the provisional thread is the caller's, and if there was none,
  all the caller's threads have left the window (days only go forward). This
  gives `CallerBound`, with the quoted reference checked against the number,
  and `NoSplit`;
- `PastOptOut`: no thread of the caller is opted out while the brain is asked;
  the only opt-out before the dial is the one the fax at hand asks for;
- `RoomLeft`: the faxes answered, together with the one at hand, keep to the
  cap. The gate counts all of them (a fax given up is in neither count), and a
  letter is added only for the fax at hand (`RoomPassed`, `RoomDialled`); every
  other step answers nothing (`RoomKept`);
- `RefusedExceeded`: whoever is refused sent more than the cap on some day, which
  no later step takes back (`ExceededStays`).

`FilingStep`, `GatesStep`, `RoomStep` and `RefusedStep` are the four parts of the
induction; `StepIInv` puts them together.

*Intake.* `IntakeProofs` holds for any number of faxes, events, web processes and
faults (`EventAssumption`, `MediaAssumption`, `FaultAssumption`).

| theorem | states |
|---|---|
| `IntakeInductive` | `Spec => []IInv` |
| `IntakeTypes` | `Spec => []TypeOK` |
| `PathsLeadToFiles` | with one web process, or one event for each fax, a path in the database leads to a file until its fax is old or a REMOVE, not yet committed or failed, has unlinked it (`PathHasFile`) |
| `AcknowledgedHasPages` | with one web process, what was acknowledged has its pages until a purge (`PagesAcknowledged`) |
| `NothingUndone` | with one web process, or one event for each fax, nothing received or answered is taken back (`NeverUndone`) |

The argument. `Staged` says what a handler holds at each step, and that it holds
a path only when the file has been written; a purge unlinks only what is old or
to be removed, and filed (`PurgesFiled`), and no handler is at work on an old fax
(`InHand`). A fax that was removed is filed, so that the handler that would write
its path again loaded it before it was: with one process there is none (`Fresh`),
with one event for each fax its event is recorded and rejected. With both two
processes and two events for a fax a late handler could write the path of a
removed file, hence the hypothesis. `RowsFiled`
ties a filed row to a recorded event: with one event for each fax that event is
the one in hand, which its unique key then rejects, and this is the only thing
that protects the row when two processes handle it. With one process, what it
loaded is still so when it writes (`Fresh`), and what is recorded is filed
(`RecordedFiled`); both fail for two, hence the hypothesis `OneHandler`, which
is the deployed system.

*Records.* `RecordsProofs` holds for any faxes, threads, verdicts and number of
crashes (`FilingAssumption`, `BoundAssumption`).

| theorem | states |
|---|---|
| `RecordsInductive` | `Spec => []IInv` |
| `RecordsTyped` | `Spec => []TypeOK` |
| `LettersOnDisk` | a letter not yet fetched keeps its PDF (`ReplyKept`) |
| `StampsTrue` | while nothing fails, and for a thread never in moderation always, the stamp means that path, transcript and pages of every fax filed before it are gone; purged letters stay away (`RemovalDone`) |
| `ModeratedOnce` | nothing comes into moderation twice (`ItemOnce`) |

The argument. A fax in hand is `processing` until its last commit (`InHand`), and
only what is `replied` is in moderation (`Moderated`): so whatever is processed
again has not been moderated. `PathsLast` says that a file on disk has a path and
that what the worker is about to clear has been unlinked. `StampsHold`
strengthens `RemovalDone` to the time in which the worker is still at the
thread: a fax the stamp is about is gone, or `unpublish` has committed the stamp
early, which takes an item of the thread, and the removal is under way or has
met a fault. What is gone stays gone, since a fax processed again without pages
gets a letter that holds nothing of them (`InHand`). `LettersPurged` is the part
about letters.

*Startup.* `StartupProofs` holds for any processes of which one is the web
process, any samples and any number of faults (`ProcessAssumption`,
`SampleAssumption`).

| theorem | states |
|---|---|
| `StartupInductive` | `Spec => []IInv` |
| `StartupTypes` | `Spec => []TypeOK` |
| `SchemaUpToDate` | who is up is on the head revision (`UpToDate`) |
| `MigrationsDoNotClash` | only rows that break the new constraint make a migration fail (`NoClash`) |
| `SamplesAreShown` | when the web process answers, the samples are shown or excused (`SamplesShown`) |
| `WithdrawnStays` | a withdrawn sample stays so (`WithdrawnSampleStays`) |

The argument. Stamp and upgrade are transactions, so between them the schema is
that of its version, or the unstamped baseline (`AtRevision`); the advisory lock
makes a process the only one between inspecting and unlocking (`Exclusive`), so
what it inspected is still so (`Migrated`). The samples behind the one at hand
are settled and stay so, because only the operator withdraws and only once the
service answers (`SeedingProgress`, `SampleAtHand`).

*Only model-checked.* The liveness properties (`EventuallyClosed`,
`EventuallySettled`, `EventuallyFiled`, `OldPurged`, `EventuallyUp`): they rest on
fairness, hence on `ENABLED`, which is out of the prover's reach. Every safety
property of a passing run is a theorem.

## 5. Not modelled

Texts of letters, rendering, rasterizing, prompts, signatures, read-only pages,
configuration and infrastructure: conversions and checks without shared state.
The history the brain is shown, message counts and summaries: nothing depends
on them but the text of a letter. Downgrades of the schema: nothing runs them.
The seeding script run by hand, see above.

## 6. Plan

1. Done: every component of section 2 modelled and checked; its safety
   properties proved.
2. Left: that each component implements an abstract specification (so far only
   `Delivery` does): a store of pages for `Intake`, with one process; a
   moderation cycle for `Records`; a mutex for `Migrations`. Where the findings
   have a local repair, the repaired action, with the property that then holds.
