------------------------------- MODULE Startup -------------------------------
(***************************************************************************)
(* The task comes up: both processes migrate, then the worker works and    *)
(* the web process publishes its house samples before it serves requests   *)
(* (main.lifespan, gallery_seeds.seed_gallery_samples). Meanwhile the      *)
(* worker purges, the operator withdraws samples, and the task may die at  *)
(* any step, in the middle of writing a PDF too.                           *)
(***************************************************************************)
EXTENDS Migrations

CONSTANTS Sample, NoSample, MaxFaults

ASSUME SampleAssumption == NoSample \notin Sample /\ MaxFaults \in Nat

VARIABLES
    item,    \* gallery_items.status of a sample, "none" while it has no rows
    path,    \* samples whose pdf_path is set
    pages,   \* files: the inbound PDF of a sample
    reply,   \* files: its reply PDF
    rasters, \* samples whose published page images are all there, as is_file sees it
    old,     \* samples received more than retention_days ago
    seeding, \* local state of seed_gallery_samples
    admin,   \* the sample the operator's request is withdrawing
    faults

sampleVars == <<item, path, pages, reply, rasters, old, seeding, admin, faults>>
vars == <<migrationVars, sampleVars>>

File == {"none", "torn", "whole"}
ItemStatus == {"none", "pending", "approved", "removed"}
Seeding == [todo : SUBSET Sample, sample : Sample \cup {NoSample},
            step : {"pick", "pages", "reply", "publish"}]
SeedingAll == [todo |-> Sample, sample |-> NoSample, step |-> "pick"]

At(step) == boot["web"] = "seed" /\ seeding.step = step
GoTo(step) == seeding' = [seeding EXCEPT !.step = step]
Done(s) == [SeedingAll EXCEPT !.todo = seeding.todo \ {s}]

(***************************************************************************)
(* seed_gallery_samples.                                                   *)
(***************************************************************************)
\* Mutant of Settled: the published files are not looked at.
SettledByStatus(s) == item[s] \in {"removed", "approved"}

\* Withdrawn, or published with all its files: nothing to do.
Settled(s) == item[s] = "removed" \/ (item[s] = "approved" /\ s \in rasters)

\* Mutant of Created: a status no query knows.
CreatedOdd(status) == IF status = "none" THEN "sample" ELSE status

Created(status) == IF status = "none" THEN "pending" ELSE status

\* The first transaction for a sample creates its rows.
Pick(s) ==
    /\ At("pick")
    /\ s \in seeding.todo
    /\ IF Settled(s)
       THEN seeding' = Done(s) /\ UNCHANGED item
       ELSE /\ seeding' = [seeding EXCEPT !.sample = s, !.step = "pages"]
            /\ item' = [item EXCEPT ![s] = Created(@)]
    /\ UNCHANGED <<migrationVars, path, pages, reply, rasters, old, admin, faults>>

\* Files that exist are taken as they are.
Rendered(file) == IF file = "none" THEN "whole" ELSE file

RenderPages ==
    /\ At("pages")
    /\ pages' = [pages EXCEPT ![seeding.sample] = Rendered(@)]
    /\ GoTo("reply")
    /\ UNCHANGED <<migrationVars, item, path, reply, rasters, old, admin, faults>>

RenderReply ==
    /\ At("reply")
    /\ reply' = [reply EXCEPT ![seeding.sample] = Rendered(@)]
    /\ GoTo("publish")
    /\ UNCHANGED <<migrationVars, item, path, pages, rasters, old, admin, faults>>

Torn(s) == pages[s] = "torn" \/ reply[s] = "torn"

\* gallery.approve. Pages purged meanwhile are counted as none, and a torn file
\* is what the library makes of it, if it does not raise.
Publish ==
    LET s == seeding.sample IN
    /\ At("publish")
    /\ rasters' \in IF pages[s] = "none" THEN {rasters \ {s}}
                    ELSE IF Torn(s) THEN {rasters \ {s}, rasters \cup {s}} ELSE {rasters \cup {s}}
    /\ item' = [item EXCEPT ![s] = "approved"]
    /\ path' = path \cup {s}
    /\ seeding' = Done(s)
    /\ UNCHANGED <<migrationVars, pages, reply, old, admin, faults>>

Seeded ==
    /\ At("pick")
    /\ seeding.todo = {}
    /\ Step("web", "seed", "up")
    /\ UNCHANGED <<database, lock, from, sampleVars>>

(***************************************************************************)
(* The task dies: a crash, a migration that raises, a PDF that cannot be   *)
(* opened. Both processes start again.                                     *)
(***************************************************************************)
Restart ==
    /\ RestartProcesses
    /\ seeding' = SeedingAll
    /\ admin' = NoSample
    /\ UNCHANGED <<item, path, old>>

\* Images are written one by one: before the commit of Publish the last one may be
\* there already, torn, which _published_files_exist does not tell from a whole one.
Crash ==
    /\ faults < MaxFaults
    /\ faults' = faults + 1
    /\ Restart
    /\ \/ UNCHANGED <<pages, reply, rasters>>
       \/ /\ At("publish") /\ pages[seeding.sample] # "none"
          /\ rasters' = rasters \cup {seeding.sample}
          /\ UNCHANGED <<pages, reply>>
       \/ /\ At("pages") /\ pages[seeding.sample] = "none"
          /\ pages' = [pages EXCEPT ![seeding.sample] = "torn"]
          /\ UNCHANGED <<reply, rasters>>
       \/ /\ At("reply") /\ reply[seeding.sample] = "none"
          /\ reply' = [reply EXCEPT ![seeding.sample] = "torn"]
          /\ UNCHANGED <<pages, rasters>>

StartupFails ==
    /\ \/ \E p \in Process : boot[p] = "abort"
       \/ At("publish") /\ Torn(seeding.sample)
    /\ Restart
    /\ UNCHANGED <<pages, reply, rasters, faults>>

(***************************************************************************)
(* The running service.                                                    *)
(***************************************************************************)
\* retention.purge_expired (interrupted purges are in module Records).
Purge(p) ==
    /\ p # "web" /\ boot[p] = "up"
    /\ old \cap path # {}
    /\ pages' = [s \in Sample |-> IF s \in old \cap path THEN "none" ELSE pages[s]]
    /\ path' = path \ old
    /\ UNCHANGED <<migrationVars, item, reply, rasters, old, seeding, admin, faults>>

Age(s) ==
    /\ item[s] # "none" /\ s \notin old
    /\ old' = old \cup {s}
    /\ UNCHANGED <<migrationVars, item, path, pages, reply, rasters, seeding, admin, faults>>

\* Mutant of Serving: samples are published in the background.
ServingEarly == boot["web"] \in {"seed", "up"}

\* lifespan waits for the samples before it yields.
Serving == boot["web"] = "up"

\* gallery.unpublish for the operator deletes the images ...
Withdraw(s) ==
    /\ Serving
    /\ admin = NoSample /\ item[s] = "approved"
    /\ rasters' = rasters \ {s}
    /\ admin' = s
    /\ UNCHANGED <<migrationVars, item, path, pages, reply, old, seeding, faults>>

\* ... and then commits.
CommitWithdrawal ==
    /\ admin # NoSample
    /\ item' = [item EXCEPT ![admin] = "removed"]
    /\ admin' = NoSample
    /\ UNCHANGED <<migrationVars, path, pages, reply, rasters, old, seeding, faults>>

Init ==
    /\ MigrationInit
    /\ item = [s \in Sample |-> "none"]
    /\ path = {} /\ rasters = {} /\ old = {}
    /\ pages = [s \in Sample |-> "none"]
    /\ reply = [s \in Sample |-> "none"]
    /\ seeding = SeedingAll
    /\ admin = NoSample
    /\ faults = 0

MigrationStep(p) == Migrate(p) /\ UNCHANGED sampleVars
SeedStep == (\E s \in Sample : Pick(s)) \/ RenderPages \/ RenderReply \/ Publish \/ Seeded

Next ==
    \/ \E p \in Process : MigrationStep(p) \/ Purge(p)
    \/ SeedStep \/ StartupFails \/ Crash
    \/ \E s \in Sample : Age(s) \/ Withdraw(s)
    \/ CommitWithdrawal

\* The processes run, and the platform restarts the task.
Fairness ==
    /\ \A p \in Process : WF_vars(MigrationStep(p))
    /\ WF_vars(SeedStep) /\ WF_vars(StartupFails)
Spec == Init /\ [][Next]_vars /\ Fairness

TypeOK ==
    /\ MigrationTypeOK
    /\ item \in [Sample -> ItemStatus]
    /\ path \subseteq Sample /\ rasters \subseteq Sample /\ old \subseteq Sample
    /\ pages \in [Sample -> File] /\ reply \in [Sample -> File]
    /\ seeding \in Seeding
    /\ admin \in Sample \cup {NoSample}
    /\ faults \in 0..MaxFaults

(***************************************************************************)
(* Properties.                                                             *)
(***************************************************************************)

\* A process that has come up works on the schema of its own code, from
\* whatever database it found: new, older than Alembic, at any revision, or
\* migrated by the other process at the same moment (_run_migrations).
UpToDate == \A p \in Process : boot[p] \in {"seed", "up"} => schema = SchemaAt(HeadRevision)

\* The processes do not migrate against each other, also when one dies halfway:
\* only data that break a new constraint make a migration fail.
NoClash == \A p \in Process : boot[p] = "abort" => duplicates

\* "An operator-unpublished sample stays unpublished" (README.md), through
\* restarts and the repairs they bring (seed_gallery_samples).
WithdrawnSampleStays ==
    [][\A s \in Sample : item[s] = "removed" => item'[s] = "removed"]_vars

\* Once the service answers, every sample is withdrawn or shown with all its
\* pages ("repairs missing gallery rasters on restart"), also after a crash in
\* the middle of a withdrawal. Excused are samples past their retention, whose
\* pages may be purged while they are repaired, and torn files; an image torn by
\* a crash is shown as it is.
SamplesShown ==
    boot["web"] = "up" =>
        \A s \in Sample : \/ item[s] = "removed"
                          \/ item[s] = "approved" /\ (s \in rasters \/ s = admin)
                          \/ s \in old \/ Torn(s)

\* The service comes up in the end, whoever migrates first and wherever it died,
\* unless a migration is impossible or a PDF was torn.
EventuallyUp ==
    [](~duplicates /\ \A s \in Sample : ~Torn(s)) => <>[](\A p \in Process : boot[p] = "up")
=============================================================================
