---------------------------- MODULE StartupProofs ----------------------------
(***************************************************************************)
(* Theorems about Startup, and with it about Migrations, for every value   *)
(* of the constants.                                                       *)
(***************************************************************************)
EXTENDS StartupInv, TLAPS

(***************************************************************************)
(* The revisions.                                                          *)
(***************************************************************************)
\* There are four of them.
LEMMA FourRevisions ==
    /\ HeadRevision = 4
    /\ Revisions[1] = Baseline /\ Revisions[2] = Reliability
    /\ Revisions[3] = OneReply /\ Revisions[4] = SampleLabel
BY DEF HeadRevision, Revisions

\* No two revisions create the same object.
LEMMA Disjoint ==
    ASSUME NEW i \in 1..HeadRevision, NEW r \in 1..HeadRevision, i # r
    PROVE  Revisions[i] \cap Revisions[r] = {}
<1>1. i \in {1, 2, 3, 4} /\ r \in {1, 2, 3, 4} BY FourRevisions
<1>2. \A x \in Baseline : x \notin Reliability \cup OneReply \cup SampleLabel
  BY DEF Baseline, Reliability, OneReply, SampleLabel
<1>3. \A x \in Reliability : x \notin OneReply \cup SampleLabel
  BY DEF Reliability, OneReply, SampleLabel
<1>4. \A x \in OneReply : x \notin SampleLabel BY DEF OneReply, SampleLabel
<1> QED BY <1>1, <1>2, <1>3, <1>4, FourRevisions

\* A revision finds none of its objects in a database that is older than it, so
\* only the rows can make it fail.
LEMMA FailsOnRows ==
    ASSUME NEW v \in 0..HeadRevision, schema = SchemaAt(v),
           NEW r \in v + 1 .. HeadRevision, Fails(r)
    PROVE  duplicates
<1>1. r \in 1..HeadRevision /\ \A i \in 1..v : i \in 1..HeadRevision /\ i # r
  BY FourRevisions
<1>2. \A i \in 1..v : Revisions[i] \cap Revisions[r] = {} BY <1>1, Disjoint
<1>3. Revisions[r] \cap schema = {} BY <1>2 DEF SchemaAt
<1> QED BY <1>3 DEF Fails

\* The revisions a database lacks bring it to the head.
LEMMA UpgradeCompletes ==
    ASSUME NEW v \in 0..HeadRevision
    PROVE  SchemaAt(v) \cup UNION {Revisions[r] : r \in v + 1 .. HeadRevision}
              = SchemaAt(HeadRevision)
<1>1. 1..HeadRevision = (1..v) \cup (v + 1 .. HeadRevision) BY FourRevisions
<1> QED BY <1>1 DEF SchemaAt

\* A database at any version has only what the head has.
LEMMA AtMostHead ==
    ASSUME NEW v \in 0..HeadRevision
    PROVE  SchemaAt(v) \subseteq SchemaAt(HeadRevision)
BY UpgradeCompletes

\* Only the empty database lacks the threads table.
LEMMA Threads ==
    ASSUME NEW v \in 0..HeadRevision
    PROVE  "threads" \in SchemaAt(v) <=> v # 0
<1>1. CASE v = 0
  <2>1. 1..v = {} BY <1>1
  <2> QED BY <1>1, <2>1 DEF SchemaAt
<1>2. CASE v # 0
  <2>1. 1 \in 1..v BY <1>2, FourRevisions
  <2>2. "threads" \in Revisions[1] BY FourRevisions DEF Baseline
  <2> QED BY <1>2, <2>1, <2>2 DEF SchemaAt
<1> QED BY <1>1, <1>2

(***************************************************************************)
(* The migrations: one process at a time, and always from the version the  *)
(* database is at.                                                         *)
(***************************************************************************)
\* The part of IInv about the schema.
SchemaInv == MigrationTypeOK /\ AtRevision /\ Exclusive /\ Migrated /\ NoClash

\* A new, an old and an up-to-date database are each at a revision.
LEMMA InitSchema == MigrationInit => SchemaInv
<1> SUFFICES ASSUME MigrationInit PROVE SchemaInv OBVIOUS
<1> USE DEF MigrationInit
<1>1. PICK r \in 0..HeadRevision :
         /\ schema = SchemaAt(r)
         /\ version \in IF r = BaselineRevision THEN {0, r} ELSE {r}
         /\ duplicates \in IF r \in 1..2 THEN BOOLEAN ELSE {FALSE}
  OBVIOUS
<1>2. version \in 0..HeadRevision /\ duplicates \in BOOLEAN
  <2>1. version \in 0..HeadRevision BY <1>1, FourRevisions
  <2>2. duplicates \in BOOLEAN BY <1>1, Zenon
  <2> QED BY <2>1, <2>2
<1>3. schema \subseteq SchemaAt(HeadRevision) BY <1>1, AtMostHead
<1>4. boot \in [Process -> Stage] /\ from \in [Process -> 0..HeadRevision]
  BY FourRevisions DEF Stage
<1>5. MigrationTypeOK BY <1>2, <1>3, <1>4 DEF MigrationTypeOK
<1>6. AtRevision BY <1>1 DEF AtRevision, BaselineRevision
<1>7. Exclusive /\ Migrated /\ NoClash BY DEF Exclusive, Migrated, NoClash
<1> QED BY <1>5, <1>6, <1>7 DEF SchemaInv

\* The lock is free, so no process is in the middle of a migration.
LEMMA LockSchema ==
    ASSUME SchemaInv, NEW p \in Process, Lock(p) PROVE SchemaInv'
<1> USE DEF SchemaInv, Lock, Acquire, Step, database
<1>1. MigrationTypeOK' BY DEF MigrationTypeOK, Stage
<1>2. \A q \in Process : boot[q] \notin {"inspect", "upgrade", "apply", "unlock"}
  BY ProcessAssumption DEF Exclusive
<1>3. Exclusive' BY <1>2 DEF Exclusive, MigrationTypeOK
<1>4. AtRevision' BY DEF AtRevision
<1>5. Migrated' /\ NoClash' BY DEF Migrated, NoClash, MigrationTypeOK
<1> QED BY <1>1, <1>3, <1>4, <1>5

\* A database from before Alembic is stamped with what it is; the others, and
\* the processes that wait, notice nothing.
LEMMA InspectSchema ==
    ASSUME SchemaInv, NEW p \in Process, Inspect(p) PROVE SchemaInv'
<1> USE DEF SchemaInv, Inspect, Step
<1>1. version' \in 0..HeadRevision BY FourRevisions DEF Stamped, BaselineRevision, MigrationTypeOK
<1>2. MigrationTypeOK' BY <1>1 DEF MigrationTypeOK, Stage
<1>3. Exclusive' BY DEF Exclusive, MigrationTypeOK
<1>4. schema' = SchemaAt(version')
  <2>1. CASE "threads" \in schema /\ version = 0
    <3>1. version' = BaselineRevision BY <2>1 DEF Stamped
    <3>2. schema # SchemaAt(0) BY <2>1, Threads, FourRevisions
    <3> QED BY <2>1, <3>1, <3>2 DEF AtRevision
  <2>2. CASE ~("threads" \in schema /\ version = 0)
    <3>1. version' = version BY <2>2 DEF Stamped
    <3>2. CASE schema = SchemaAt(version) BY <3>1, <3>2
    <3>3. CASE version = 0 /\ schema = SchemaAt(BaselineRevision)
      BY <2>2, <3>3, Threads, FourRevisions DEF BaselineRevision
    <3> QED BY <3>2, <3>3 DEF AtRevision
  <2> QED BY <2>1, <2>2
<1>5. AtRevision' BY <1>4 DEF AtRevision
<1>6. version = HeadRevision => version' = version BY FourRevisions DEF Stamped
<1>7. Migrated'
  <2> SUFFICES ASSUME NEW q \in Process
               PROVE  /\ boot'[q] \in {"upgrade", "apply"} => schema' = SchemaAt(version')
                      /\ boot'[q] = "apply" => from'[q] = version'
                      /\ boot'[q] \in {"unlock", "seed", "up"} =>
                            version' = HeadRevision /\ schema' = SchemaAt(HeadRevision)
      BY DEF Migrated
  <2>1. boot'[q] = "apply" => boot[q] = "apply" BY DEF MigrationTypeOK
  <2>2. boot[q] # "apply" BY DEF Exclusive
  <2>3. boot'[q] \in {"unlock", "seed", "up"} => boot[q] = boot'[q] BY DEF MigrationTypeOK
  <2> QED BY <1>4, <1>6, <2>1, <2>2, <2>3 DEF Migrated
<1>8. NoClash' BY DEF NoClash, MigrationTypeOK
<1> QED BY <1>2, <1>3, <1>5, <1>7, <1>8

\* The version read is the one the database is at until the upgrade commits.
LEMMA ReadVersionSchema ==
    ASSUME SchemaInv, NEW p \in Process, ReadVersion(p) PROVE SchemaInv'
<1> USE DEF SchemaInv, ReadVersion, Step, database
<1>1. MigrationTypeOK' BY DEF MigrationTypeOK, Stage
<1>2. Exclusive' BY DEF Exclusive, MigrationTypeOK
<1>3. AtRevision' BY DEF AtRevision
<1>4. Migrated' /\ NoClash' BY DEF Migrated, NoClash, MigrationTypeOK
<1> QED BY <1>1, <1>2, <1>3, <1>4

\* The upgrade brings the schema to the head; only the rows can make it fail.
LEMMA ApplySchema ==
    ASSUME SchemaInv, NEW p \in Process, Apply(p) PROVE SchemaInv'
<1> DEFINE missing == from[p] + 1 .. HeadRevision
<1> USE DEF SchemaInv
<1>1. boot[p] = "apply" /\ from[p] = version /\ schema = SchemaAt(version) /\ lock = p
  BY DEF Apply, Step, Migrated, Exclusive
<1>2. CASE /\ Step(p, "apply", "unlock")
           /\ schema' = schema \cup UNION {Revisions[r] : r \in missing}
           /\ version' = HeadRevision
           /\ UNCHANGED <<duplicates, lock, from>>
  <2> USE <1>2 DEF Step
  <2>1. schema' = SchemaAt(HeadRevision)
    <3>1. version \in 0..HeadRevision BY DEF MigrationTypeOK
    <3> QED BY <1>1, <3>1, UpgradeCompletes
  <2>2. MigrationTypeOK' BY <2>1, FourRevisions DEF MigrationTypeOK, Stage
  <2>3. Exclusive' BY DEF Exclusive, MigrationTypeOK
  <2>4. AtRevision' BY <2>1 DEF AtRevision
  <2>5. \A q \in Process \ {p} : boot'[q] = boot[q] /\ boot[q] \notin {"upgrade", "apply"}
    BY <1>1 DEF Exclusive, MigrationTypeOK
  <2>6. boot'[p] = "unlock" BY DEF MigrationTypeOK
  <2>7. Migrated' BY <2>1, <2>5, <2>6 DEF Migrated
  <2>8. NoClash' BY DEF NoClash, MigrationTypeOK
  <2> QED BY <2>2, <2>3, <2>4, <2>7, <2>8
<1>3. CASE /\ Step(p, "apply", "abort")
           /\ \E r \in missing : Fails(r)
           /\ lock' = NoProcess
           /\ UNCHANGED <<database, from>>
  <2> USE <1>3 DEF Step, database
  <2>1. duplicates
    <3>1. version \in 0..HeadRevision BY DEF MigrationTypeOK
    <3> QED BY <1>1, <3>1, FailsOnRows
  <2>2. MigrationTypeOK' BY DEF MigrationTypeOK, Stage
  <2>3. Exclusive'
    <3>1. \A q \in Process \ {p} : boot[q] \notin {"inspect", "upgrade", "apply", "unlock"}
      BY <1>1 DEF Exclusive
    <3> QED BY <3>1 DEF Exclusive, MigrationTypeOK
  <2>4. AtRevision' BY DEF AtRevision
  <2>5. Migrated' BY DEF Migrated, MigrationTypeOK
  <2>6. NoClash' BY <2>1 DEF NoClash, MigrationTypeOK
  <2> QED BY <2>2, <2>3, <2>4, <2>5, <2>6
<1> QED BY <1>2, <1>3 DEF Apply

\* The lock is released by its holder.
LEMMA UnlockSchema ==
    ASSUME SchemaInv, NEW p \in Process, Unlock(p) PROVE SchemaInv'
<1> USE DEF SchemaInv, Unlock, Step, database
<1>1. MigrationTypeOK' BY DEF MigrationTypeOK, Stage
<1>2. \A q \in Process \ {p} : boot[q] \notin {"inspect", "upgrade", "apply", "unlock"}
  BY DEF Exclusive
<1>3. Exclusive' BY <1>2 DEF Exclusive, MigrationTypeOK
<1>4. AtRevision' BY DEF AtRevision
<1>5. Migrated' /\ NoClash' BY DEF Migrated, NoClash, MigrationTypeOK
<1> QED BY <1>1, <1>3, <1>4, <1>5

\* When the task dies the lock is free again, and the schema is at a revision:
\* an upgrade is committed or it is not.
LEMMA RestartSchema ==
    ASSUME SchemaInv, RestartProcesses PROVE SchemaInv'
<1> USE DEF SchemaInv, RestartProcesses, database
<1>1. MigrationTypeOK' BY DEF MigrationTypeOK, Stage
<1>2. AtRevision' BY DEF AtRevision
<1>3. Exclusive' /\ Migrated' /\ NoClash' BY DEF Exclusive, Migrated, NoClash
<1> QED BY <1>1, <1>2, <1>3

\* The web process goes on from its samples to serving.
LEMMA SeededSchema ==
    ASSUME SchemaInv, Seeded PROVE SchemaInv'
<1> USE ProcessAssumption DEF SchemaInv, Seeded, Step, database
<1>1. MigrationTypeOK' BY DEF MigrationTypeOK, Stage
<1>2. Exclusive' BY DEF Exclusive, MigrationTypeOK
<1>3. AtRevision' BY DEF AtRevision
<1>4. Migrated' /\ NoClash' BY DEF Migrated, NoClash, MigrationTypeOK
<1> QED BY <1>1, <1>2, <1>3, <1>4

\* Nothing else touches the schema.
LEMMA SchemaUntouched ==
    ASSUME SchemaInv, UNCHANGED migrationVars PROVE SchemaInv'
BY DEF SchemaInv, migrationVars, database, MigrationTypeOK, AtRevision, Exclusive, Migrated, NoClash

(***************************************************************************)
(* The samples.                                                            *)
(***************************************************************************)
\* The rest of IInv.
SampleTypeOK ==
    /\ item \in [Sample -> ItemStatus]
    /\ path \subseteq Sample /\ rasters \subseteq Sample /\ old \subseteq Sample
    /\ pages \in [Sample -> File] /\ reply \in [Sample -> File]
    /\ seeding \in Seeding
    /\ admin \in Sample \cup {NoSample}
    /\ faults \in 0..MaxFaults

SampleInv == SampleTypeOK /\ SeedingProgress /\ SampleAtHand

\* A process that seeds starts from all its samples.
LEMMA AllTodo ==
    /\ SeedingAll \in Seeding
    /\ SeedingAll.todo = Sample /\ SeedingAll.step = "pick"
BY DEF SeedingAll, Seeding

\* No sample has rows yet, and all are still to be gone through.
LEMMA InitSamples == Init => SampleInv
<1> SUFFICES ASSUME Init PROVE SampleInv OBVIOUS
<1> USE SampleAssumption, ProcessAssumption, AllTodo DEF Init, MigrationInit
<1>1. SampleTypeOK BY DEF SampleTypeOK, ItemStatus, File
<1>2. SeedingProgress BY DEF SeedingProgress
<1>3. SampleAtHand BY DEF SampleAtHand
<1> QED BY <1>1, <1>2, <1>3 DEF SampleInv

\* A migration moves no sample; when it ends for the web process, that one has
\* all its samples before it.
LEMMA MigrationSamples ==
    ASSUME SchemaInv, SampleInv, NEW p \in Process, MigrationStep(p) PROVE SampleInv'
<1> USE ProcessAssumption DEF SchemaInv, SampleInv, MigrationStep, sampleVars
<1>1. SampleTypeOK' BY DEF SampleTypeOK
<1>2. /\ boot["web"] \notin {"seed", "up"} => boot'["web"] # "up"
      /\ boot["web"] \in {"seed", "up"} => boot'["web"] = boot["web"]
  BY DEF Migrate, Lock, Inspect, ReadVersion, Apply, Unlock, Step, MigrationTypeOK
<1>3. SeedingProgress' BY <1>2 DEF SeedingProgress, ShownOrExcused, Torn
<1>4. SampleAtHand' BY <1>2 DEF SampleAtHand
<1> QED BY <1>1, <1>3, <1>4

\* The sample that was gone through leaves the list, and the next is picked.
LEMMA DoneType ==
    ASSUME SampleTypeOK, NEW s \in Sample
    PROVE  /\ Done(s) \in Seeding
           /\ Done(s).todo = seeding.todo \ {s} /\ Done(s).step = "pick"
<1>1. seeding.todo \ {s} \in SUBSET Sample BY DEF SampleTypeOK, Seeding
<1> QED BY <1>1 DEF Done, SeedingAll, Seeding

\* A sample that is settled is left behind; the rows of another one exist from
\* here on.
LEMMA PickSamples ==
    ASSUME SampleInv, NEW s \in Sample, Pick(s) PROVE SampleInv'
<1> USE DEF SampleInv, Pick, At, migrationVars
<1>1. CASE Settled(s)
  <2>1. seeding' = Done(s) /\ UNCHANGED item BY <1>1
  <2>2. /\ seeding' \in Seeding
        /\ seeding'.todo = seeding.todo \ {s} /\ seeding'.step = "pick"
    BY <2>1, DoneType
  <2>3. SampleTypeOK' BY <2>1, <2>2 DEF SampleTypeOK
  <2>4. ShownOrExcused(s) BY <1>1 DEF Settled, ShownOrExcused
  <2>5. SeedingProgress' BY <2>1, <2>2, <2>4 DEF SeedingProgress, ShownOrExcused, Torn
  <2>6. SampleAtHand' BY <2>2 DEF SampleAtHand
  <2> QED BY <2>3, <2>5, <2>6
<1>2. CASE ~Settled(s)
  <2>1. /\ seeding' = [seeding EXCEPT !.sample = s, !.step = "pages"]
        /\ item' = [item EXCEPT ![s] = Created(@)]
    BY <1>2
  <2>2. /\ seeding' \in Seeding /\ seeding'.todo = seeding.todo
        /\ seeding'.sample = s /\ seeding'.step = "pages"
    BY <2>1 DEF SampleTypeOK, Seeding
  <2>3. item[s] # "removed" /\ item'[s] \in {"pending", "approved"}
    BY <1>2, <2>1 DEF Settled, Created, SampleTypeOK, ItemStatus
  <2>4. SampleTypeOK' BY <2>1, <2>2, <2>3 DEF SampleTypeOK, ItemStatus
  <2>5. \A u \in Sample \ seeding.todo : u # s /\ item'[u] = item[u]
    BY <2>1 DEF SampleTypeOK
  <2>6. SeedingProgress' BY <2>2, <2>5 DEF SeedingProgress, ShownOrExcused, Torn
  <2>7. SampleAtHand' BY <2>2, <2>3 DEF SampleAtHand
  <2> QED BY <2>4, <2>6, <2>7
<1> QED BY <1>1, <1>2

\* The sample at hand goes to another step.
LEMMA GoToType ==
    ASSUME seeding \in Seeding, NEW step \in {"pick", "pages", "reply", "publish"}, GoTo(step)
    PROVE  /\ seeding' \in Seeding
           /\ seeding'.todo = seeding.todo /\ seeding'.sample = seeding.sample
           /\ seeding'.step = step
BY DEF GoTo, Seeding

\* What is written is a file, torn only if it was torn before.
LEMMA RenderedFile ==
    ASSUME NEW file \in File
    PROVE  Rendered(file) \in File \ {"none"} /\ (Rendered(file) = "torn" <=> file = "torn")
BY DEF Rendered, File

\* A sample leaves the step with its pages written, or found there.
LEMMA RenderPagesSamples ==
    ASSUME SampleInv, RenderPages PROVE SampleInv'
<1> USE DEF SampleInv, RenderPages, At, migrationVars
<1> DEFINE s == seeding.sample
<1>1. /\ seeding' \in Seeding /\ seeding'.todo = seeding.todo
      /\ seeding'.sample = s /\ seeding'.step = "reply"
  BY GoToType DEF SampleTypeOK
<1>2. s \in Sample BY DEF SampleAtHand
<1>3. /\ pages'[s] \in File \ {"none"}
      /\ \A u \in Sample : pages'[u] = "torn" <=> pages[u] = "torn"
  BY <1>2, RenderedFile DEF SampleTypeOK
<1>4. SampleTypeOK' BY <1>1, <1>2, <1>3 DEF SampleTypeOK
<1>5. SeedingProgress' BY <1>1, <1>3 DEF SeedingProgress, ShownOrExcused, Torn
<1>6. SampleAtHand' BY <1>1, <1>2, <1>3 DEF SampleAtHand
<1> QED BY <1>4, <1>5, <1>6

\* The same for its reply; the pages may have been purged meanwhile.
LEMMA RenderReplySamples ==
    ASSUME SampleInv, RenderReply PROVE SampleInv'
<1> USE DEF SampleInv, RenderReply, At, migrationVars
<1> DEFINE s == seeding.sample
<1>1. /\ seeding' \in Seeding /\ seeding'.todo = seeding.todo
      /\ seeding'.sample = s /\ seeding'.step = "publish"
  BY GoToType DEF SampleTypeOK
<1>2. s \in Sample BY DEF SampleAtHand
<1>3. /\ reply'[s] \in File
      /\ \A u \in Sample : reply'[u] = "torn" <=> reply[u] = "torn"
  BY <1>2, RenderedFile DEF SampleTypeOK
<1>4. SampleTypeOK' BY <1>1, <1>2, <1>3 DEF SampleTypeOK
<1>5. SeedingProgress' BY <1>1, <1>3 DEF SeedingProgress, ShownOrExcused, Torn
<1>6. SampleAtHand' BY <1>1, <1>2 DEF SampleAtHand
<1> QED BY <1>4, <1>5, <1>6

\* What is published has its images, but for what SamplesShown excuses.
LEMMA PublishSamples ==
    ASSUME SampleInv, Publish PROVE SampleInv'
<1> USE DEF SampleInv, Publish, At, migrationVars
<1>1. PICK s \in Sample : s = seeding.sample /\ (pages[s] # "none" \/ s \in old)
  BY DEF SampleAtHand
<1>2. /\ seeding' \in Seeding
      /\ seeding'.todo = seeding.todo \ {s} /\ seeding'.step = "pick"
  BY <1>1, DoneType
<1>3. rasters' \in {rasters \ {s}, rasters \cup {s}}
  BY <1>1 DEF SampleTypeOK
<1>4. item' = [item EXCEPT ![s] = "approved"] /\ path' = path \cup {s} BY <1>1
<1>5. SampleTypeOK' BY <1>1, <1>2, <1>3, <1>4 DEF SampleTypeOK, ItemStatus
<1>6. s \in rasters' \/ s \in old \/ Torn(s) BY <1>1
<1>7. ShownOrExcused(s)' BY <1>1, <1>4, <1>6 DEF ShownOrExcused, Torn, SampleTypeOK
<1>8. \A u \in Sample \ {s} : ShownOrExcused(u) => ShownOrExcused(u)'
  BY <1>3, <1>4 DEF ShownOrExcused, Torn, SampleTypeOK
<1>9. SeedingProgress' BY <1>2, <1>7, <1>8 DEF SeedingProgress
<1>10. SampleAtHand' BY <1>2 DEF SampleAtHand
<1> QED BY <1>5, <1>9, <1>10

\* The service answers only when no sample is left to go through.
LEMMA SeededSamples ==
    ASSUME SchemaInv, SampleInv, Seeded PROVE SampleInv'
<1> USE ProcessAssumption DEF SchemaInv, SampleInv, Seeded, At, Step, sampleVars
<1>1. SampleTypeOK' BY DEF SampleTypeOK
<1>2. boot["web"] = "seed" /\ boot'["web"] = "up" BY DEF MigrationTypeOK
<1>3. SeedingProgress' BY <1>2 DEF SeedingProgress, ShownOrExcused, Torn
<1>4. SampleAtHand' BY DEF SampleAtHand
<1> QED BY <1>1, <1>3, <1>4

\* After a restart the samples are gone through from the start, whatever became
\* of the files.
LEMMA RestartSamples ==
    ASSUME SampleInv, Restart, pages' \in [Sample -> File], reply' \in [Sample -> File],
           rasters' \subseteq Sample, faults' \in 0..MaxFaults
    PROVE  SampleInv'
<1> USE ProcessAssumption, AllTodo DEF SampleInv, Restart, RestartProcesses
<1>1. SampleTypeOK' BY DEF SampleTypeOK
<1>2. boot'["web"] = "lock" OBVIOUS
<1>3. SeedingProgress' /\ SampleAtHand' BY <1>2 DEF SeedingProgress, SampleAtHand
<1> QED BY <1>1, <1>3

\* A crash may leave the file that was being written torn, or the last image there.
LEMMA CrashSamples ==
    ASSUME SampleInv, Crash PROVE SampleInv'
<1> USE DEF SampleInv, Crash
<1>1. faults' \in 0..MaxFaults BY SampleAssumption DEF SampleTypeOK
<1>2. pages' \in [Sample -> File] /\ reply' \in [Sample -> File]
  BY DEF SampleTypeOK, File
<1>3. rasters' \subseteq Sample BY DEF At, SampleAtHand, SampleTypeOK
<1> QED BY <1>1, <1>2, <1>3, RestartSamples

\* A start that fails leaves the files as they are.
LEMMA StartupFailsSamples ==
    ASSUME SampleInv, StartupFails PROVE SampleInv'
<1>1. /\ faults' \in 0..MaxFaults /\ rasters' \subseteq Sample
      /\ pages' \in [Sample -> File] /\ reply' \in [Sample -> File]
  BY DEF StartupFails, SampleInv, SampleTypeOK
<1> QED BY <1>1, RestartSamples DEF StartupFails

\* Pages are purged only of old samples.
LEMMA PurgeSamples ==
    ASSUME SampleInv, NEW p \in Process, Purge(p) PROVE SampleInv'
<1> USE DEF SampleInv, Purge, migrationVars
<1>1. SampleTypeOK' BY DEF SampleTypeOK, File
<1>2. \A u \in Sample : u \in old \/ pages'[u] = pages[u] OBVIOUS
<1>3. SeedingProgress' BY <1>2 DEF SeedingProgress, ShownOrExcused, Torn
<1>4. SampleAtHand' BY <1>2 DEF SampleAtHand
<1> QED BY <1>1, <1>3, <1>4

\* A sample that ages is excused, and no other is affected.
LEMMA AgeSamples ==
    ASSUME SampleInv, NEW s \in Sample, Age(s) PROVE SampleInv'
<1> USE DEF SampleInv, Age, migrationVars
<1>1. SampleTypeOK' BY DEF SampleTypeOK
<1>2. SeedingProgress' BY DEF SeedingProgress, ShownOrExcused, Torn
<1>3. SampleAtHand' BY DEF SampleAtHand
<1> QED BY <1>1, <1>2, <1>3

\* The images of a sample go only while its withdrawal is under way ...
LEMMA WithdrawSamples ==
    ASSUME SampleInv, NEW s \in Sample, Withdraw(s) PROVE SampleInv'
<1> USE DEF SampleInv, Withdraw, Serving, migrationVars
<1>1. SampleTypeOK' BY DEF SampleTypeOK
<1>2. \A u \in Sample : ShownOrExcused(u) => ShownOrExcused(u)'
  BY SampleAssumption DEF ShownOrExcused, Torn
<1>3. SeedingProgress' BY <1>2 DEF SeedingProgress
<1>4. SampleAtHand' BY DEF SampleAtHand
<1> QED BY <1>1, <1>3, <1>4

\* ... which ends with the sample removed.
LEMMA CommitWithdrawalSamples ==
    ASSUME SampleInv, CommitWithdrawal PROVE SampleInv'
<1> USE DEF SampleInv, CommitWithdrawal, migrationVars
<1>1. SampleTypeOK' BY DEF SampleTypeOK, ItemStatus
<1>2. \A u \in Sample : ShownOrExcused(u) => ShownOrExcused(u)'
  BY DEF ShownOrExcused, Torn, SampleTypeOK
<1>3. boot["web"] = "up" BY DEF SeedingProgress
<1>4. SeedingProgress' BY <1>2, <1>3 DEF SeedingProgress
<1>5. SampleAtHand' BY <1>3 DEF SampleAtHand
<1> QED BY <1>1, <1>4, <1>5

(***************************************************************************)
(* The theorems.                                                           *)
(***************************************************************************)
\* A fresh deployment satisfies both parts.
LEMMA InitIInv == Init => IInv
BY InitSchema, InitSamples
DEF Init, IInv, SchemaInv, SampleInv, TypeOK, SampleTypeOK

\* The stages of a migration together.
LEMMA MigrateStep ==
    ASSUME SchemaInv, NEW p \in Process, Migrate(p) PROVE SchemaInv'
BY LockSchema, InspectSchema, ReadVersionSchema, ApplySchema, UnlockSchema DEF Migrate

\* Every step keeps IInv.
LEMMA StepIInv == IInv /\ [Next]_vars => IInv'
<1> SUFFICES ASSUME SchemaInv, SampleInv, [Next]_vars PROVE SchemaInv' /\ SampleInv'
    BY DEF IInv, SchemaInv, SampleInv, TypeOK, SampleTypeOK
<1>1. ASSUME NEW p \in Process, MigrationStep(p) PROVE SchemaInv' /\ SampleInv'
  BY <1>1, MigrateStep, MigrationSamples DEF MigrationStep
<1>2. ASSUME NEW s \in Sample, Pick(s) PROVE SchemaInv' /\ SampleInv'
  BY <1>2, SchemaUntouched, PickSamples DEF Pick
<1>3. CASE RenderPages BY <1>3, SchemaUntouched, RenderPagesSamples DEF RenderPages
<1>4. CASE RenderReply BY <1>4, SchemaUntouched, RenderReplySamples DEF RenderReply
<1>5. CASE Publish BY <1>5, SchemaUntouched, PublishSamples DEF Publish
<1>6. CASE Seeded BY <1>6, SeededSchema, SeededSamples
<1>7. CASE Crash BY <1>7, RestartSchema, CrashSamples DEF Crash, Restart
<1>8. CASE StartupFails BY <1>8, RestartSchema, StartupFailsSamples DEF StartupFails, Restart
<1>9. ASSUME NEW p \in Process, Purge(p) PROVE SchemaInv' /\ SampleInv'
  BY <1>9, SchemaUntouched, PurgeSamples DEF Purge
<1>10. ASSUME NEW s \in Sample, Age(s) PROVE SchemaInv' /\ SampleInv'
  BY <1>10, SchemaUntouched, AgeSamples DEF Age
<1>11. ASSUME NEW s \in Sample, Withdraw(s) PROVE SchemaInv' /\ SampleInv'
  BY <1>11, SchemaUntouched, WithdrawSamples DEF Withdraw
<1>12. CASE CommitWithdrawal BY <1>12, SchemaUntouched, CommitWithdrawalSamples DEF CommitWithdrawal
<1>13. CASE UNCHANGED vars
  <2>1. SchemaInv' BY <1>13, SchemaUntouched DEF vars
  <2>2. SampleInv'
    BY <1>13 DEF SampleInv, SampleTypeOK, SeedingProgress, SampleAtHand, ShownOrExcused, Torn,
                 vars, sampleVars, migrationVars
  <2> QED BY <2>1, <2>2
<1> QED
  BY <1>1, <1>2, <1>3, <1>4, <1>5, <1>6, <1>7, <1>8, <1>9, <1>10, <1>11, <1>12, <1>13
  DEF Next, SeedStep

\* IInv holds at every moment of every run.
THEOREM StartupInductive == Spec => []IInv
BY InitIInv, StepIInv, PTL DEF Spec

\* Every table, file and process stays within its type.
THEOREM StartupTypes == Spec => []TypeOK
<1>1. IInv => TypeOK BY DEF IInv
<1> QED BY <1>1, StartupInductive, PTL

\* Whatever database it finds and whoever migrates with it, a process that has
\* come up works on the schema at the head revision.
THEOREM SchemaUpToDate == Spec => []UpToDate
<1>1. IInv => UpToDate BY DEF IInv, Migrated, UpToDate
<1> QED BY <1>1, StartupInductive, PTL

\* No migration fails because of another process, or of one that died halfway:
\* only rows that break the new constraint make one fail.
THEOREM MigrationsDoNotClash == Spec => []NoClash
<1>1. IInv => NoClash BY DEF IInv
<1> QED BY <1>1, StartupInductive, PTL

\* Once the web process answers, each sample is withdrawn, or shown with its
\* pages, or excused.
THEOREM SamplesAreShown == Spec => []SamplesShown
<1>1. ASSUME IInv PROVE SamplesShown
  <2> SUFFICES ASSUME boot["web"] = "up", NEW s \in Sample PROVE ShownOrExcused(s)
      BY DEF SamplesShown, ShownOrExcused
  <2> QED BY <1>1 DEF IInv, SeedingProgress
<1> QED BY <1>1, StartupInductive, PTL

\* A sample the operator has withdrawn stays withdrawn: no restart picks it, and
\* none is picked while a withdrawal can commit.
THEOREM WithdrawnStays == Spec => WithdrawnSampleStays
<1>1. IInv /\ [Next]_vars =>
         [\A s \in Sample : item[s] = "removed" => item'[s] = "removed"]_vars
  <2> SUFFICES ASSUME IInv, [Next]_vars, NEW s \in Sample, item[s] = "removed"
               PROVE  item'[s] = "removed"
      OBVIOUS
  <2> USE DEF IInv, TypeOK
  <2>1. ASSUME NEW u \in Sample, Pick(u) PROVE item'[s] = "removed"
    BY <2>1 DEF Pick, Settled, Created
  <2>2. CASE Publish BY <2>2 DEF Publish, At, SampleAtHand
  <2>3. CASE CommitWithdrawal BY <2>3 DEF CommitWithdrawal
  <2>4. CASE UNCHANGED item BY <2>4
  <2> QED
    BY <2>1, <2>2, <2>3, <2>4
    DEF Next, MigrationStep, SeedStep, RenderPages, RenderReply, Seeded, Crash, StartupFails,
        Restart, Purge, Age, Withdraw, sampleVars, vars
<1> QED BY <1>1, StartupInductive, PTL DEF Spec, WithdrawnSampleStays
=============================================================================
