----------------------------- MODULE StartupInv ------------------------------
(***************************************************************************)
(* The inductive invariant of Startup. TLC checks it (run startup);        *)
(* StartupProofs proves it and what follows.                               *)
(***************************************************************************)
EXTENDS Startup

\* The database is at its version, or at the baseline and not stamped yet.
AtRevision ==
    \/ schema = SchemaAt(version)
    \/ version = 0 /\ schema = SchemaAt(BaselineRevision)

\* Between pg_advisory_lock and its release a process is alone with the schema.
Exclusive ==
    \A p \in Process : boot[p] \in {"inspect", "upgrade", "apply", "unlock"} => lock = p

\* What each process knows of the database at its stage.
Migrated ==
    \A p \in Process :
        /\ boot[p] \in {"upgrade", "apply"} => schema = SchemaAt(version)
        /\ boot[p] = "apply" => from[p] = version
        /\ boot[p] \in {"unlock", "seed", "up"} =>
              version = HeadRevision /\ schema = SchemaAt(HeadRevision)

\* Withdrawn or shown, or excused (see SamplesShown).
ShownOrExcused(s) ==
    \/ item[s] = "removed"
    \/ item[s] = "approved" /\ (s \in rasters \/ s = admin)
    \/ s \in old \/ Torn(s)

\* The samples are gone through once per start, one at a time; what is behind is
\* settled, and nobody withdraws a sample before the service answers.
SeedingProgress ==
    /\ boot["web"] \notin {"seed", "up"} => seeding.todo = Sample
    /\ boot["web"] = "up" => seeding.todo = {}
    /\ boot["web"] # "up" => admin = NoSample
    /\ boot["web"] \in {"seed", "up"} => \A s \in Sample \ seeding.todo : ShownOrExcused(s)

\* The sample at hand is not withdrawn, and has pages unless they were purged.
SampleAtHand ==
    seeding.step # "pick" =>
        /\ boot["web"] = "seed"
        /\ seeding.sample \in Sample
        /\ item[seeding.sample] \in {"pending", "approved"}
        /\ seeding.step # "pages" =>
              pages[seeding.sample] # "none" \/ seeding.sample \in old

IInv ==
    /\ TypeOK /\ AtRevision /\ Exclusive /\ Migrated /\ NoClash
    /\ SeedingProgress /\ SampleAtHand
=============================================================================
