----------------------------- MODULE Migrations -----------------------------
(***************************************************************************)
(* Bringing the schema up to date (app/db.py _run_migrations and the       *)
(* revisions under alembic/versions): every process does it when it        *)
(* starts, under one advisory lock of Postgres. env.py runs a stamp or an  *)
(* upgrade in one transaction, and DDL is transactional.                   *)
(***************************************************************************)
EXTENDS Naturals, Sequences

CONSTANTS Process, NoProcess

ASSUME ProcessAssumption == "web" \in Process /\ NoProcess \notin Process

VARIABLES
    schema,     \* what the database has of tables, columns and constraints
    version,    \* alembic_version; 0 while there is no such table
    duplicates, \* are there two reply rows for one fax?
    lock,       \* who holds the advisory lock
    boot,       \* how far each process has started
    from        \* the version an upgrade found

database == <<schema, version, duplicates>>
migrationVars == <<database, lock, boot, from>>

(***************************************************************************)
(* The revisions: what each adds.                                          *)
(***************************************************************************)
Baseline == {"threads", "webhook_events", "inbound_faxes", "outbound_faxes", "gallery_items"}
Reliability == {"outbound_attempts", "inbound_faxes.attempts", "inbound_faxes.claimed_at",
                "outbound_faxes.fax_id nullable", "threads.removal_requested_at"}
OneReply == {"uq_outbound_faxes_reply_to_fax_id"}
SampleLabel == {"gallery_items.is_sample"}

Revisions == <<Baseline, Reliability, OneReply, SampleLabel>>
BaselineRevision == 1
HeadRevision == Len(Revisions)
SchemaAt(r) == UNION {Revisions[i] : i \in 1..r}

\* An object that is there already, or data that break the new constraint.
Fails(r) == \/ Revisions[r] \cap schema # {}
            \/ Revisions[r] = OneReply /\ duplicates

Stage == {"lock", "inspect", "upgrade", "apply", "unlock", "abort", "seed", "up"}
Step(p, here, next) == boot[p] = here /\ boot' = [boot EXCEPT ![p] = next]

(***************************************************************************)
(* _run_migrations.                                                        *)
(***************************************************************************)
\* Mutant of Acquire: nobody waits.
AcquireAtOnce(p) == lock' = p

\* pg_advisory_lock.
Acquire(p) == lock = NoProcess /\ lock' = p

Lock(p) ==
    /\ Step(p, "lock", "inspect")
    /\ Acquire(p)
    /\ UNCHANGED <<database, from>>

\* Mutant of Stamped: at the revision of the code instead of the baseline.
StampedHead == IF "threads" \in schema /\ version = 0 THEN HeadRevision ELSE version

\* A database from before Alembic is at the baseline.
Stamped == IF "threads" \in schema /\ version = 0 THEN BaselineRevision ELSE version

Inspect(p) ==
    /\ Step(p, "inspect", "upgrade")
    /\ version' = Stamped
    /\ UNCHANGED <<schema, duplicates, lock, from>>

ReadVersion(p) ==
    /\ Step(p, "upgrade", "apply")
    /\ from' = [from EXCEPT ![p] = version]
    /\ UNCHANGED <<database, lock>>

\* Mutant of Apply: what a failed upgrade has created stays.
ApplyTorn(p) ==
    LET missing == from[p] + 1 .. HeadRevision IN
    \/ /\ Step(p, "apply", "unlock")
       /\ \A r \in missing : ~Fails(r)
       /\ schema' = schema \cup UNION {Revisions[r] : r \in missing}
       /\ version' = HeadRevision
       /\ UNCHANGED <<duplicates, lock, from>>
    \/ /\ Step(p, "apply", "abort")
       /\ \E r \in missing : Fails(r)
       /\ schema' = schema \cup UNION {Revisions[r] : r \in {i \in missing : ~Fails(i)}}
       /\ lock' = NoProcess
       /\ UNCHANGED <<version, duplicates, from>>

\* command.upgrade: all that is missing, or nothing; then the exception gives the
\* lock back (finally) and ends the process.
Apply(p) ==
    LET missing == from[p] + 1 .. HeadRevision IN
    \/ /\ Step(p, "apply", "unlock")
       /\ \A r \in missing : ~Fails(r)
       /\ schema' = schema \cup UNION {Revisions[r] : r \in missing}
       /\ version' = HeadRevision
       /\ UNCHANGED <<duplicates, lock, from>>
    \/ /\ Step(p, "apply", "abort")
       /\ \E r \in missing : Fails(r)
       /\ lock' = NoProcess
       /\ UNCHANGED <<database, from>>

\* Mutant of Unlock: kept until the process ends.
UnlockNever(p) ==
    /\ Step(p, "unlock", IF p = "web" THEN "seed" ELSE "up")
    /\ UNCHANGED <<database, lock, from>>

Unlock(p) ==
    /\ Step(p, "unlock", IF p = "web" THEN "seed" ELSE "up")
    /\ lock' = NoProcess
    /\ UNCHANGED <<database, from>>

Migrate(p) == Lock(p) \/ Inspect(p) \/ ReadVersion(p) \/ Apply(p) \/ Unlock(p)

\* The processes die together (start.sh), and their connections with them.
RestartProcesses ==
    /\ boot' = [p \in Process |-> "lock"]
    /\ lock' = NoProcess
    /\ UNCHANGED <<database, from>>

\* A new database, one from before Alembic, or one at any revision. A row pair
\* that revision 3 forbids is older than it.
MigrationInit ==
    /\ \E r \in 0..HeadRevision :
          /\ schema = SchemaAt(r)
          /\ version \in IF r = BaselineRevision THEN {0, r} ELSE {r}
          /\ duplicates \in IF r \in 1..2 THEN BOOLEAN ELSE {FALSE}
    /\ lock = NoProcess
    /\ boot = [p \in Process |-> "lock"]
    /\ from = [p \in Process |-> 0]

MigrationTypeOK ==
    /\ schema \subseteq SchemaAt(HeadRevision)
    /\ version \in 0..HeadRevision
    /\ duplicates \in BOOLEAN
    /\ lock \in Process \cup {NoProcess}
    /\ boot \in [Process -> Stage]
    /\ from \in [Process -> 0..HeadRevision]
=============================================================================
