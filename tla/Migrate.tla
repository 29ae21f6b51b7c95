------------------------------ MODULE Migrate ------------------------------
(***************************************************************************)
(* The start of the server on an existing database                         *)
(* (backend/internal/storage/sqlite: Open, Inspect, Migrate, and run of    *)
(* backend/cmd/server/main.go).  Opening, reading the migration state,     *)
(* validating, taking the backup and migrating are separate steps; only    *)
(* the last is a transaction.  Any step may fail, the process may die at   *)
(* any point and be started again, and a second process may start on the   *)
(* same file.                                                              *)
(***************************************************************************)
EXTENDS SchemaUpgrade, Sequences

CONSTANTS
    Processes,
    Production,  \* Config.IsProduction
    MaxFaults,   \* bound: failures, crashes and lock timeouts of a behaviour
    MaxUses,     \* bound: writes of running servers
    None

ASSUME MigrateAssumption ==
    /\ PostIds \subseteq Nat \ {0}
    /\ Production \in BOOLEAN
    /\ MaxFaults \in Nat /\ MaxUses \in Nat
    /\ NoPost \notin [title : Titles, slug : Slug \cup {NoSlug}]
    /\ NoSlug \notin Slug
    /\ None \notin Processes \cup Databases

VARIABLES
    pc,         \* where the start of each process is
    schema,     \* the tables that Open found, passed on to Migrate
    applied,    \* the number of migrations Migrate found recorded
    copies,    \* the backup directories: a copy of the database, or None
    reserved,   \* the directory each process is filling
    lock,       \* the process in its immediate transaction
    work,       \* the database as that transaction sees it
    faults, uses,
    original    \* history: the database before the first start

migrateVars == <<database, pc, schema, applied, copies, reserved, lock, work,
          faults, uses, original>>

memory == <<schema, applied, reserved>>
bounds == <<faults, uses, original>>

MigrateInit ==
    /\ UpgradeInit
    /\ original = database
    /\ pc = [p \in Processes |-> "off"]
    /\ schema = [p \in Processes |-> "none"]
    /\ applied = [p \in Processes |-> 0]
    /\ copies = <<>>
    /\ reserved = [p \in Processes |-> 0]
    /\ lock = None /\ work = None
    /\ faults = 0 /\ uses = 0

-----------------------------------------------------------------------------
Goto(p, step) == pc' = [pc EXCEPT ![p] = step]

\* Inspect: the pages are sound and the tables are known.
Inspects(d) == d.defect # "pages" /\ d.tables # "unknown"

\* Open: an unknown or damaged database ends the start.
Open(p) ==
    /\ pc[p] = "off"
    /\ schema' = [schema EXCEPT ![p] = database.tables]
    /\ Goto(p, IF Inspects(database) THEN "state" ELSE "refused")
    /\ UNCHANGED <<database, applied, copies, reserved, lock, work, bounds>>

\* appliedMigrations.
ReadState(p) ==
    /\ pc[p] = "state"
    /\ applied' = [applied EXCEPT ![p] = database.version]
    /\ Goto(p, "validate")
    /\ UNCHANGED <<database, schema, copies, reserved, lock, work, bounds>>

SlugsAreUnique(d) ==
    \A i, j \in PostsOf(d) : i # j => d.posts[i].slug # d.posts[j].slug

\* validateMigratedSchema for the number of migrations recorded.
Validates(d, version) ==
    /\ Inspects(d)
    /\ version > 0 => d.tables = "v1"
    /\ version = 2 => /\ \A p \in PostsOf(d) : d.posts[p].slug # NoSlug
                      /\ SlugsAreUnique(d)

\* Nothing is left to migrate.
Current(p) == applied[p] = 2

\* Mutant: a database with recorded migrations needs no copy.
BacksUpUnrecorded(p) == Production /\ schema[p] # "none" /\ applied[p] = 0

BacksUp(p) == Production /\ schema[p] # "none"

Validate(p) ==
    /\ pc[p] = "validate"
    /\ Goto(p, IF ~Validates(database, applied[p]) THEN "refused"
               ELSE IF Current(p) THEN "serve"
               ELSE IF BacksUp(p) THEN "reserve" ELSE "begin")
    /\ UNCHANGED <<database, memory, copies, lock, work, bounds>>

\* Mutant: the directory has a fixed name, and must not exist.
ReserveFixedName(p) ==
    /\ pc[p] = "reserve"
    /\ IF copies = <<>>
       THEN /\ copies' = Append(copies, None)
            /\ reserved' = [reserved EXCEPT ![p] = 1]
            /\ Goto(p, "copy")
       ELSE Goto(p, "refused") /\ UNCHANGED <<copies, reserved>>
    /\ UNCHANGED <<database, schema, applied, lock, work, bounds>>

\* backupDatabase: a directory of its own, ...
Reserve(p) ==
    /\ pc[p] = "reserve"
    /\ copies' = Append(copies, None)
    /\ reserved' = [reserved EXCEPT ![p] = Len(copies) + 1]
    /\ Goto(p, "copy")
    /\ UNCHANGED <<database, schema, applied, lock, work, bounds>>

\* ... and VACUUM INTO it.  Damage that the quick check misses is no matter
\* here: "pages" has been refused before.
Copy(p) ==
    /\ pc[p] = "copy"
    /\ copies' = [copies EXCEPT ![reserved[p]] = database]
    /\ Goto(p, "begin")
    /\ UNCHANGED <<database, memory, lock, work, bounds>>

-----------------------------------------------------------------------------
\* BEGIN IMMEDIATE.
BeginImmediate(p) ==
    /\ pc[p] = "begin" /\ lock = None
    /\ lock' = p /\ work' = database
    /\ Goto(p, "migrate")
    /\ UNCHANGED <<database, memory, copies, bounds>>

\* Migration 1: applyBaseline accepts no tables, the early and the v1 tables.
ApplyBaseline(p) ==
    /\ pc[p] = "migrate" /\ work.version = 0
    /\ work' = [work EXCEPT !.tables = "v1", !.version = 1]
    /\ UNCHANGED <<database, pc, memory, copies, lock, bounds>>

\* The slug of post i: the title's, with the id when an earlier post has it
\* (Slugs.tla looks at titles whose slugs collide in other ways).
SlugFor(posts, i) ==
    LET base == <<posts[i].title, 0>>
        used == {posts[j].slug : j \in {j \in PostIds : posts[j] # NoPost}}
    IN  IF base \in used THEN <<posts[i].title, i>> ELSE base

Unslugged(d) == {i \in PostsOf(d) : d.posts[i].slug = NoSlug}

\* Migration 2: addPostSlugs, one post after another in the order of the ids, ...
AddPostSlug(p) ==
    /\ pc[p] = "migrate" /\ work.version = 1
    /\ \E i \in Unslugged(work) :
          /\ \A j \in Unslugged(work) : i <= j
          /\ work' = [work EXCEPT !.posts[i].slug = SlugFor(work.posts, i)]
    /\ UNCHANGED <<database, pc, memory, copies, lock, bounds>>

\* ... which is recorded when every post has its slug.
RecordSlugs(p) ==
    /\ pc[p] = "migrate" /\ work.version = 1
    /\ Unslugged(work) = {}
    /\ work' = [work EXCEPT !.version = 2]
    /\ UNCHANGED <<database, pc, memory, copies, lock, bounds>>

\* The checks before COMMIT; mutant: without the foreign keys.
VerifiedSchema(d) == Validates(d, 2)

Verified(d) == Validates(d, 2) /\ d.defect = "none"

\* End the transaction: COMMIT, or ROLLBACK with the backup kept.
End(p) ==
    /\ pc[p] = "migrate" /\ work.version = 2
    /\ IF Verified(work)
       THEN database' = work /\ Goto(p, "serve")
       ELSE Goto(p, "refused") /\ UNCHANGED database
    /\ lock' = None /\ work' = None
    /\ UNCHANGED <<memory, copies, bounds>>

-----------------------------------------------------------------------------
Running(p) == pc[p] \notin {"off", "refused"}

\* A step of a start fails, the lock stays busy for five seconds, or the
\* process dies: the transaction is undone, a copy that is not finished is
\* removed or left incomplete.
Stop(p) ==
    /\ Running(p) /\ faults < MaxFaults
    /\ faults' = faults + 1
    /\ Goto(p, "off")
    /\ IF lock = p THEN lock' = None /\ work' = None ELSE UNCHANGED <<lock, work>>
    /\ UNCHANGED <<database, memory, copies, uses, original>>

\* The supervisor starts a refused process again.
Restart(p) ==
    /\ pc[p] = "refused" /\ faults < MaxFaults
    /\ faults' = faults + 1
    /\ Goto(p, "off")
    /\ UNCHANGED <<database, memory, copies, lock, work, uses, original>>

\* A serving process creates a post or changes one.
Serve(p) ==
    /\ pc[p] = "serve" /\ lock = None /\ uses < MaxUses
    /\ Use
    /\ uses' = uses + 1
    /\ UNCHANGED <<pc, memory, copies, lock, work, faults, original>>

Steps(p) ==
    \/ Open(p) \/ ReadState(p) \/ Validate(p) \/ Reserve(p) \/ Copy(p)
    \/ BeginImmediate(p) \/ ApplyBaseline(p) \/ AddPostSlug(p) \/ RecordSlugs(p) \/ End(p)

MigrateNext == \E p \in Processes : Steps(p) \/ Stop(p) \/ Restart(p) \/ Serve(p)

\* A process that is started goes on, and the supervisor starts one that is off.
MigrateFairness == \A p \in Processes : WF_migrateVars(Steps(p))

MigrateSpec == MigrateInit /\ [][MigrateNext]_migrateVars /\ MigrateFairness

-----------------------------------------------------------------------------
MigrateTypeOK ==
    /\ database \in Databases
    /\ pc \in [Processes -> {"off", "state", "validate", "reserve", "copy", "begin",
                             "migrate", "serve", "refused"}]
    /\ schema \in [Processes -> Tables]
    /\ applied \in [Processes -> 0 .. 2]
    /\ copies \in Seq(Databases \cup {None})
    /\ reserved \in [Processes -> 0 .. Len(copies)]
    /\ lock \in Processes \cup {None}
    /\ work \in Databases \cup {None}
    /\ lock = None <=> work = None
    /\ \A p \in Processes : pc[p] = "migrate" <=> lock = p

(***************************************************************************)
(* Whatever fails, dies or runs beside it, a start leaves the database as  *)
(* it is or upgrades it in one step: the abstract specification            *)
(* (Migrate's transaction, its second reading of the state, and the checks *)
(* before COMMIT).                                                         *)
(***************************************************************************)
Upgrades == UpgradeSpec

(***************************************************************************)
(* When a production database that had tables is changed for the first     *)
(* time, a complete copy of what it was exists, though it is taken outside *)
(* the transaction and two processes may take theirs at once               *)
(* (Migrate and backupDatabase).                                           *)
(***************************************************************************)
BackupBeforeChange ==
    Production /\ original.tables # "none" /\ database # original
        => \E i \in DOMAIN copies : copies[i] = original

(***************************************************************************)
(* A process serves only a database in which each post can be found by a   *)
(* slug of its own, also when another process migrates or has migrated it  *)
(* between two steps of this one (Migrate and validateMigratedSchema).     *)
(***************************************************************************)
ServesUpgraded ==
    \A p \in Processes : pc[p] = "serve" =>
        database.tables = "v1" /\ database.version = 2 /\ Validates(database, 2)

(***************************************************************************)
(* However starts fail, die, repeat or run side by side: production        *)
(* changes a database only after a whole copy of it, and a server runs     *)
(* only on an upgraded one.                                                *)
(***************************************************************************)
StartsSafely == MigrateTypeOK /\ BackupBeforeChange /\ ServesUpgraded

(***************************************************************************)
(* However starts were interrupted before, a database that can be upgraded *)
(* is served in the end by every process (the directory of a backup is new *)
(* for every start, and a start that finds the work done goes on).         *)
(***************************************************************************)
EventuallyServed ==
    Upgradable(original) => \A p \in Processes : <>[](pc[p] = "serve")
=============================================================================
