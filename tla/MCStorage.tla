------------------------------ MODULE MCStorage ------------------------------
(***************************************************************************)
(* The storage for TLC: servers that start on a database, and the backups  *)
(* of a running one.  They share no state that a property is about, so     *)
(* that a behaviour is one of the two, and the other rests where a         *)
(* behaviour of it may end.                                                *)
(***************************************************************************)
EXTENDS Backup, Migrate

VARIABLE part

CONSTANTS t1, t2

MCPostIds == 1 .. 2
MCTitles == {t1, t2}

\* Titles are interchangeable: the first post may as well have the first one.
MCMigrateInit ==
    /\ MigrateInit
    /\ \A p \in PostsOf(original) :
          (\A q \in PostsOf(original) : p <= q) => original.posts[p].title = t1

\* Every start has refused a database of unknown tables.
MigrateAtRest ==
    /\ database = CHOOSE d \in Databases : Legacy(d) /\ d.tables = "unknown"
    /\ original = database
    /\ pc = [p \in Processes |-> "refused"] /\ schema = [p \in Processes |-> "unknown"]
    /\ applied = [p \in Processes |-> 0] /\ reserved = [p \in Processes |-> 0]
    /\ copies = <<>> /\ lock = None /\ work = None
    /\ faults = 0 /\ uses = 0

StorageInit ==
    /\ part \in {"start", "backup"}
    /\ IF part = "start" THEN MCMigrateInit ELSE MigrateAtRest
    /\ Init

StorageNext ==
    /\ UNCHANGED part
    /\ \/ part = "start" /\ MigrateNext /\ UNCHANGED vars
       \/ part = "backup" /\ Next /\ UNCHANGED migrateVars

StorageSpec ==
    /\ StorageInit /\ [][StorageNext]_<<part, migrateVars, vars>>
    /\ MigrateFairness /\ Fairness

(***************************************************************************)
(* The storage recovers: after the last fault a start of the server        *)
(* succeeds on every database that can be upgraded, and after whatever     *)
(* became of one backup another can be made.                               *)
(***************************************************************************)
StorageRecovers == EventuallyServed /\ BackupPossible
=============================================================================
