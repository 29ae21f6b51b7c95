-------------------------- MODULE SchemaInspection --------------------------
(***************************************************************************)
(* Which databases the server starts on (backend/internal/storage/sqlite:  *)
(* Inspect and its signatures, and what the two migrations and their       *)
(* checks do to the tables).  Migrate looks at the start as a procedure    *)
(* that is interrupted; here a start is one step and the tables have       *)
(* columns, keys and indexes, which are changed between two starts by      *)
(* other releases of the program and by hand.                              *)
(*                                                                         *)
(* A database has tables, each [columns, keys, unique, indexes, auto], and *)
(* perhaps other objects (views, triggers).  A column stands for its whole *)
(* signature, an index for uniqueness and columns.                         *)
(***************************************************************************)
EXTENDS Integers, SequencesExt

CONSTANTS
    Required,      \* v1BaselineSQL: [table -> its definition]
    EarlyColumns,  \* [table of the early schema -> its columns]
    AddedColumns,  \* [table of the early schema -> the columns that ALTER adds]
    LaterIndexes,  \* indexes of early tables that the early schema lacks
    ParentKey,     \* the key of comments.parent_id, which a v1 table may lack
    MigrationTable, SlugIndex,
    MaxChanges     \* bound: changes made to the tables from outside

ASSUME SchemaAssumption ==
    /\ {"posts", "comments"} \subseteq DOMAIN EarlyColumns
    /\ DOMAIN EarlyColumns \subseteq DOMAIN Required
    /\ DOMAIN AddedColumns = DOMAIN EarlyColumns
    /\ "schema_migrations" \notin DOMAIN Required
    /\ MaxChanges \in Nat

\* The columns there may be, in the releases and from outside.
Columns ==
    (UNION {Range(Required[name].columns) : name \in DOMAIN Required})
        \cup Range(MigrationTable.columns) \cup {"slug", "extra", "changed"}

IsTable(table) ==
    /\ table = [columns |-> table.columns, keys |-> table.keys, unique |-> table.unique,
                indexes |-> table.indexes, auto |-> table.auto]
    /\ table.columns \in Seq(Columns)
    /\ table.indexes = [index \in DOMAIN table.indexes |-> table.indexes[index]]

\* What the ALTERs of applyBaseline add makes v1 of the early columns.
ASSUME ColumnsAssumption ==
    /\ \A name \in DOMAIN Required : IsTable(Required[name])
    /\ \A name \in DOMAIN EarlyColumns :
        /\ EarlyColumns[name] \in Seq(Columns) /\ AddedColumns[name] \in Seq(Columns)
        /\ EarlyColumns[name] \o AddedColumns[name] = Required[name].columns
    /\ \E name \in DOMAIN EarlyColumns : AddedColumns[name] # <<>>
    /\ "slug" \notin Range(Required["posts"].columns)

\* A name is of one index, and "changed" is the definition of none.
ASSUME IndexesAssumption ==
    /\ IsTable(MigrationTable) /\ DOMAIN MigrationTable.indexes = {}
    /\ \A name \in DOMAIN Required : \A index \in DOMAIN Required[name].indexes :
        /\ index # SlugIndex /\ Required[name].indexes[index] # <<"changed">>
        /\ \A other \in DOMAIN Required \ {name} : index \notin DOMAIN Required[other].indexes

ASSUME KeysAssumption ==
    /\ ParentKey \in Required["comments"].keys
    /\ \A name \in DOMAIN Required : \A key \in Required[name].keys :
        key.from = ParentKey.from => key = ParentKey

VARIABLES
    tables,   \* [names of the tables in the file -> their definitions]
    others,   \* there are views or triggers
    version,  \* recorded migrations
    phase,    \* "off", "serving", "refused"
    changes,
    additions \* history: nothing but additions since the program last served it

schemaVars == <<tables, others, version, phase, changes, additions>>

Names == DOMAIN Required

\* f, and a value for x if it has none.
Having(f, x, value) == [y \in DOMAIN f \cup {x} |-> IF y \in DOMAIN f THEN f[y] ELSE value]

-----------------------------------------------------------------------------
\* Columns: those required come first; the early tables have no others.
ColumnsFit(columns, required, early) ==
    columns = required \/ (~early /\ IsStrictPrefix(required, columns))

\* A table has what is required of it.
Fits(table, required, columns, early) ==
    /\ ColumnsFit(table.columns, columns, early)
    /\ required.keys \ {ParentKey} \subseteq table.keys
    /\ \A key \in table.keys : key.from = ParentKey.from => key = ParentKey
    /\ required.unique \subseteq table.unique
    /\ \A name \in DOMAIN required.indexes \ (IF early THEN LaterIndexes ELSE {}) :
        name \in DOMAIN table.indexes /\ table.indexes[name] = required.indexes[name]

\* inspectProfile, of sound pages.
InspectProfile(t, other, early) ==
    LET signatures == IF early THEN EarlyColumns
                      ELSE [name \in Names |-> Required[name].columns]
        compatible ==
            /\ early => DOMAIN t \subseteq DOMAIN signatures \cup {"schema_migrations"}
            /\ \A name \in DOMAIN signatures :
                name \in DOMAIN t /\ Fits(t[name], Required[name], signatures[name], early)
            /\ \A name \in Names \cap DOMAIN t : Required[name].auto => t[name].auto
    IN  IF DOMAIN t = {} THEN IF other THEN "unsupported" ELSE "fresh"
        ELSE IF ~compatible THEN "unsupported" ELSE IF early THEN "early" ELSE "v1"

\* Inspect: the early schema is tried where v1 does not fit.
Inspect(t, other) ==
    LET profile == InspectProfile(t, other, FALSE)
    IN  IF profile = "unsupported" /\ InspectProfile(t, other, TRUE) = "early" THEN "early"
        ELSE profile

-----------------------------------------------------------------------------
Failed == [failed |-> TRUE]

IndexNames(t) == UNION {DOMAIN t[name].indexes : name \in DOMAIN t}

\* CREATE TABLE and CREATE INDEX IF NOT EXISTS: names that exist are left alone.
Create(t) ==
    [name \in Names \cup DOMAIN t |->
        IF name \notin Names THEN t[name]
        ELSE LET table == IF name \in DOMAIN t THEN t[name] ELSE [Required[name] EXCEPT !.indexes = <<>>]
                 old == table.indexes
                 new == DOMAIN Required[name].indexes \ IndexNames(t)
             IN  [table EXCEPT !.indexes = [index \in DOMAIN old \cup new |->
                    IF index \in DOMAIN old THEN old[index] ELSE Required[name].indexes[index]]]]

Altered(t) ==
    [name \in DOMAIN t |->
        IF name \in DOMAIN AddedColumns
        THEN [t[name] EXCEPT !.columns = @ \o AddedColumns[name]] ELSE t[name]]

\* applyBaseline; a new database has only the migration table.
BaselineApplied(t, other) ==
    LET schema == Inspect(t, other)
    IN  IF schema = "unsupported" /\ DOMAIN t # {"schema_migrations"} THEN Failed
        ELSE Create(IF schema = "early" THEN Altered(t) ELSE t)

\* addPostSlugs.
AddSlugColumn(t) ==
    IF "slug" \in Range(t["posts"].columns) \/ SlugIndex \in IndexNames(t) THEN Failed
    ELSE [t EXCEPT !["posts"].columns = Append(@, "slug"),
                   !["posts"].indexes = Having(@, SlugIndex, <<"unique", "slug">>)]

\* Mutant: nothing may follow the slug.
SlugLast(columns) == columns = Append(Required["posts"].columns, "slug")

SlugFollows(columns) == IsPrefix(Append(Required["posts"].columns, "slug"), columns)

\* validateMigratedSchema.
ValidSchema(t, other, applied) ==
    LET schema == Inspect(t, other)
    IN  /\ schema # "unsupported" /\ (applied > 0 => schema = "v1")
        /\ applied = 2 =>
            /\ SlugFollows(t["posts"].columns)
            /\ SlugIndex \in DOMAIN t["posts"].indexes
            /\ t["posts"].indexes[SlugIndex] = <<"unique", "slug">>

\* appliedMigrations: the migration table is as the program creates it.
StateReadable(t) == "schema_migrations" \in DOMAIN t => t["schema_migrations"] = MigrationTable

\* Migrate: the tables after the transaction, or a failure.
Migrated(t, other, applied) ==
    LET recorded == Having(t, "schema_migrations", MigrationTable)
        base == IF applied = 0 THEN BaselineApplied(recorded, other) ELSE recorded
        final == IF base = Failed \/ applied = 2 THEN base ELSE AddSlugColumn(base)
    IN  IF ~StateReadable(t) \/ ~ValidSchema(t, other, applied) THEN Failed
        ELSE IF applied = 2 THEN t
        ELSE IF final = Failed THEN Failed
        ELSE IF ValidSchema(final, other, 2) THEN final ELSE Failed

-----------------------------------------------------------------------------
Fresh == <<>>
V1 == [name \in Names |-> Required[name]]
V1WithoutParentKey == [V1 EXCEPT !["comments"].keys = @ \ {ParentKey}]
Early ==
    [name \in DOMAIN EarlyColumns |->
        [Required[name] EXCEPT
            !.columns = EarlyColumns[name],
            !.indexes = [index \in DOMAIN @ \ LaterIndexes |-> @[index]]]]

SchemaInit ==
    /\ tables \in {Fresh, Early, V1, V1WithoutParentKey}
    /\ others = FALSE /\ version = 0 /\ phase = "off" /\ changes = 0
    /\ additions = TRUE

\* Open and Migrate: serve, or leave everything as it is.
Start ==
    /\ phase = "off"
    /\ LET final == Migrated(tables, others, version)
       IN  IF Inspect(tables, others) = "unsupported" \/ final = Failed
           THEN phase' = "refused" /\ UNCHANGED <<tables, version>>
           ELSE phase' = "serving" /\ tables' = final /\ version' = 2
    /\ additions' = (additions \/ phase' = "serving")
    /\ UNCHANGED <<others, changes>>

StopServing ==
    /\ phase # "off"
    /\ phase' = "off"
    /\ UNCHANGED <<tables, others, version, changes, additions>>

\* One change from outside while the server is down.
Changed(addition) ==
    /\ phase = "off" /\ changes < MaxChanges
    /\ changes' = changes + 1
    /\ additions' = (additions /\ addition)
    /\ UNCHANGED phase

\* A later release or an operator appends a column, a table or another object.
AddColumn(name) ==
    /\ "extra" \notin Range(tables[name].columns)
    /\ tables' = [tables EXCEPT ![name].columns = Append(@, "extra")]
    /\ UNCHANGED others

AddTable ==
    /\ "drafts" \notin DOMAIN tables
    /\ tables' = Having(tables, "drafts", MigrationTable)
    /\ UNCHANGED others

AddObject == others' = TRUE /\ UNCHANGED tables

AddOutside ==
    /\ Changed(TRUE)
    /\ AddTable \/ AddObject \/ \E name \in Names \cap DOMAIN tables : AddColumn(name)
    /\ UNCHANGED version

\* Something the program relies on is dropped, or differs from what it creates.
Drop(name) == tables' = [other \in DOMAIN tables \ {name} |-> tables[other]]

Damage(name) ==
    \/ \E i \in DOMAIN tables[name].columns :
        tables' = [tables EXCEPT ![name].columns[i] = "changed"]
    \/ \E key \in tables[name].keys :
        \/ tables' = [tables EXCEPT ![name].keys = @ \ {key}]
        \/ tables' = [tables EXCEPT ![name].keys = (@ \ {key}) \cup {[key EXCEPT !.delete = "none"]}]
    \/ tables[name].unique # {} /\ tables' = [tables EXCEPT ![name].unique = {}]
    \/ \E index \in DOMAIN tables[name].indexes :
        tables' = [tables EXCEPT ![name].indexes[index] = <<"changed">>]
    \/ tables' = [tables EXCEPT ![name].auto = FALSE]

TakeName(name) ==
    \E index \in LaterIndexes \cup {SlugIndex} :
        /\ index \notin IndexNames(tables)
        /\ tables' = [tables EXCEPT ![name].indexes = Having(@, index, <<"changed">>)]

Break ==
    /\ Changed(FALSE)
    /\ \E name \in DOMAIN tables : Drop(name) \/ Damage(name) \/ TakeName(name)
    /\ version' = IF "schema_migrations" \in DOMAIN tables' THEN version ELSE 0
    /\ UNCHANGED others

SchemaNext == Start \/ StopServing \/ AddOutside \/ Break

SchemaSpec == SchemaInit /\ [][SchemaNext]_schemaVars

-----------------------------------------------------------------------------
(***************************************************************************)
(* Every way to the current release ends in the same tables: a new         *)
(* database, the early schema and v1, columns in the same order, apart     *)
(* from the key of parent_id, which a v1 database may lack (applyBaseline, *)
(* v1BaselineSQL; "a fresh install should build the same final schema").   *)
(***************************************************************************)
Final == Migrated(Fresh, FALSE, 0)

OneFinalSchema ==
    changes = 0 =>
        /\ phase # "refused"
        /\ phase = "serving" =>
            \A name \in DOMAIN Final :
                \/ tables[name] = Final[name]
                \/ [tables[name] EXCEPT !.keys = @ \cup {ParentKey}] = Final[name]

(***************************************************************************)
(* A database that Open recognises is migrated or was tampered with where  *)
(* the migrations add something: a column after those of posts, or the     *)
(* name of one of their indexes.  Nothing else that passes Inspect makes   *)
(* the transaction fail (inspectProfile against validateMigratedSchema).   *)
(***************************************************************************)
Obstructed(t) ==
    \/ "posts" \in DOMAIN t /\ IsStrictPrefix(Required["posts"].columns, t["posts"].columns)
    \/ \E name \in DOMAIN t, index \in LaterIndexes \cup {SlugIndex} :
        index \in DOMAIN t[name].indexes /\ t[name].indexes[index] = <<"changed">>

RecognisedIsMigrated ==
    phase = "refused" /\ version = 0 /\ Inspect(tables, others) # "unsupported"
        => \/ Obstructed(tables)
           \/ ~StateReadable(tables)

(***************************************************************************)
(* A database that was served is served again after columns, tables or     *)
(* other objects were added to it (the prefix comparisons of               *)
(* inspectProfile and validateMigratedSchema; "additive schema             *)
(* evolution").                                                            *)
(***************************************************************************)
AdditionsAreServed == version = 2 /\ additions => phase # "refused"

(***************************************************************************)
(* Whatever was done to it, a database that is served has every table,     *)
(* key, unique column and index that the statements of the program rely    *)
(* on, with the cascades on which deleting a post depends.                 *)
(***************************************************************************)
ServedIsComplete ==
    phase = "serving" =>
        \A name \in Names :
            /\ IsPrefix(Required[name].columns, tables[name].columns)
            /\ Required[name].unique \subseteq tables[name].unique
            /\ DOMAIN Required[name].indexes \subseteq DOMAIN tables[name].indexes
            /\ Required[name].keys \ {ParentKey} \subseteq tables[name].keys
            /\ \A key \in tables[name].keys : key.from = ParentKey.from => key = ParentKey

(***************************************************************************)
(* Open, the migrations and their checks agree: what one recognises the    *)
(* others bring to one schema, with what was added to it, and nothing      *)
(* incomplete is served.                                                   *)
(***************************************************************************)
SchemasAreKnown ==
    /\ OneFinalSchema
    /\ RecognisedIsMigrated
    /\ AdditionsAreServed
    /\ ServedIsComplete
=============================================================================
