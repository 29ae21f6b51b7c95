--------------------------- MODULE SchemaUpgrade ---------------------------
(***************************************************************************)
(* What the start of the server does to a database, as its documentation   *)
(* promises it (doc/docs/DATA_COMPATIBILITY.md, the migration strategy):   *)
(* the database is left as it is or becomes, in one step, the upgraded     *)
(* database with every post and every title it had; it is used only after  *)
(* that; and what cannot be upgraded is never touched.                     *)
(***************************************************************************)
EXTENDS Naturals

CONSTANTS
    PostIds,   \* the ids of posts, in the order they are handed out
    Titles,    \* titles, identified with their slugs
    NoPost,    \* no post has this id
    NoSlug     \* the post has no slug

(***************************************************************************)
(* A database: the tables it has, the number of recorded migrations, its   *)
(* posts, and a defect: "none", "keys" for a foreign key violated by its   *)
(* rows, "pages" for damage that a quick check finds.                      *)
(***************************************************************************)
Slug == Titles \X (PostIds \cup {0})
Content == [PostIds -> [title : Titles, slug : Slug \cup {NoSlug}] \cup {NoPost}]
Tables == {"none", "early", "v1", "unknown"}
Databases == [tables : Tables, version : 0 .. 2, posts : Content, defect : {"none", "keys", "pages"}]

PostsOf(d) == {p \in PostIds : d.posts[p] # NoPost}

\* Databases that earlier releases can have left: none has slugs.
Legacy(d) ==
    /\ d.version < 2
    /\ d.tables = "none" => d.version = 0 /\ PostsOf(d) = {}
    /\ d.version = 1 => d.tables = "v1"
    /\ \A p \in PostsOf(d) : d.posts[p].slug = NoSlug

Upgradable(d) == d.tables # "unknown" /\ d.defect = "none"

\* The first post of a title has the title's slug, the others add their id.
Upgraded(d) ==
    [d EXCEPT
        !.tables = "v1", !.version = 2,
        !.posts = [p \in PostIds |->
            IF d.posts[p] = NoPost THEN NoPost
            ELSE [d.posts[p] EXCEPT !.slug =
                IF @ # NoSlug THEN @
                ELSE <<d.posts[p].title,
                       IF \E q \in PostsOf(d) : q < p /\ d.posts[q].title = d.posts[p].title
                       THEN p ELSE 0>>]]]

VARIABLE database

UpgradeInit == database \in {d \in Databases : Legacy(d)}

Upgrade ==
    /\ database.version # 2 /\ Upgradable(database)
    /\ database' = Upgraded(database)

\* A post of an upgraded database is created, or gets another title.
Use ==
    /\ database.version = 2
    /\ \E p \in PostIds, t \in Titles, s \in Slug :
          /\ IF database.posts[p] = NoPost
             THEN \A q \in PostsOf(database) : database.posts[q].slug # s
             ELSE database.posts[p].slug = s
          /\ database' = [database EXCEPT !.posts[p] = [title |-> t, slug |-> s]]

UpgradeNext == Upgrade \/ Use

UpgradeSpec == UpgradeInit /\ [][UpgradeNext]_database
=============================================================================
