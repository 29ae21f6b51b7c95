---------------------------- MODULE StorageProofs ---------------------------
(***************************************************************************)
(* What Backup promises for every number of files and clients, and without *)
(* bounds on crashes and backups; what the start of a server promises      *)
(* (Migrate) for every number of processes, posts and failures; and which  *)
(* databases are recognised, migrated and served (SchemaInspection), for   *)
(* any tables of the releases.                                             *)
(***************************************************************************)
EXTENDS Backup, Migrate, SchemaInspection, WellFoundedInduction, TLAPS

\* An address is given to a client when its file is stored, and stays good.
ToldAreStored == \A f \in told : Stored(f)

\* What a backup knows at each of its steps of the files it has to pack.
Packing ==
    \A a \in Admins :
        LET j == job[a]
        IN  /\ j.step = "list" => (\A f \in j.db : Stored(f)) /\ j.zip = {}
            /\ j.step \in {"idle", "snapshot", "audit"} => j.zip = {}
            /\ j.step \in {"copy", "sent"} =>
                  /\ j.db \subseteq j.listed \cup j.zip
                  /\ \A f \in j.listed \cup j.zip : Stored(f)
            /\ j.step = "sent" => j.listed = {}

\* The backup that is under way has its directory.
OneDirectory == active => directories > 0

BackupInv == TypeOK /\ ToldAreStored /\ Packing /\ OneDirectory /\ NothingLeft

-----------------------------------------------------------------------------
JobSteps == {"idle", "snapshot", "audit", "list", "copy", "sent"}

Jobs == [step : JobSteps, db : SUBSET Files, listed : SUBSET Files, zip : SUBSET Files]

\* One backup moves on, within its types and without losing the mutex.
LEMMA StepTypes ==
    ASSUME TypeOK, NEW a \in Admins, NEW j \in Jobs, NEW from \in JobSteps,
           Step(a, from, j)
    PROVE  /\ job[a].step = from
           /\ job' \in [Admins -> Jobs]
           /\ job'[a] = j
           /\ \A b \in Admins \ {a} : job'[b] = job[b]
BY DEF TypeOK, Step, Jobs, JobSteps

\* A backup that went on holds the mutex still.
LEMMA StillOne ==
    ASSUME TypeOK, NEW a \in Admins, job[a].step # "idle",
           job' \in [Admins -> Jobs], job'[a].step # "idle",
           \A b \in Admins \ {a} : job'[b] = job[b], active' = active
    PROVE  /\ active' <=> \E b \in Admins : job'[b].step # "idle"
           /\ \A b, c \in Admins : job'[b].step # "idle" /\ job'[c].step # "idle" => b = c
BY DEF TypeOK, Jobs, JobSteps

\* Files that are stored stay stored when a file moves from one step to another.
LEMMA MoveKeeps ==
    ASSUME TypeOK, NEW f \in Files, NEW from, NEW to, Move(f, from, to),
           from \in {"renamed", "answered", "lost"} => to \in {"renamed", "answered", "lost"}
    PROVE  \A g \in Files : Stored(g) => Stored(g)'
BY DEF TypeOK, Move, Stored

\* Packing is about the stored files and the jobs only.
LEMMA PackingKept ==
    ASSUME TypeOK, Packing, job' = job, \A f \in Files : Stored(f) => Stored(f)'
    PROVE  Packing'
BY DEF TypeOK, Packing

-----------------------------------------------------------------------------
LEMMA InitBackup == Init => BackupInv
<1> SUFFICES ASSUME Init PROVE BackupInv
  OBVIOUS
<1>1. Idle \in Jobs /\ Idle.step = "idle" /\ Idle.zip = {}
  BY DEF Jobs, JobSteps, Idle
<1>2. job \in [Admins -> Jobs] /\ \A a \in Admins : job[a] = Idle
  BY <1>1 DEF Init
<1>3. TypeOK
  BY <1>1, <1>2 DEF Init, TypeOK, Jobs, JobSteps
<1>4. Packing
  BY <1>1, <1>2 DEF Packing
<1>5. ToldAreStored /\ OneDirectory /\ NothingLeft
  BY DEF Init, ToldAreStored, OneDirectory, NothingLeft
<1>6. QED
  BY <1>3, <1>4, <1>5 DEF BackupInv

\* An upload moves on, or ends.
LEMMA MoveInv ==
    ASSUME BackupInv, NEW f \in Files, NEW from, NEW to, Move(f, from, to),
           <<from, to>> \in {<<"none", "partial">>, <<"partial", "checked">>,
                             <<"checked", "renamed">>, <<"renamed", "answered">>,
                             <<"partial", "removed">>, <<"checked", "removed">>}
    PROVE  BackupInv'
<1> USE DEF BackupInv
<1>1. from \in {"renamed", "answered", "lost"} => to \in {"renamed", "answered", "lost"}
  OBVIOUS
<1>2. \A g \in Files : Stored(g) => Stored(g)'
  BY <1>1, MoveKeeps
<1>3. TypeOK'
  BY DEF TypeOK, Move
<1>4. ToldAreStored'
  BY <1>2 DEF ToldAreStored, Move, Stored, TypeOK
<1>5. Packing'
  BY <1>2, PackingKept DEF Move
<1>6. OneDirectory' /\ NothingLeft'
  BY DEF OneDirectory, NothingLeft, Move, TypeOK
<1>7. QED
  BY <1>3, <1>4, <1>5, <1>6

\* The posts, the limiter and the clock of the limiter touch no file and no backup.
LEMMA ElsewhereInv ==
    ASSUME BackupInv, UNCHANGED <<upload, told, active, job, directories, crashes, backups>>,
           posts' \subseteq Files, spent' \in BOOLEAN
    PROVE  BackupInv'
<1> USE DEF BackupInv
<1>1. TypeOK' /\ ToldAreStored' /\ OneDirectory' /\ NothingLeft'
  BY DEF TypeOK, ToldAreStored, OneDirectory, NothingLeft, Stored
<1>2. Packing'
  BY PackingKept DEF Stored
<1>3. QED
  BY <1>1, <1>2

LEMMA BeginInv ==
    ASSUME BackupInv, NEW a \in Admins, Begin(a)
    PROVE  BackupInv'
<1> USE DEF BackupInv
<1> DEFINE j == [Idle EXCEPT !.step = "snapshot"]
<1>1. j \in Jobs /\ j.step = "snapshot" /\ j.zip = {}
  BY DEF Jobs, JobSteps, Idle
<1>2. /\ job' \in [Admins -> Jobs] /\ job'[a] = j
      /\ \A b \in Admins \ {a} : job'[b] = job[b]
  BY <1>1, StepTypes DEF Begin, JobSteps
<1>3. \A b \in Admins : job[b].step = "idle"
  BY DEF Begin, TypeOK
<1>4. TypeOK'
  BY <1>1, <1>2, <1>3 DEF TypeOK, Begin, Jobs, JobSteps
<1>5. ToldAreStored' /\ OneDirectory' /\ NothingLeft'
  BY DEF ToldAreStored, OneDirectory, NothingLeft, Stored, Begin, TypeOK
<1>6. Packing'
  BY <1>1, <1>2, <1>3 DEF Packing, Begin, Stored
<1>7. QED
  BY <1>4, <1>5, <1>6

\* The deferred calls at the end of a backup.
LEMMA ReturnInv ==
    ASSUME BackupInv, NEW a \in Admins, NEW from \in JobSteps \ {"idle"}, Return(a, from)
    PROVE  BackupInv'
<1> USE DEF BackupInv
<1>1. Idle \in Jobs /\ Idle.step = "idle" /\ Idle.zip = {}
  BY DEF Jobs, JobSteps, Idle
<1>2. /\ job' \in [Admins -> Jobs] /\ job'[a] = Idle /\ job[a].step = from
      /\ \A b \in Admins \ {a} : job'[b] = job[b]
  BY <1>1, StepTypes DEF Return
<1>3. active /\ \A b \in Admins \ {a} : job[b].step = "idle"
  BY <1>2 DEF TypeOK
<1>4. \A b \in Admins : job'[b].step = "idle"
  BY <1>1, <1>2, <1>3
<1>5. directories' = directories - 1 /\ directories' \in Nat
  BY <1>3 DEF Return, OneDirectory, TypeOK
<1>6. TypeOK'
  BY <1>2, <1>4, <1>5 DEF TypeOK, Return, Jobs, JobSteps
<1>7. ToldAreStored' /\ OneDirectory' /\ NothingLeft'
  BY <1>3, <1>5 DEF ToldAreStored, OneDirectory, NothingLeft, Stored, Return, TypeOK
<1>8. Packing'
  BY <1>1, <1>2, <1>4 DEF Packing, Return, Stored
<1>9. QED
  BY <1>6, <1>7, <1>8

\* A backup goes from one step to the next, keeping its mutex and directory,
\* and knows there what Packing asks of that step.
LEMMA OnwardInv ==
    ASSUME BackupInv, NEW a \in Admins, NEW from \in JobSteps \ {"idle"}, NEW j \in Jobs,
           Step(a, from, j), j.step # "idle",
           UNCHANGED <<upload, told, posts, active, spent, directories, crashes, backups>>,
           j.step = "list" => (\A f \in j.db : Stored(f)) /\ j.zip = {},
           j.step \in {"snapshot", "audit"} => j.zip = {},
           j.step \in {"copy", "sent"} =>
               j.db \subseteq j.listed \cup j.zip /\ \A f \in j.listed \cup j.zip : Stored(f),
           j.step = "sent" => j.listed = {}
    PROVE  BackupInv'
<1> USE DEF BackupInv
<1>1. /\ job' \in [Admins -> Jobs] /\ job'[a] = j /\ job[a].step = from
      /\ \A b \in Admins \ {a} : job'[b] = job[b]
  BY StepTypes
<1>2. TypeOK'
  BY <1>1, StillOne DEF TypeOK, Jobs, JobSteps
<1>3. ToldAreStored' /\ OneDirectory' /\ NothingLeft'
  BY DEF ToldAreStored, OneDirectory, NothingLeft, Stored
<1>4. \A f : Stored(f)' <=> Stored(f)
  BY DEF Stored
<1>5. ASSUME NEW b \in Admins
      PROVE  /\ job'[b].step = "list" => (\A f \in job'[b].db : Stored(f)) /\ job'[b].zip = {}
             /\ job'[b].step \in {"idle", "snapshot", "audit"} => job'[b].zip = {}
             /\ job'[b].step \in {"copy", "sent"} =>
                   /\ job'[b].db \subseteq job'[b].listed \cup job'[b].zip
                   /\ \A f \in job'[b].listed \cup job'[b].zip : Stored(f)
             /\ job'[b].step = "sent" => job'[b].listed = {}
  <2>1. CASE b = a
    BY <2>1, <1>1
  <2>2. CASE b # a
    BY <2>2, <1>1 DEF Packing
  <2>3. QED
    BY <2>1, <2>2
<1>6. Packing'
  BY <1>4, <1>5 DEF Packing
<1>7. QED
  BY <1>2, <1>3, <1>6

LEMMA ProceedInv ==
    ASSUME BackupInv, NEW a \in Admins, Proceed(a)
    PROVE  BackupInv'
<1> USE DEF BackupInv
<1>1. job[a] \in Jobs /\ job \in [Admins -> Jobs]
  BY DEF TypeOK, Jobs, JobSteps
<1>2. CASE Snapshot(a)
  <2> DEFINE j == [job[a] EXCEPT !.step = "audit", !.db = posts]
  <2>1. j \in Jobs /\ j.step = "audit" /\ j.zip = job[a].zip
    BY <1>1 DEF Jobs, JobSteps, TypeOK
  <2>2. job[a].step = "snapshot" /\ Step(a, "snapshot", j)
    BY <1>2 DEF Snapshot, Step
  <2>3. j.zip = {}
    BY <2>1, <2>2 DEF Packing
  <2>4. QED
    BY <1>2, <2>1, <2>2, <2>3, OnwardInv DEF Snapshot, JobSteps
<1>3. CASE Audit(a)
  <2> DEFINE j == [job[a] EXCEPT !.step = "list"]
  <2>1. CASE Missing(job[a].db) = {}
    <3>1. j \in Jobs /\ j.step = "list" /\ j.zip = job[a].zip /\ j.db = job[a].db
      BY <1>1 DEF Jobs, JobSteps
    <3>2. job[a].step = "audit" /\ Step(a, "audit", j)
      BY <1>3, <2>1 DEF Audit, Step
    <3>3. j.zip = {} /\ \A f \in j.db : Stored(f)
      BY <2>1, <3>1, <3>2 DEF Packing, Missing
    <3>4. QED
      BY <1>3, <2>1, <3>1, <3>2, <3>3, OnwardInv DEF Audit, JobSteps
  <2>2. CASE Missing(job[a].db) # {}
    BY <1>3, <2>2, ReturnInv DEF Audit, JobSteps
  <2>3. QED
    BY <2>1, <2>2
<1>4. CASE List(a)
  <2> DEFINE j == [job[a] EXCEPT !.step = "copy", !.listed = {f \in Files : Walked(f)}]
  <2>1. /\ j \in Jobs /\ j.step = "copy" /\ j.zip = job[a].zip /\ j.db = job[a].db
        /\ j.listed = {f \in Files : Walked(f)}
    BY <1>1 DEF Jobs, JobSteps
  <2>2. job[a].step = "list" /\ Step(a, "list", j)
    BY <1>4 DEF List, Step
  <2>3. j.db \subseteq j.listed \cup j.zip /\ \A f \in j.listed \cup j.zip : Stored(f)
    BY <1>1, <2>1, <2>2 DEF Packing, Walked, Jobs
  <2>4. QED
    BY <1>4, <2>1, <2>2, <2>3, OnwardInv DEF List, JobSteps
<1>5. CASE CopyFile(a)
  <2>1. PICK f \in job[a].listed :
           Step(a, "copy", [job[a] EXCEPT !.listed = @ \ {f}, !.zip = @ \cup {f}])
    BY <1>5 DEF CopyFile
  <2> DEFINE j == [job[a] EXCEPT !.listed = @ \ {f}, !.zip = @ \cup {f}]
  <2>2. job[a].step = "copy" /\ Step(a, "copy", j)
    BY <2>1 DEF Step
  <2>3. /\ j \in Jobs /\ j.step = "copy" /\ j.db = job[a].db
        /\ j.listed = job[a].listed \ {f} /\ j.zip = job[a].zip \cup {f}
    BY <1>1, <2>2 DEF Jobs, JobSteps
  <2>4. j.db \subseteq j.listed \cup j.zip /\ \A g \in j.listed \cup j.zip : Stored(g)
    BY <2>2, <2>3 DEF Packing
  <2>5. UNCHANGED <<upload, told, posts, active, spent, directories, crashes, backups>>
    BY <1>5 DEF CopyFile
  <2>6. QED
    BY <2>2, <2>3, <2>4, <2>5, OnwardInv DEF JobSteps
<1>6. CASE Pack(a)
  <2> DEFINE j == [job[a] EXCEPT !.step = "sent"]
  <2>1. /\ j \in Jobs /\ j.step = "sent" /\ j.zip = job[a].zip /\ j.db = job[a].db
        /\ j.listed = job[a].listed
    BY <1>1 DEF Jobs, JobSteps
  <2>2. job[a].step = "copy" /\ Step(a, "copy", j) /\ job[a].listed = {}
    BY <1>6 DEF Pack, Step
  <2>3. j.db \subseteq j.listed \cup j.zip /\ \A f \in j.listed \cup j.zip : Stored(f)
    BY <2>1, <2>2 DEF Packing
  <2>4. QED
    BY <1>6, <2>1, <2>2, <2>3, OnwardInv DEF Pack, JobSteps
<1>7. CASE Finish(a)
  BY <1>7, ReturnInv DEF Finish, JobSteps
<1>8. QED
  BY <1>2, <1>3, <1>4, <1>5, <1>6, <1>7 DEF Proceed

LEMMA CrashInv ==
    ASSUME BackupInv, Crash
    PROVE  BackupInv'
<1> USE DEF BackupInv
<1>1. \A f \in Files : Stored(f) => Stored(f)'
  BY DEF TypeOK, Crash, Stored
<1>2. job' \in [Admins -> Jobs] /\ \A a \in Admins : job'[a] = Idle
  BY DEF Crash, Jobs, JobSteps, Idle
<1>3. Idle.step = "idle" /\ Idle.zip = {}
  BY DEF Idle
<1>4. TypeOK'
  <2>1. upload' \in [Files -> {"none", "partial", "checked", "renamed", "answered",
                              "removed", "left", "lost"}]
    BY DEF TypeOK, Crash
  <2>2. /\ active' = FALSE /\ spent' = FALSE /\ crashes' = crashes + 1
        /\ UNCHANGED <<told, posts, directories, backups>>
    BY DEF Crash
  <2>3. ~ \E a \in Admins : job'[a].step # "idle"
    BY <1>2, <1>3
  <2>4. active' <=> \E a \in Admins : job'[a].step # "idle"
    BY <2>2, <2>3
  <2>5. \A a, b \in Admins : job'[a].step # "idle" /\ job'[b].step # "idle" => a = b
    BY <1>2, <1>3
  <2>6. /\ told' \subseteq Files /\ posts' \subseteq Files
        /\ directories' \in Nat /\ crashes' \in Nat /\ backups' \in Nat
    BY <2>2 DEF TypeOK
  <2>7. active' \in BOOLEAN /\ spent' \in BOOLEAN
    BY <2>2
  <2>8. QED
    BY <1>2, <2>1, <2>4, <2>5, <2>6, <2>7 DEF TypeOK, Jobs, JobSteps
<1>5. ToldAreStored'
  BY <1>1 DEF ToldAreStored, Crash, TypeOK
<1>6. Packing'
  BY <1>2, <1>3 DEF Packing
<1>7. OneDirectory' /\ NothingLeft'
  BY DEF OneDirectory, NothingLeft, Crash, TypeOK
<1>8. QED
  BY <1>4, <1>5, <1>6, <1>7

LEMMA NextBackup == BackupInv /\ [Next]_vars => BackupInv'
<1> SUFFICES ASSUME BackupInv, [Next]_vars PROVE BackupInv'
  OBVIOUS
<1>1. ASSUME NEW f \in Files,
             Receive(f) \/ Check(f) \/ Rename(f) \/ AnswerUpload(f) \/ RefuseUpload(f)
      PROVE  BackupInv'
  BY <1>1, MoveInv DEF Receive, Check, Rename, AnswerUpload, RefuseUpload
<1>2. ASSUME NEW f \in Files, Publish(f) \/ Unpublish(f) PROVE BackupInv'
  BY <1>2, ElsewhereInv DEF Publish, Unpublish, BackupInv, TypeOK
<1>3. ASSUME NEW a \in Admins, Fail(a) PROVE BackupInv'
  BY <1>3, ReturnInv DEF Fail, JobSteps
<1>4. CASE Minute
  BY <1>4, ElsewhereInv DEF Minute, BackupInv, TypeOK
<1>5. CASE UNCHANGED vars
  BY <1>5, ElsewhereInv DEF vars, BackupInv, TypeOK
<1>6. QED
  BY <1>1, <1>2, <1>3, <1>4, <1>5, BeginInv, ProceedInv, CrashInv DEF Next

-----------------------------------------------------------------------------
LEMMA BackupInvariant == Spec => []BackupInv
BY InitBackup, NextBackup, PTL DEF Spec

\* One backup at a time, and every variable has its type.
THEOREM BackupTypes == Spec => []TypeOK
BY BackupInvariant, PTL DEF BackupInv

(***************************************************************************)
(* An archive that is sent holds every file its database refers to, and    *)
(* only complete ones (Create): the audit finds the files of the snapshot  *)
(* stored, none is ever removed, so the walk that follows lists them all.  *)
(***************************************************************************)
THEOREM ArchivesWhole == Spec => []ArchivesAreWhole
<1>1. BackupInv => ArchivesAreWhole
  BY DEF BackupInv, Packing, ArchivesAreWhole
<1>2. QED
  BY <1>1, BackupInvariant, PTL

\* No post written with uploaded files stands in the way of a backup.
THEOREM RefusalsOnlyUnknown == Spec => []RefusesOnlyUnknown
<1>1. BackupInv => RefusesOnlyUnknown
  BY DEF BackupInv, ToldAreStored, RefusesOnlyUnknown, Missing
<1>2. QED
  BY <1>1, BackupInvariant, PTL

\* Requests that end leave nothing on the disk, but for deaths of the server.
THEOREM NothingIsLeft == Spec => []NothingLeft
BY BackupInvariant, PTL DEF BackupInv

-----------------------------------------------------------------------------
(***************************************************************************)
(* The start of a server.  The database is the original until it has been  *)
(* upgraded, and from then on each of its posts has a slug of its own.     *)
(***************************************************************************)
DatabaseInv ==
    /\ original \in Databases /\ Legacy(original)
    /\ database.version # 2 => database = original
    /\ database.version = 2 => Validates(database, 2)
    /\ original.tables # "none" => database.tables # "none"

CopyMade ==
    Production /\ original.tables # "none" => \E i \in DOMAIN copies : copies[i] = original

\* A start fills a directory that no other start fills.
Filling(p) ==
    /\ reserved[p] \in DOMAIN copies /\ copies[reserved[p]] = None
    /\ \A q \in Processes \ {p} : pc[q] = "copy" => reserved[q] # reserved[p]

StartInv(p) ==
    /\ pc[p] \notin {"off", "refused"} =>
          Inspects(database) /\ (original.tables # "none" => schema[p] # "none")
    /\ pc[p] = "validate" => applied[p] <= database.version
    /\ pc[p] = "serve" => database.version = 2
    /\ pc[p] = "copy" => Filling(p)
    /\ pc[p] \in {"begin", "migrate"} => CopyMade

StartsInv == \A p \in Processes : StartInv(p)

\* Within its transaction a start has given slugs to the first of the posts, ...
HalfUpgraded(d, w) ==
    /\ w.tables = "v1" /\ w.version = 1
    /\ PostsOf(w) = PostsOf(d)
    /\ \A i \in PostsOf(d) :
          w.posts[i] = IF i \in Unslugged(w) THEN d.posts[i] ELSE Upgraded(d).posts[i]
    /\ \A i, j \in PostsOf(d) : i < j /\ i \in Unslugged(w) => j \in Unslugged(w)

\* ... and sees an upgraded database as it is, or what it makes of the original.
WorkInv ==
    lock # None =>
        /\ work.defect = database.defect
        /\ \/ work = database
           \/ /\ database.version # 2
              /\ HalfUpgraded(database, work) \/ work = Upgraded(database)

MigrateInv ==
    MigrateTypeOK /\ DatabaseInv /\ StartsInv /\ WorkInv /\ BackupBeforeChange

-----------------------------------------------------------------------------
\* The version and the posts of a database have their types.
LEMMA DatabaseFields ==
    ASSUME NEW d \in Databases
    PROVE  /\ d.version \in 0 .. 2 /\ d.tables \in Tables
           /\ d.posts \in Content
           /\ \A i \in PostsOf(d) :
                 /\ i \in PostIds /\ i \in Nat /\ i # 0
                 /\ d.posts[i] \in [title : Titles, slug : Slug \cup {NoSlug}]
BY MigrateAssumption DEF Databases, PostsOf, Content

\* A post that is there is not NoPost, and one that was not is none now.
LEMMA UpgradedFields ==
    ASSUME NEW d \in Databases
    PROVE  /\ Upgraded(d) \in Databases
           /\ Upgraded(d).version = 2 /\ Upgraded(d).tables = "v1"
           /\ Upgraded(d).defect = d.defect
           /\ PostsOf(Upgraded(d)) = PostsOf(d)
           /\ \A i \in PostsOf(d) :
                 Upgraded(d).posts[i] =
                     [d.posts[i] EXCEPT !.slug =
                        IF @ # NoSlug THEN @
                        ELSE <<d.posts[i].title,
                               IF \E q \in PostsOf(d) : q < i /\ d.posts[q].title = d.posts[i].title
                               THEN i ELSE 0>>]
           /\ \A i \in PostIds \ PostsOf(d) : Upgraded(d).posts[i] = NoPost
<1> DEFINE post(i) == [d.posts[i] EXCEPT !.slug =
                        IF @ # NoSlug THEN @
                        ELSE <<d.posts[i].title,
                               IF \E q \in PostsOf(d) : q < i /\ d.posts[q].title = d.posts[i].title
                               THEN i ELSE 0>>]
           table == [i \in PostIds |-> IF d.posts[i] = NoPost THEN NoPost ELSE post(i)]
<1>1. ASSUME NEW i \in PostsOf(d) PROVE post(i) \in [title : Titles, slug : Slug \cup {NoSlug}]
  <2>1. d.posts[i] \in [title : Titles, slug : Slug \cup {NoSlug}] /\ i \in PostIds
    BY <1>1, DatabaseFields
  <2>2. \A n \in {i, 0} : <<d.posts[i].title, n>> \in Slug
    BY <2>1 DEF Slug
  <2>3. QED
    BY <2>1, <2>2
<1>2. table \in Content
  BY <1>1 DEF Content, PostsOf
<1>3. Upgraded(d) = [d EXCEPT !.tables = "v1", !.version = 2, !.posts = table]
  BY DEF Upgraded
<1>4. \A i \in PostsOf(d) : post(i) # NoPost
  BY <1>1, MigrateAssumption
<1> HIDE DEF post, table
<1>5. /\ Upgraded(d) \in Databases
      /\ Upgraded(d).version = 2 /\ Upgraded(d).tables = "v1"
      /\ Upgraded(d).defect = d.defect /\ Upgraded(d).posts = table
  <2> DEFINE a == [d EXCEPT !.tables = "v1"]
             b == [a EXCEPT !.version = 2]
             u == [b EXCEPT !.posts = table]
  <2>1. a \in Databases /\ a.tables = "v1" /\ a.defect = d.defect
    BY DEF Databases, Tables
  <2> HIDE DEF a
  <2>2. b \in Databases /\ b.version = 2 /\ b.tables = "v1" /\ b.defect = d.defect
    BY <2>1 DEF Databases
  <2> HIDE DEF b
  <2>3. /\ u \in Databases /\ u.version = 2 /\ u.tables = "v1" /\ u.defect = d.defect
        /\ u.posts = table
    BY <1>2, <2>2 DEF Databases
  <2> HIDE DEF u
  <2>4. Upgraded(d) = u
    BY <1>3 DEF u, a, b
  <2>5. QED
    BY <2>3, <2>4
<1>6. PostsOf(Upgraded(d)) = PostsOf(d)
  BY <1>4, <1>5 DEF PostsOf, table
<1>7. \A i \in PostsOf(d) : Upgraded(d).posts[i] = post(i)
  BY <1>5 DEF PostsOf, table
<1>8. \A i \in PostIds \ PostsOf(d) : Upgraded(d).posts[i] = NoPost
  BY <1>5 DEF PostsOf, table
<1>9. QED
  BY <1>5, <1>6, <1>7, <1>8 DEF post

\* An earlier post of the original has the title of post i.
Repeated(d, i) == \E q \in PostsOf(d) : q < i /\ d.posts[q].title = d.posts[i].title

\* The upgrade gives a post that had no slug the title's, or its id as well.
LEMMA UpgradedSlug ==
    ASSUME NEW d \in Databases, Legacy(d), NEW i \in PostsOf(d)
    PROVE  /\ Upgraded(d).posts[i].title = d.posts[i].title
           /\ Repeated(d, i) => Upgraded(d).posts[i].slug = <<d.posts[i].title, i>>
           /\ ~Repeated(d, i) => Upgraded(d).posts[i].slug = <<d.posts[i].title, 0>>
           /\ Upgraded(d).posts[i].slug # NoSlug
           /\ Upgraded(d).posts[i] = [d.posts[i] EXCEPT !.slug = Upgraded(d).posts[i].slug]
<1>1. d.posts[i] \in [title : Titles, slug : Slug \cup {NoSlug}] /\ i \in PostIds
  BY DatabaseFields
<1>2. d.posts[i].slug = NoSlug
  BY DEF Legacy
<1>3. \A n \in {i, 0} : <<d.posts[i].title, n>> \in Slug
  BY <1>1 DEF Slug
<1>4. Upgraded(d).posts[i] =
         [d.posts[i] EXCEPT !.slug = <<d.posts[i].title, IF Repeated(d, i) THEN i ELSE 0>>]
  BY <1>2, UpgradedFields DEF Repeated
<1>5. QED
  BY <1>1, <1>3, <1>4, MigrateAssumption

-----------------------------------------------------------------------------
\* No process has been started at first.
LEMMA InitMigrate == MigrateInit => MigrateInv
<1> SUFFICES ASSUME MigrateInit PROVE MigrateInv
  OBVIOUS
<1>1. database \in Databases /\ Legacy(database) /\ original = database
      /\ database.version # 2
  BY DEF MigrateInit, UpgradeInit, Legacy, Databases
<1>2. MigrateTypeOK
  BY <1>1, MigrateAssumption DEF MigrateInit, MigrateTypeOK, Tables
<1>3. DatabaseInv /\ BackupBeforeChange /\ WorkInv
  BY <1>1 DEF MigrateInit, DatabaseInv, BackupBeforeChange, WorkInv
<1>4. StartsInv
  BY DEF MigrateInit, StartsInv, StartInv
<1>5. QED
  BY <1>2, <1>3, <1>4 DEF MigrateInv

\* A process that moves leaves the others where they are, when it damages
\* neither the database nor a copy.
LEMMA StartsKept ==
    ASSUME MigrateInv, NEW p \in Processes, StartInv(p)', original' = original,
           \A q \in Processes \ {p} :
               UNCHANGED <<pc[q], schema[q], applied[q], reserved[q]>>,
           Inspects(database) => Inspects(database'), database.version <= database'.version,
           database'.version \in 0 .. 2,
           CopyMade => CopyMade',
           \A i \in DOMAIN copies :
               /\ i \in DOMAIN copies'
               /\ copies'[i] = copies[i] \/ (pc[p] = "copy" /\ i = reserved[p]),
           pc'[p] = "copy" =>
               \A q \in Processes \ {p} : pc[q] = "copy" => reserved'[p] # reserved[q]
    PROVE  StartsInv'
<1> SUFFICES ASSUME NEW q \in Processes, q # p PROVE StartInv(q)'
  BY DEF StartsInv
<1>1. StartInv(q) /\ UNCHANGED <<pc[q], schema[q], applied[q], reserved[q]>>
  BY DEF MigrateInv, StartsInv
<1>2. database.version \in 0 .. 2
  BY DatabaseFields DEF MigrateInv, MigrateTypeOK
<1>3. pc[q] = "copy" => Filling(q)'
  <2> SUFFICES ASSUME pc[q] = "copy" PROVE Filling(q)'
    OBVIOUS
  <2>1. Filling(q)
    BY <1>1 DEF StartInv
  <2>2. pc[p] = "copy" => reserved[q] # reserved[p]
    BY <2>1 DEF Filling
  <2>3. reserved'[q] \in DOMAIN copies' /\ copies'[reserved'[q]] = None
    BY <1>1, <2>1, <2>2 DEF Filling
  <2>4. \A o \in Processes \ {q} : pc'[o] = "copy" => reserved'[o] # reserved'[q]
    BY <1>1, <2>1 DEF Filling
  <2>5. QED
    BY <2>3, <2>4 DEF Filling
<1>4. Inspects(database)' <=> Inspects(database')
  BY DEF Inspects
<1>5. pc[q] = "validate" => applied[q] <= database'.version
  BY <1>1, <1>2, MigrateAssumption DEF StartInv, MigrateInv, MigrateTypeOK
<1>6. pc[q] = "serve" => database'.version = 2
  BY <1>1, <1>2 DEF StartInv
<1>7. QED
  BY <1>1, <1>3, <1>4, <1>5, <1>6 DEF StartInv

\* A step of a start before or after its transaction changes no database.
LEMMA OutsideKept ==
    ASSUME MigrateInv, MigrateTypeOK', StartsInv', UNCHANGED <<database, lock, work, original>>,
           CopyMade => CopyMade'
    PROVE  MigrateInv'
<1>1. DatabaseInv'
  BY DEF MigrateInv, DatabaseInv
<1>2. BackupBeforeChange'
  BY DEF MigrateInv, BackupBeforeChange, CopyMade
<1>3. WorkInv'
  BY DEF MigrateInv, WorkInv
<1>4. QED
  BY <1>1, <1>2, <1>3 DEF MigrateInv

\* Open, ReadState, Validate and the supervisor's Restart.
LEMMA ReadingInv ==
    ASSUME MigrateInv, NEW p \in Processes,
           Open(p) \/ ReadState(p) \/ Validate(p) \/ Restart(p)
    PROVE  MigrateInv'
<1> USE DEF Goto, memory, bounds
<1>1. UNCHANGED <<database, lock, work, original, copies, reserved>>
  BY DEF Open, ReadState, Validate, Restart
<1>2. database \in Databases /\ database.version \in 0 .. 2 /\ database.tables \in Tables
  BY DatabaseFields DEF MigrateInv, MigrateTypeOK
<1>3. /\ pc' = [pc EXCEPT ![p] = pc'[p]]
      /\ pc[p] \in {"off", "state", "validate", "refused"}
      /\ pc'[p] \in {"off", "state", "validate", "reserve", "begin", "serve", "refused"}
      /\ schema' = [schema EXCEPT ![p] = schema'[p]] /\ schema'[p] \in Tables
      /\ applied' = [applied EXCEPT ![p] = applied'[p]] /\ applied'[p] \in 0 .. 2
  BY <1>2 DEF Open, ReadState, Validate, Restart, MigrateInv, MigrateTypeOK
<1>4. MigrateTypeOK'
  BY <1>1, <1>3 DEF MigrateInv, MigrateTypeOK
<1>5. CopyMade' <=> CopyMade
  BY <1>1 DEF CopyMade
<1>6. StartInv(p)'
  <2>1. CASE Open(p)
    BY <2>1, <1>1, <1>3 DEF Open, StartInv, Inspects, MigrateInv, MigrateTypeOK, DatabaseInv
  <2>2. CASE ReadState(p)
    BY <2>2, <1>1, <1>2, <1>3
       DEF ReadState, StartInv, Inspects, MigrateInv, MigrateTypeOK, StartsInv
  <2>3. CASE Validate(p)
    <3>1. StartInv(p) /\ Inspects(database)' = Inspects(database)
          /\ schema' = schema /\ applied' = applied /\ pc[p] = "validate"
      BY <2>3, <1>1 DEF Validate, MigrateInv, StartsInv, Inspects
    <3>2. CASE pc'[p] = "serve"
      <4>1. applied[p] = 2
        BY <2>3, <3>2 DEF Validate, Current, MigrateInv, MigrateTypeOK
      <4>2. database.version = 2
        BY <4>1, <3>1, <1>2 DEF StartInv
      <4>3. QED
        BY <3>1, <3>2, <4>2, <1>1 DEF StartInv
    <3>3. CASE pc'[p] = "begin"
      <4>1. ~BacksUp(p)
        BY <2>3, <3>3 DEF Validate, MigrateInv, MigrateTypeOK
      <4>2. CopyMade
        BY <4>1, <3>1 DEF BacksUp, CopyMade, StartInv
      <4>3. QED
        BY <3>1, <3>3, <4>2, <1>1, <1>5 DEF StartInv
    <3>4. CASE pc'[p] \in {"refused", "reserve"}
      BY <3>1, <3>4, <1>1 DEF StartInv
    <3>5. QED
      BY <2>3, <3>2, <3>3, <3>4 DEF Validate, MigrateInv, MigrateTypeOK
  <2>4. CASE Restart(p)
    BY <2>4, <1>1 DEF Restart, StartInv, MigrateInv, MigrateTypeOK
  <2>5. QED
    BY <2>1, <2>2, <2>3, <2>4
<1>7. StartsInv'
  BY <1>1, <1>2, <1>3, <1>5, <1>6, StartsKept DEF MigrateInv, MigrateTypeOK
<1>8. QED
  BY <1>1, <1>4, <1>5, <1>7, OutsideKept

\* backupDatabase: the directory is new, and filled once with the database
\* as it is; when that is not the original any more, the original was copied.
LEMMA CopyingInv ==
    ASSUME MigrateInv, NEW p \in Processes, Reserve(p) \/ Copy(p)
    PROVE  MigrateInv'
<1> USE DEF Goto, memory, bounds
<1>1. UNCHANGED <<database, lock, work, original, schema, applied>>
  BY DEF Reserve, Copy
<1>2. database \in Databases /\ database.version \in 0 .. 2 /\ copies \in Seq(Databases \cup {None})
  BY DatabaseFields DEF MigrateInv, MigrateTypeOK
<1>3. StartInv(p) /\ (pc[p] = "copy" => Filling(p))
  BY DEF MigrateInv, StartsInv, StartInv
<1>4. CASE Reserve(p)
  <2> DEFINE n == Len(copies) + 1
  <2>1. /\ copies' = Append(copies, None) /\ reserved' = [reserved EXCEPT ![p] = n]
        /\ pc' = [pc EXCEPT ![p] = "copy"] /\ pc[p] = "reserve"
    BY <1>4 DEF Reserve
  <2>2. /\ copies' \in Seq(Databases \cup {None}) /\ Len(copies') = n /\ n \in DOMAIN copies'
        /\ copies'[n] = None
        /\ \A i \in DOMAIN copies : i \in DOMAIN copies' /\ i # n /\ copies'[i] = copies[i]
    BY <1>2, <2>1
  <2>3. MigrateTypeOK'
    BY <1>1, <2>1, <2>2 DEF MigrateInv, MigrateTypeOK
  <2>4. CopyMade => CopyMade'
    BY <1>1, <2>2 DEF CopyMade
  <2>5. \A q \in Processes \ {p} : pc[q] = "copy" => reserved[q] # n
    BY <2>2 DEF MigrateInv, StartsInv, StartInv, Filling
  <2>6. StartInv(p)'
    BY <1>1, <1>3, <2>1, <2>2, <2>5
       DEF StartInv, Filling, Inspects, MigrateInv, MigrateTypeOK
  <2>7. StartsInv'
    <3>1. \A q \in Processes \ {p} : UNCHANGED <<pc[q], schema[q], applied[q], reserved[q]>>
      BY <1>1, <2>1 DEF MigrateInv, MigrateTypeOK
    <3>2. reserved'[p] = n
      BY <2>1 DEF MigrateInv, MigrateTypeOK
    <3>3. QED
      BY <1>1, <1>2, <2>2, <2>4, <2>5, <2>6, <3>1, <3>2, StartsKept
  <2>8. QED
    BY <1>1, <2>3, <2>4, <2>7, OutsideKept
<1>5. CASE Copy(p)
  <2> DEFINE n == reserved[p]
  <2>1. /\ copies' = [copies EXCEPT ![n] = database]
        /\ pc' = [pc EXCEPT ![p] = "begin"] /\ pc[p] = "copy" /\ reserved' = reserved
    BY <1>5 DEF Copy
  <2>2. n \in DOMAIN copies /\ copies[n] = None
    BY <1>3, <2>1 DEF Filling
  <2>3. /\ copies' \in Seq(Databases \cup {None}) /\ Len(copies') = Len(copies)
        /\ DOMAIN copies' = DOMAIN copies
        /\ copies'[n] = database
        /\ \A i \in DOMAIN copies : i # n => copies'[i] = copies[i]
    BY <1>2, <2>1, <2>2
  <2>4. MigrateTypeOK'
    BY <1>1, <2>1, <2>3 DEF MigrateInv, MigrateTypeOK
  <2>5. original # None
    BY MigrateAssumption DEF MigrateInv, DatabaseInv
  <2>6. CopyMade => CopyMade'
    BY <1>1, <2>2, <2>3, <2>5 DEF CopyMade
  <2>7. CopyMade'
    <3>1. CASE database = original
      BY <1>1, <2>2, <2>3, <3>1 DEF CopyMade
    <3>2. CASE database # original
      BY <2>6, <3>2 DEF MigrateInv, BackupBeforeChange, CopyMade
    <3>3. QED
      BY <3>1, <3>2
  <2>8. StartInv(p)'
    BY <1>1, <1>3, <2>1, <2>7 DEF StartInv, Inspects, MigrateInv, MigrateTypeOK
  <2>9. StartsInv'
    <3>1. \A q \in Processes \ {p} : UNCHANGED <<pc[q], schema[q], applied[q], reserved[q]>>
      BY <1>1, <2>1 DEF MigrateInv, MigrateTypeOK
    <3>2. pc'[p] # "copy"
      BY <2>1 DEF MigrateInv, MigrateTypeOK
    <3>3. QED
      BY <1>1, <1>2, <2>1, <2>3, <2>6, <2>8, <3>1, <3>2, StartsKept
  <2>10. QED
    BY <1>1, <2>4, <2>6, <2>9, OutsideKept
<1>6. QED
  BY <1>4, <1>5

\* Within the transaction only the work changes.
LEMMA WorkingKept ==
    ASSUME MigrateInv, NEW p \in Processes, pc[p] = "migrate", work' \in Databases, WorkInv',
           UNCHANGED <<database, pc, schema, applied, reserved, copies, lock, original>>
    PROVE  MigrateInv'
<1>1. MigrateTypeOK'
  BY MigrateAssumption DEF MigrateInv, MigrateTypeOK
<1>2. DatabaseInv' /\ BackupBeforeChange'
  BY DEF MigrateInv, DatabaseInv, BackupBeforeChange
<1>3. StartsInv'
  BY DEF MigrateInv, StartsInv, StartInv, Filling, CopyMade, Inspects
<1>4. QED
  BY <1>1, <1>2, <1>3 DEF MigrateInv

\* What the process in its transaction knows.
LEMMA Working ==
    ASSUME MigrateInv, NEW p \in Processes, pc[p] = "migrate"
    PROVE  /\ lock = p /\ lock # None /\ work \in Databases /\ database \in Databases
           /\ work.defect = database.defect
           /\ Inspects(database) /\ CopyMade
           /\ database.version # 2 => Legacy(database)
BY MigrateAssumption
DEF MigrateInv, MigrateTypeOK, DatabaseInv, StartsInv, StartInv, WorkInv

WithSlug(w, i, s) == [w EXCEPT !.posts[i].slug = s]

\* A post keeps being a post when it gets a slug.
LEMMA SlugTypes ==
    ASSUME NEW w \in Databases, NEW i \in PostsOf(w), NEW s \in Slug
    PROVE  /\ WithSlug(w, i, s) \in Databases /\ PostsOf(WithSlug(w, i, s)) = PostsOf(w)
           /\ WithSlug(w, i, s).tables = w.tables /\ WithSlug(w, i, s).version = w.version
           /\ WithSlug(w, i, s).defect = w.defect
           /\ WithSlug(w, i, s).posts[i] = [w.posts[i] EXCEPT !.slug = s]
           /\ \A j \in PostIds \ {i} : WithSlug(w, i, s).posts[j] = w.posts[j]
<1> DEFINE u == WithSlug(w, i, s)
           post == [w.posts[i] EXCEPT !.slug = s]
           table == [w.posts EXCEPT ![i] = post]
<1>1. i \in PostIds /\ w.posts \in Content
      /\ w.posts[i] \in [title : Titles, slug : Slug \cup {NoSlug}]
  BY DatabaseFields
<1>2. post \in [title : Titles, slug : Slug \cup {NoSlug}] /\ post # NoPost
  BY <1>1, MigrateAssumption
<1> HIDE DEF post
<1>3. /\ table \in Content /\ table[i] = post
      /\ \A j \in PostIds \ {i} : table[j] = w.posts[j]
  BY <1>1, <1>2 DEF Content
<1>4. u = [w EXCEPT !.posts = table]
  BY DEF Databases, WithSlug, post
<1> HIDE DEF u, table
<1>5. /\ u \in Databases /\ u.posts = table
      /\ u.tables = w.tables /\ u.version = w.version /\ u.defect = w.defect
  BY <1>3, <1>4 DEF Databases
<1>6. PostsOf(u) = PostsOf(w)
  BY <1>2, <1>3, <1>5 DEF PostsOf
<1>7. QED
  BY <1>3, <1>5, <1>6 DEF post, u

\* applyBaseline: half upgraded, and no post has its slug yet.
LEMMA BaselineInv ==
    ASSUME MigrateInv, NEW p \in Processes, ApplyBaseline(p)
    PROVE  MigrateInv'
<1>1. /\ pc[p] = "migrate" /\ work.version = 0
      /\ work' = [work EXCEPT !.tables = "v1", !.version = 1]
      /\ UNCHANGED <<database, pc, schema, applied, reserved, copies, lock, original>>
  BY DEF ApplyBaseline, memory, bounds
<1>2. work \in Databases /\ work.defect = database.defect /\ database \in Databases
  BY <1>1, Working
<1>3. work = database /\ database.version # 2 /\ Legacy(database)
  <2>1. database.version \in 0 .. 2 /\ (database.version # 2 => Legacy(database))
    BY <1>1, Working, DatabaseFields
  <2>2. work = database
    BY <1>1, <1>2, Working, UpgradedFields DEF MigrateInv, WorkInv, HalfUpgraded
  <2>3. QED
    BY <1>1, <2>1, <2>2
<1>4. /\ work' \in Databases /\ work'.tables = "v1" /\ work'.version = 1
      /\ work'.defect = work.defect /\ work'.posts = work.posts
  <2> DEFINE a == [work EXCEPT !.tables = "v1"]
             b == [a EXCEPT !.version = 1]
  <2>1. /\ a \in Databases /\ a.tables = "v1"
        /\ a.defect = work.defect /\ a.posts = work.posts
    BY <1>2 DEF Databases, Tables
  <2>2. work' = b
    BY <1>1
  <2> HIDE DEF a
  <2>3. QED
    BY <2>1, <2>2 DEF Databases
<1>5. HalfUpgraded(database, work')
  BY <1>3, <1>4 DEF HalfUpgraded, PostsOf, Unslugged, Legacy
<1>6. WorkInv'
  BY <1>1, <1>2, <1>3, <1>4, <1>5 DEF WorkInv, HalfUpgraded, PostsOf, Unslugged, Upgraded
<1>7. QED
  BY <1>1, <1>4, <1>6, WorkingKept

\* The loop of addPostSlugs finds a slug taken just when an earlier post of the
\* original has the title: the first of them took it.
LEMMA SlugForUpgrade ==
    ASSUME NEW d \in Databases, Legacy(d), NEW w \in Databases, HalfUpgraded(d, w),
           NEW i \in Unslugged(w), \A j \in Unslugged(w) : i <= j
    PROVE  SlugFor(w.posts, i) = Upgraded(d).posts[i].slug
<1> DEFINE t == d.posts[i].title
           Same == {j \in PostsOf(d) : j < i /\ d.posts[j].title = t}
           used == {w.posts[j].slug : j \in {j \in PostIds : w.posts[j] # NoPost}}
<1>1. /\ i \in PostsOf(d) /\ w.posts[i] = d.posts[i]
      /\ \A j \in PostsOf(d) : j \in Nat /\ j \in PostIds
      /\ PostsOf(w) = PostsOf(d)
  BY DatabaseFields DEF HalfUpgraded, Unslugged
<1>2. ASSUME NEW j \in PostsOf(d), w.posts[j].slug # NoSlug
      PROVE  /\ w.posts[j] = Upgraded(d).posts[j] /\ j < i
             /\ Repeated(d, j) => w.posts[j].slug = <<d.posts[j].title, j>>
             /\ ~Repeated(d, j) => w.posts[j].slug = <<d.posts[j].title, 0>>
  <2>1. j \notin Unslugged(w) /\ w.posts[j] = Upgraded(d).posts[j]
    BY <1>2 DEF Unslugged, HalfUpgraded
  <2>2. j < i
    BY <1>1, <2>1 DEF HalfUpgraded
  <2>3. /\ Repeated(d, j) => Upgraded(d).posts[j].slug = <<d.posts[j].title, j>>
        /\ ~Repeated(d, j) => Upgraded(d).posts[j].slug = <<d.posts[j].title, 0>>
    BY UpgradedSlug
  <2>4. QED
    BY <2>1, <2>2, <2>3
<1>3. NoSlug # <<t, 0>>
  <2>1. t \in Titles
    BY <1>1, DatabaseFields
  <2>2. QED
    BY <2>1, MigrateAssumption DEF Slug
<1>4. ASSUME <<t, 0>> \in used PROVE Same # {}
  <2>1. PICK j \in PostsOf(d) : w.posts[j].slug = <<t, 0>>
    BY <1>1, <1>4 DEF PostsOf
  <2>2. j < i /\ d.posts[j].title = t
    <3>1. w.posts[j].slug # NoSlug
      BY <1>3, <2>1
    <3>2. j < i /\ w.posts[j].slug \in {<<d.posts[j].title, j>>, <<d.posts[j].title, 0>>}
      BY <1>2, <3>1
    <3>3. QED
      BY <2>1, <3>2
  <2>3. QED
    BY <2>2
<1>5. ASSUME Same # {} PROVE <<t, 0>> \in used
  <2>1. Same \subseteq Nat
    BY <1>1
  <2>2. PICK m \in Same : \A n \in Same : <<n, m>> \notin OpToRel(<, Nat)
    <3> HIDE DEF Same
    <3>1. QED
      BY <1>5, <2>1, WFMin, NatLessThanWellFounded
  <2>3. m \in PostsOf(d) /\ m < i /\ d.posts[m].title = t
    OBVIOUS
  <2>4. ~Repeated(d, m)
    <3>1. \A n \in Same : ~(n < m)
      BY <2>1, <2>2 DEF OpToRel
    <3>2. ASSUME NEW q \in PostsOf(d), q < m, d.posts[q].title = t PROVE FALSE
      <4>1. q < i
        BY <1>1, <2>3, <3>2, DatabaseFields DEF Unslugged
      <4>2. QED
        BY <3>1, <3>2, <4>1
    <3>3. QED
      BY <2>3, <3>2 DEF Repeated
  <2>5. m \notin Unslugged(w)
    BY <1>1, <2>3
  <2>6. w.posts[m].slug = <<t, 0>>
    BY <1>1, <1>2, <2>3, <2>4, <2>5 DEF Unslugged
  <2>7. m \in PostIds /\ w.posts[m] # NoPost
    BY <1>1, <2>3 DEF PostsOf
  <2>8. QED
    BY <2>6, <2>7
<1>6. SlugFor(w.posts, i) = IF <<t, 0>> \in used THEN <<t, i>> ELSE <<t, 0>>
  BY <1>1 DEF SlugFor
<1>7. Upgraded(d).posts[i].slug = IF Same # {} THEN <<t, i>> ELSE <<t, 0>>
  <2>1. Repeated(d, i) <=> Same # {}
    BY DEF Repeated
  <2>2. QED
    BY <1>1, <2>1, UpgradedSlug
<1> HIDE DEF used, Same
<1>8. QED
  BY <1>4, <1>5, <1>6, <1>7

\* One more post has its slug.
LEMMA AddSlugInv ==
    ASSUME MigrateInv, NEW p \in Processes, AddPostSlug(p)
    PROVE  MigrateInv'
<1>1. PICK i \in Unslugged(work) :
          /\ \A j \in Unslugged(work) : i <= j
          /\ work' = [work EXCEPT !.posts[i].slug = SlugFor(work.posts, i)]
  BY DEF AddPostSlug
<1>2. /\ pc[p] = "migrate" /\ work.version = 1
      /\ UNCHANGED <<database, pc, schema, applied, reserved, copies, lock, original>>
  BY DEF AddPostSlug, memory, bounds
<1>3. /\ work \in Databases /\ database \in Databases /\ work.defect = database.defect
      /\ lock # None /\ (database.version # 2 => Legacy(database))
  BY <1>2, Working
<1>4. /\ database.version # 2 /\ Legacy(database) /\ HalfUpgraded(database, work)
  <2>1. database.version # 2
    BY <1>2, <1>3, UpgradedFields DEF MigrateInv, WorkInv
  <2>2. CASE work = database
    <3>1. Legacy(database) /\ work.tables = "v1" /\ \A j \in PostsOf(work) : work.posts[j].slug = NoSlug
      BY <1>2, <1>3, <2>1, <2>2 DEF Legacy
    <3>2. QED
      BY <1>2, <2>1, <2>2, <3>1 DEF HalfUpgraded, Unslugged
  <2>3. QED
    BY <1>2, <1>3, <2>1, <2>2, UpgradedFields DEF MigrateInv, WorkInv
<1> DEFINE s == Upgraded(database).posts[i].slug
<1>5. s = SlugFor(work.posts, i)
  BY <1>1, <1>3, <1>4, SlugForUpgrade
<1>6. /\ i \in PostsOf(work) /\ i \in PostsOf(database) /\ work.posts[i] = database.posts[i]
  BY <1>4 DEF Unslugged, HalfUpgraded, PostsOf
<1>7. s # NoSlug /\ Upgraded(database).posts[i] = [database.posts[i] EXCEPT !.slug = s]
  BY <1>3, <1>4, <1>6, UpgradedSlug
<1>8. s \in Slug
  <2>1. Upgraded(database).posts[i] \in [title : Titles, slug : Slug \cup {NoSlug}]
    BY <1>3, <1>6, UpgradedFields, DatabaseFields
  <2>2. QED
    BY <1>7, <2>1
<1> HIDE DEF s
<1>9. /\ work' \in Databases /\ PostsOf(work') = PostsOf(work)
      /\ work'.tables = work.tables /\ work'.version = work.version /\ work'.defect = work.defect
      /\ work'.posts[i] = [work.posts[i] EXCEPT !.slug = s]
      /\ \A j \in PostIds \ {i} : work'.posts[j] = work.posts[j]
  <2>1. work' = WithSlug(work, i, s)
    BY <1>1, <1>5 DEF WithSlug
  <2>2. QED
    BY <2>1, <1>3, <1>6, <1>8, SlugTypes
<1>10. /\ work'.posts[i] = Upgraded(database).posts[i] /\ work'.posts[i].slug # NoSlug
  <2>1. work'.posts[i] = Upgraded(database).posts[i]
    BY <1>6, <1>7, <1>9
  <2>2. QED
    BY <1>7, <2>1 DEF s
<1>11. Unslugged(work') = Unslugged(work) \ {i}
  BY <1>9, <1>10 DEF Unslugged, PostsOf
<1>12. HalfUpgraded(database, work')
  <2>1. \A j \in PostsOf(database) : j \in PostIds /\ j \in Nat
    BY <1>3, DatabaseFields
  <2>2. \A j \in PostsOf(database) : work'.posts[j] =
           IF j \in Unslugged(work') THEN database.posts[j] ELSE Upgraded(database).posts[j]
    BY <1>4, <1>9, <1>10, <1>11, <2>1 DEF HalfUpgraded
  <2>3. Unslugged(work) \subseteq PostsOf(database)
    BY <1>4 DEF Unslugged, HalfUpgraded
  <2>4. ASSUME NEW j \in PostsOf(database), NEW k \in PostsOf(database), j < k,
               j \in Unslugged(work')
        PROVE  k \in Unslugged(work')
    <3>1. k \in Unslugged(work) /\ i <= j
      BY <1>1, <1>4, <1>11, <2>4 DEF HalfUpgraded
    <3>2. k # i
      BY <1>6, <2>1, <2>4, <3>1
    <3>3. QED
      BY <1>11, <3>1, <3>2
  <2>5. QED
    BY <1>2, <1>4, <1>9, <2>2, <2>4 DEF HalfUpgraded
<1>13. WorkInv'
  BY <1>2, <1>3, <1>4, <1>9, <1>12 DEF WorkInv, HalfUpgraded, PostsOf, Unslugged, Upgraded
<1>14. QED
  BY <1>2, <1>9, <1>13, WorkingKept

\* When every post has its slug, the work is the upgraded original.
LEMMA RecordInv ==
    ASSUME MigrateInv, NEW p \in Processes, RecordSlugs(p)
    PROVE  MigrateInv'
<1>1. /\ pc[p] = "migrate" /\ work.version = 1 /\ Unslugged(work) = {}
      /\ work' = [work EXCEPT !.version = 2]
      /\ UNCHANGED <<database, pc, schema, applied, reserved, copies, lock, original>>
  BY DEF RecordSlugs, memory, bounds
<1>2. /\ work \in Databases /\ database \in Databases /\ work.defect = database.defect
      /\ lock # None /\ (database.version # 2 => Legacy(database))
  BY <1>1, Working
<1>3. database.version # 2
  BY <1>1, <1>2, UpgradedFields DEF MigrateInv, WorkInv
<1>4. /\ work.tables = "v1" /\ PostsOf(work) = PostsOf(database)
      /\ \A i \in PostsOf(database) : work.posts[i] = Upgraded(database).posts[i]
  <2>1. CASE work = database
    <3>1. PostsOf(work) = {}
      BY <1>1, <1>2, <1>3, <2>1 DEF Legacy, Unslugged
    <3>2. QED
      BY <1>1, <1>2, <1>3, <2>1, <3>1 DEF Legacy
  <2>2. CASE HalfUpgraded(database, work)
    BY <1>1, <2>2 DEF HalfUpgraded
  <2>3. QED
    BY <1>1, <1>2, <2>1, <2>2, UpgradedFields DEF MigrateInv, WorkInv
<1>5. /\ work' \in Databases /\ work'.version = 2 /\ work'.tables = "v1"
      /\ work'.posts = work.posts /\ work'.defect = work.defect
  BY <1>1, <1>2, <1>4 DEF Databases
<1>6. work' = Upgraded(database)
  <2> DEFINE u == Upgraded(database)
  <2>1. /\ u \in Databases /\ u.version = 2 /\ u.tables = "v1" /\ u.defect = database.defect
        /\ \A i \in PostsOf(database) : work.posts[i] = u.posts[i]
        /\ \A i \in PostIds \ PostsOf(database) : u.posts[i] = NoPost
    BY <1>2, <1>4, UpgradedFields
  <2> HIDE DEF u
  <2>2. \A i \in PostIds : work.posts[i] = u.posts[i]
    BY <1>4, <2>1 DEF PostsOf
  <2>3. work.posts = u.posts
    BY <1>2, <2>1, <2>2 DEF Databases, Content
  <2>4. work' = u
    BY <1>2, <1>5, <2>1, <2>3 DEF Databases
  <2>5. QED
    BY <2>4 DEF u
<1>7. WorkInv'
  <2>1. Upgraded(database)' = Upgraded(database)
    BY <1>1 DEF Upgraded, PostsOf
  <2>2. QED
    BY <1>1, <1>2, <1>3, <1>5, <1>6, <2>1 DEF WorkInv
<1>8. QED
  BY <1>1, <1>5, <1>7, WorkingKept

\* BEGIN IMMEDIATE: the transaction sees the database as it is now.
LEMMA BeginImmediateInv ==
    ASSUME MigrateInv, NEW p \in Processes, BeginImmediate(p)
    PROVE  MigrateInv'
<1>1. /\ pc[p] = "begin" /\ lock = None /\ lock' = p /\ work' = database
      /\ pc' = [pc EXCEPT ![p] = "migrate"]
      /\ UNCHANGED <<database, schema, applied, reserved, copies, original>>
  BY DEF BeginImmediate, Goto, memory, bounds
<1>2. database \in Databases /\ database # None /\ p # None
  BY MigrateAssumption DEF MigrateInv, MigrateTypeOK
<1>3. MigrateTypeOK'
  <2>1. /\ pc' \in [Processes -> {"off", "state", "validate", "reserve", "copy", "begin",
                                 "migrate", "serve", "refused"}]
        /\ \A q \in Processes : pc'[q] = IF q = p THEN "migrate" ELSE pc[q]
    BY <1>1 DEF MigrateInv, MigrateTypeOK
  <2>2. \A q \in Processes : pc'[q] = "migrate" <=> lock' = q
    BY <1>1, <2>1, MigrateAssumption DEF MigrateInv, MigrateTypeOK
  <2>3. QED
    BY <1>1, <1>2, <2>1, <2>2 DEF MigrateInv, MigrateTypeOK
<1>4. DatabaseInv' /\ BackupBeforeChange'
  BY <1>1 DEF MigrateInv, DatabaseInv, BackupBeforeChange
<1>5. WorkInv'
  BY <1>1 DEF WorkInv
<1>6. CopyMade' <=> CopyMade
  BY <1>1 DEF CopyMade
<1>7. StartsInv'
  <2> SUFFICES ASSUME NEW q \in Processes PROVE StartInv(q)'
    BY DEF StartsInv
  <2>1. StartInv(q) /\ StartInv(p)
    BY DEF MigrateInv, StartsInv
  <2>2. /\ pc'[q] = IF q = p THEN "migrate" ELSE pc[q]
    BY <1>1 DEF MigrateInv, MigrateTypeOK
  <2>3. \A o \in Processes : pc'[o] = "copy" => pc[o] = "copy"
    BY <1>1 DEF MigrateInv, MigrateTypeOK
  <2>4. Filling(q) => Filling(q)'
    BY <1>1, <2>3 DEF Filling
  <2>5. Inspects(database') <=> Inspects(database)
    BY <1>1
  <2>6. QED
    BY <1>1, <1>6, <2>1, <2>2, <2>4, <2>5 DEF StartInv, Inspects
<1>8. QED
  BY <1>3, <1>4, <1>5, <1>7 DEF MigrateInv

\* What COMMIT finds verified is the upgraded original, which could be upgraded.
LEMMA VerifiedWork ==
    ASSUME MigrateInv, NEW p \in Processes, End(p), Verified(work)
    PROVE  database' = work /\ Inspects(work) /\ work.version = 2 /\ work.tables # "none"
           /\ work \in Databases /\ Validates(work, 2)
           /\ \/ work = database
              \/ /\ database.version # 2 /\ Upgradable(database)
                 /\ work = Upgraded(database)
<1>1. pc[p] = "migrate" /\ work.version = 2 /\ database' = work
  BY DEF End
<1>2. /\ lock # None /\ work \in Databases /\ work.defect = database.defect
      /\ Inspects(database)
  BY <1>1, Working
<1>3. Validates(work, 2) /\ work.defect = "none" /\ work.tables = "v1" /\ Inspects(work)
  BY DEF Verified, Validates
<1>4. Upgradable(database)
  BY <1>2, <1>3 DEF Inspects, Upgradable
<1>5. \/ work = database
      \/ database.version # 2 /\ work = Upgraded(database)
  BY <1>1, <1>2 DEF MigrateInv, WorkInv, HalfUpgraded
<1>6. QED
  BY <1>1, <1>2, <1>3, <1>4, <1>5

\* COMMIT or ROLLBACK: a copy was made before the transaction began.
LEMMA EndInv ==
    ASSUME MigrateInv, NEW p \in Processes, End(p)
    PROVE  MigrateInv'
<1>1. /\ pc[p] = "migrate" /\ lock' = None /\ work' = None
      /\ UNCHANGED <<schema, applied, reserved, copies, original>>
      /\ \/ /\ Verified(work) /\ database' = work /\ pc' = [pc EXCEPT ![p] = "serve"]
         \/ /\ database' = database /\ pc' = [pc EXCEPT ![p] = "refused"]
  BY DEF End, Goto, memory, bounds
<1>2. /\ lock = p /\ lock # None /\ Inspects(database) /\ CopyMade /\ database \in Databases
  BY <1>1, Working
<1>3. /\ database' \in Databases /\ Inspects(database')
      /\ database.version <= database'.version /\ database'.version \in 0 .. 2
      /\ pc'[p] = "serve" => database'.version = 2
      /\ DatabaseInv'
  <2>1. CASE Verified(work) /\ database' = work /\ pc' = [pc EXCEPT ![p] = "serve"]
    <3>1. /\ Inspects(work) /\ work.version = 2 /\ work.tables # "none" /\ work \in Databases
          /\ Validates(work, 2)
      BY <2>1, VerifiedWork
    <3>2. database.version \in 0 .. 2
      BY <1>2, DatabaseFields
    <3>3. DatabaseInv'
      BY <1>1, <2>1, <3>1 DEF MigrateInv, DatabaseInv, Validates, SlugsAreUnique, PostsOf, Inspects
    <3>4. QED
      BY <2>1, <3>1, <3>2, <3>3
  <2>2. CASE database' = database /\ pc' = [pc EXCEPT ![p] = "refused"]
    <3>1. DatabaseInv'
      BY <1>1, <2>2 DEF MigrateInv, DatabaseInv, Validates, SlugsAreUnique, PostsOf, Inspects
    <3>2. pc'[p] = "refused"
      BY <2>2 DEF MigrateInv, MigrateTypeOK
    <3>3. QED
      BY <1>2, <2>2, <3>1, <3>2, DatabaseFields
  <2>3. QED
    BY <1>1, <2>1, <2>2
<1>4. /\ pc' \in [Processes -> {"off", "state", "validate", "reserve", "copy", "begin",
                                 "migrate", "serve", "refused"}]
      /\ pc'[p] \in {"serve", "refused"} /\ \A q \in Processes \ {p} : pc'[q] = pc[q]
  BY <1>1 DEF MigrateInv, MigrateTypeOK
<1>5. MigrateTypeOK'
  <2>1. \A q \in Processes : pc'[q] # "migrate"
    BY <1>1, <1>2, <1>4 DEF MigrateInv, MigrateTypeOK
  <2>2. \A q \in Processes : q # None
    BY MigrateAssumption
  <2>3. QED
    BY <1>1, <1>3, <1>4, <2>1, <2>2 DEF MigrateInv, MigrateTypeOK
<1>6. CopyMade' /\ BackupBeforeChange'
  BY <1>1, <1>2 DEF CopyMade, BackupBeforeChange
<1>7. WorkInv'
  BY <1>1 DEF WorkInv
<1>8. StartInv(p)'
  <2>1. StartInv(p)
    BY DEF MigrateInv, StartsInv
  <2>2. QED
    BY <1>1, <1>3, <1>4, <2>1 DEF StartInv, Inspects
<1>9. StartsInv'
  <2>1. \A q \in Processes \ {p} : UNCHANGED <<pc[q], schema[q], applied[q], reserved[q]>>
    BY <1>1, <1>4
  <2>2. QED
    BY <1>1, <1>3, <1>4, <1>6, <1>8, <2>1, StartsKept
<1>10. QED
  BY <1>3, <1>5, <1>6, <1>7, <1>9 DEF MigrateInv

\* A start that fails or dies undoes its transaction.
LEMMA StopInv ==
    ASSUME MigrateInv, NEW p \in Processes, Stop(p)
    PROVE  MigrateInv'
<1>1. /\ pc' = [pc EXCEPT ![p] = "off"]
      /\ UNCHANGED <<database, schema, applied, reserved, copies, original>>
      /\ IF lock = p THEN lock' = None /\ work' = None ELSE UNCHANGED <<lock, work>>
  BY DEF Stop, Goto, memory
<1>2. /\ \A q \in Processes : pc'[q] = IF q = p THEN "off" ELSE pc[q]
      /\ pc' \in [Processes -> {"off", "state", "validate", "reserve", "copy", "begin",
                                 "migrate", "serve", "refused"}]
  BY <1>1 DEF MigrateInv, MigrateTypeOK
<1>3. MigrateTypeOK'
  <2>1. \A q \in Processes : pc'[q] = "migrate" <=> lock' = q
    BY <1>1, <1>2, MigrateAssumption DEF MigrateInv, MigrateTypeOK
  <2>2. lock' \in Processes \cup {None} /\ work' \in Databases \cup {None}
        /\ (lock' = None <=> work' = None)
    BY <1>1, MigrateAssumption DEF MigrateInv, MigrateTypeOK
  <2>3. QED
    BY <1>1, <1>2, <2>1, <2>2 DEF MigrateInv, MigrateTypeOK
<1>4. DatabaseInv' /\ BackupBeforeChange' /\ (CopyMade' <=> CopyMade)
  BY <1>1 DEF MigrateInv, DatabaseInv, BackupBeforeChange, CopyMade
<1>5. WorkInv'
  BY <1>1 DEF MigrateInv, WorkInv
<1>6. StartInv(p)'
  BY <1>2 DEF StartInv
<1>7. StartsInv'
  <2>1. \A q \in Processes \ {p} : UNCHANGED <<pc[q], schema[q], applied[q], reserved[q]>>
    BY <1>1, <1>2
  <2>2. database.version \in 0 .. 2
    BY DatabaseFields DEF MigrateInv, MigrateTypeOK
  <2>3. QED
    BY <1>1, <1>2, <1>4, <1>6, <2>1, <2>2, StartsKept
<1>8. QED
  BY <1>3, <1>4, <1>5, <1>7 DEF MigrateInv

\* A post that is created or renamed keeps the slugs apart.
LEMMA UseKept ==
    ASSUME NEW d \in Databases, Validates(d, 2), d.version = 2,
           NEW i \in PostIds, NEW t \in Titles, NEW s \in Slug,
           IF d.posts[i] = NoPost
           THEN \A q \in PostsOf(d) : d.posts[q].slug # s
           ELSE d.posts[i].slug = s,
           NEW u, u = [d EXCEPT !.posts[i] = [title |-> t, slug |-> s]]
    PROVE  /\ u \in Databases /\ u.version = 2 /\ u.tables = d.tables /\ u.defect = d.defect
           /\ Validates(u, 2)
<1> DEFINE post == [title |-> t, slug |-> s]
           table == [d.posts EXCEPT ![i] = post]
<1>1. d.posts \in Content
  BY DatabaseFields
<1>2. /\ post \in [title : Titles, slug : Slug \cup {NoSlug}] /\ post # NoPost
      /\ post.slug = s /\ s # NoSlug
  BY MigrateAssumption
<1>3. u = [d EXCEPT !.posts = table]
  BY DEF Databases
<1> HIDE DEF post
<1>4. table \in Content /\ table[i] = post /\ \A j \in PostIds \ {i} : table[j] = d.posts[j]
  BY <1>1, <1>2 DEF Content
<1> HIDE DEF table
<1>5. /\ u \in Databases /\ u.posts = table /\ u.version = d.version
      /\ u.tables = d.tables /\ u.defect = d.defect
  BY <1>3, <1>4 DEF Databases
<1>6. Inspects(u) /\ u.tables = "v1"
  BY <1>5 DEF Validates, Inspects
<1>7. PostsOf(u) = PostsOf(d) \cup {i}
  BY <1>2, <1>4, <1>5 DEF PostsOf
<1>8. \A j \in PostsOf(u) : u.posts[j].slug # NoSlug
  BY <1>2, <1>4, <1>5, <1>7 DEF Validates, PostsOf
<1>9. ASSUME NEW j \in PostsOf(d), j # i PROVE d.posts[j].slug # s
  BY <1>9 DEF Validates, SlugsAreUnique, PostsOf
<1>10. SlugsAreUnique(u)
  <2> SUFFICES ASSUME NEW j \in PostsOf(u), NEW k \in PostsOf(u), j # k
               PROVE  u.posts[j].slug # u.posts[k].slug
    BY DEF SlugsAreUnique
  <2>1. CASE j = i
    BY <1>2, <1>4, <1>5, <1>7, <1>9, <2>1 DEF PostsOf
  <2>2. CASE k = i
    BY <1>2, <1>4, <1>5, <1>7, <1>9, <2>2 DEF PostsOf
  <2>3. CASE j # i /\ k # i
    BY <1>4, <1>5, <1>7, <2>3 DEF Validates, SlugsAreUnique, PostsOf
  <2>4. QED
    BY <2>1, <2>2, <2>3
<1>11. QED
  BY <1>5, <1>6, <1>8, <1>10 DEF Validates

\* Only an upgraded database is used, and its original has been copied.
LEMMA ServeInv ==
    ASSUME MigrateInv, NEW p \in Processes, Serve(p)
    PROVE  MigrateInv'
<1>1. /\ lock = None /\ Use
      /\ UNCHANGED <<pc, schema, applied, reserved, copies, lock, work, original>>
  BY DEF Serve, memory
<1>2. database.version = 2 /\ database \in Databases /\ Validates(database, 2)
      /\ Legacy(original)
  BY <1>1 DEF Use, MigrateInv, DatabaseInv, MigrateTypeOK
<1>3. /\ database' \in Databases /\ database'.version = 2 /\ database'.tables = database.tables
      /\ database'.defect = database.defect /\ Validates(database', 2)
  <2>1. PICK i \in PostIds, t \in Titles, s \in Slug :
           /\ IF database.posts[i] = NoPost
              THEN \A q \in PostsOf(database) : database.posts[q].slug # s
              ELSE database.posts[i].slug = s
           /\ database' = [database EXCEPT !.posts[i] = [title |-> t, slug |-> s]]
    BY <1>1 DEF Use
  <2>2. QED
    BY <1>2, <2>1, UseKept
<1>4. MigrateTypeOK'
  BY <1>1, <1>3 DEF MigrateInv, MigrateTypeOK
<1>5. Validates(database, 2)'
  BY <1>3 DEF Validates, SlugsAreUnique, PostsOf, Inspects
<1>6. DatabaseInv'
  BY <1>1, <1>3, <1>5 DEF MigrateInv, DatabaseInv
<1>7. database # original
  BY <1>2 DEF Legacy, MigrateInv, DatabaseInv
<1>8. BackupBeforeChange' /\ (CopyMade' <=> CopyMade)
  BY <1>1, <1>7 DEF MigrateInv, BackupBeforeChange, CopyMade
<1>9. StartsInv'
  <2> SUFFICES ASSUME NEW q \in Processes PROVE StartInv(q)'
    BY DEF StartsInv
  <2>1. StartInv(q) /\ (Filling(q) => Filling(q)')
    BY <1>1 DEF MigrateInv, StartsInv, Filling
  <2>2. Inspects(database) => Inspects(database')
    BY <1>3 DEF Inspects
  <2>3. QED
    BY <1>1, <1>2, <1>3, <1>8, <2>1, <2>2 DEF StartInv, Inspects
<1>10. WorkInv'
  BY <1>1 DEF WorkInv
<1>11. QED
  BY <1>4, <1>6, <1>8, <1>9, <1>10 DEF MigrateInv

LEMMA NextMigrate == MigrateInv /\ [MigrateNext]_migrateVars => MigrateInv'
<1> SUFFICES ASSUME MigrateInv, [MigrateNext]_migrateVars PROVE MigrateInv'
  OBVIOUS
<1>1. ASSUME NEW p \in Processes, Steps(p) \/ Stop(p) \/ Restart(p) \/ Serve(p)
      PROVE  MigrateInv'
  BY <1>1, ReadingInv, CopyingInv, BaselineInv, AddSlugInv, RecordInv, BeginImmediateInv,
     EndInv, StopInv, ServeInv DEF Steps
<1>2. CASE UNCHANGED migrateVars
  <2>1. UNCHANGED <<database, lock, work, original, pc, schema, applied, reserved, copies>>
    BY <1>2 DEF migrateVars
  <2>2. MigrateTypeOK' /\ StartsInv' /\ (CopyMade' <=> CopyMade)
    BY <2>1 DEF MigrateInv, MigrateTypeOK, StartsInv, StartInv, Filling, CopyMade, Inspects
  <2>3. QED
    BY <2>1, <2>2, OutsideKept
<1>3. QED
  BY <1>1, <1>2 DEF MigrateNext

LEMMA MigrateInvariant == MigrateSpec => []MigrateInv
BY InitMigrate, NextMigrate, PTL DEF MigrateSpec

(***************************************************************************)
(* However starts fail, die, repeat or run side by side, production        *)
(* changes a database only after a whole copy of it, and a server runs     *)
(* only on an upgraded one: the copy stands before the transaction begins, *)
(* and only COMMIT changes what another start has found (Migrate).         *)
(***************************************************************************)
THEOREM ServersStartSafely == MigrateSpec => []StartsSafely
<1>1. MigrateInv => StartsSafely
  <2> SUFFICES ASSUME MigrateInv PROVE ServesUpgraded
    BY DEF MigrateInv, StartsSafely
  <2>1. \A p \in Processes : pc[p] = "serve" => database.version = 2
    BY DEF MigrateInv, StartsInv, StartInv
  <2>2. QED
    BY <2>1 DEF MigrateInv, DatabaseInv, Validates, ServesUpgraded
<1>2. QED
  BY <1>1, MigrateInvariant, PTL

(***************************************************************************)
(* The start implements the upgrade its documentation promises: every step *)
(* of it leaves the database as it is, upgrades it as a whole, or uses the *)
(* upgraded one (Migrate, with the checks before COMMIT).                  *)
(***************************************************************************)
THEOREM StartsUpgrade == MigrateSpec => Upgrades
<1>1. MigrateInit => UpgradeInit
  BY DEF MigrateInit
<1>2. MigrateInv /\ [MigrateNext]_migrateVars => [UpgradeNext]_database
  <2> SUFFICES ASSUME MigrateInv, [MigrateNext]_migrateVars PROVE [UpgradeNext]_database
    OBVIOUS
  <2>1. ASSUME NEW p \in Processes, End(p) PROVE [UpgradeNext]_database
    BY <2>1, VerifiedWork DEF End, UpgradeNext, Upgrade
  <2>2. ASSUME NEW p \in Processes, Serve(p) PROVE [UpgradeNext]_database
    BY <2>2 DEF Serve, UpgradeNext
  <2>3. ASSUME NEW p \in Processes, Steps(p) \/ Stop(p) \/ Restart(p), ~End(p)
        PROVE  UNCHANGED database
    BY <2>3 DEF Steps, Stop, Restart, Open, ReadState, Validate, Reserve, Copy,
                BeginImmediate, ApplyBaseline, AddPostSlug, RecordSlugs
  <2>4. QED
    BY <2>1, <2>2, <2>3 DEF MigrateNext, migrateVars
<1>3. QED
  BY <1>1, <1>2, MigrateInvariant, PTL DEF MigrateSpec, Upgrades, UpgradeSpec

-----------------------------------------------------------------------------
\* Every required table is there, with what is required of it.
Complete(t) ==
    \A name \in Names :
        /\ name \in DOMAIN t /\ Fits(t[name], Required[name], Required[name].columns, FALSE)
        /\ Required[name].auto => t[name].auto

EarlyShape(t) ==
    /\ DOMAIN t \subseteq DOMAIN EarlyColumns \cup {"schema_migrations"}
    /\ \A name \in DOMAIN EarlyColumns :
        name \in DOMAIN t /\ Fits(t[name], Required[name], EarlyColumns[name], TRUE)
    /\ \A name \in Names \cap DOMAIN t : Required[name].auto => t[name].auto

\* An index is one that the program creates, or took the name of one.
IndexKnown(t, name, index) ==
    LET definition == t[name].indexes[index]
    IN  \/ definition = <<"changed">> /\ index \in LaterIndexes \cup {SlugIndex}
        \/ /\ name \in Names /\ index \in DOMAIN Required[name].indexes
           /\ definition \in {<<"changed">>, Required[name].indexes[index]}
        \/ /\ name = "posts" /\ index = SlugIndex /\ definition = <<"unique", "slug">>
           /\ Len(t["posts"].columns) > Len(Required["posts"].columns)

Sane(t) ==
    /\ t = [name \in DOMAIN t |-> t[name]]
    /\ \A name \in DOMAIN t :
        IsTable(t[name]) /\ \A index \in DOMAIN t[name].indexes : IndexKnown(t, name, index)

Recorded(t) == Having(t, "schema_migrations", MigrationTable)

-----------------------------------------------------------------------------
(***************************************************************************)
(* What Inspect answers, the two profiles put together.                    *)
(***************************************************************************)
LEMMA InspectIs ==
    ASSUME NEW t, NEW other
    PROVE  Inspect(t, other) =
             IF DOMAIN t = {} THEN IF other THEN "unsupported" ELSE "fresh"
             ELSE IF Complete(t) THEN "v1"
             ELSE IF EarlyShape(t) THEN "early" ELSE "unsupported"
<1>1. ASSUME DOMAIN t = {}
      PROVE  /\ InspectProfile(t, other, FALSE) = IF other THEN "unsupported" ELSE "fresh"
             /\ InspectProfile(t, other, TRUE) = IF other THEN "unsupported" ELSE "fresh"
  BY <1>1 DEF InspectProfile
<1>2. ASSUME DOMAIN t # {}
      PROVE  InspectProfile(t, other, FALSE) = IF Complete(t) THEN "v1" ELSE "unsupported"
  BY <1>2 DEF InspectProfile, Complete, Names
<1>3. ASSUME DOMAIN t # {}
      PROVE  InspectProfile(t, other, TRUE) = IF EarlyShape(t) THEN "early" ELSE "unsupported"
  BY <1>3 DEF InspectProfile, EarlyShape
<1> QED
  BY <1>1, <1>2, <1>3 DEF Inspect

(***************************************************************************)
(* Recording migrations changes nothing that Inspect looks at.             *)
(***************************************************************************)
LEMMA RecordedIs ==
    ASSUME NEW t
    PROVE  /\ DOMAIN Recorded(t) = DOMAIN t \cup {"schema_migrations"}
           /\ \A name \in DOMAIN t : Recorded(t)[name] = t[name]
           /\ \A name \in Names : name \in DOMAIN Recorded(t) <=> name \in DOMAIN t
           /\ "schema_migrations" \notin DOMAIN t =>
                Recorded(t)["schema_migrations"] = MigrationTable
  BY SchemaAssumption DEF Recorded, Having, Names

LEMMA RecordedFunction ==
    ASSUME NEW t
    PROVE  Recorded(t) = [name \in DOMAIN Recorded(t) |-> Recorded(t)[name]]
  BY DEF Recorded, Having

LEMMA RecordedInspected ==
    ASSUME NEW t, DOMAIN t # {}, NEW other
    PROVE  Inspect(Recorded(t), other) = Inspect(t, other)
<1>1. Complete(Recorded(t)) <=> Complete(t)
  BY RecordedIs DEF Complete
<1>2. EarlyShape(Recorded(t)) <=> EarlyShape(t)
  <2>1. DOMAIN EarlyColumns \subseteq Names
    BY SchemaAssumption DEF Names
  <2>2. \A name \in Names : name \in DOMAIN Recorded(t) => Recorded(t)[name] = t[name]
    BY RecordedIs
  <2>3. Names \cap DOMAIN Recorded(t) = Names \cap DOMAIN t
    BY RecordedIs
  <2>4. DOMAIN Recorded(t) \subseteq DOMAIN EarlyColumns \cup {"schema_migrations"}
            <=> DOMAIN t \subseteq DOMAIN EarlyColumns \cup {"schema_migrations"}
    <3>1. DOMAIN Recorded(t) = DOMAIN t \cup {"schema_migrations"}
      BY RecordedIs
    <3> QED
      BY <3>1, Zenon
  <2>5. \A name \in DOMAIN EarlyColumns : name \in DOMAIN Recorded(t) <=> name \in DOMAIN t
    BY <2>1, RecordedIs
  <2>6. (\A name \in DOMAIN EarlyColumns :
            name \in DOMAIN Recorded(t) /\ Fits(Recorded(t)[name], Required[name], EarlyColumns[name], TRUE))
        <=> (\A name \in DOMAIN EarlyColumns :
            name \in DOMAIN t /\ Fits(t[name], Required[name], EarlyColumns[name], TRUE))
    BY <2>1, <2>2, <2>5
  <2>7. (\A name \in Names \cap DOMAIN Recorded(t) : Required[name].auto => Recorded(t)[name].auto)
        <=> (\A name \in Names \cap DOMAIN t : Required[name].auto => t[name].auto)
    BY <2>2, <2>3
  <2> QED
    BY <2>4, <2>6, <2>7 DEF EarlyShape
<1>3. DOMAIN Recorded(t) # {}
  BY RecordedIs
<1> QED
  BY <1>1, <1>2, <1>3, InspectIs

LEMMA RecordedSane ==
    ASSUME NEW t, Sane(t)
    PROVE  Sane(Recorded(t))
<1>1. ASSUME NEW name \in DOMAIN Recorded(t)
      PROVE  IsTable(Recorded(t)[name])
  <2>1. CASE name \in DOMAIN t
    <3>1. Recorded(t)[name] = t[name] /\ IsTable(t[name])
      BY <2>1, RecordedIs DEF Sane
    <3> QED
      BY <3>1
  <2>2. CASE name \notin DOMAIN t
    <3>1. DOMAIN Recorded(t) = DOMAIN t \cup {"schema_migrations"}
      BY RecordedIs
    <3>2. name = "schema_migrations"
      BY <1>1, <2>2, <3>1
    <3>3. Recorded(t)["schema_migrations"] = MigrationTable
      BY <2>2, <3>2, RecordedIs
    <3> QED
      BY <3>2, <3>3, IndexesAssumption
  <2> QED
    BY <2>1, <2>2
<1>2. ASSUME NEW name \in DOMAIN Recorded(t), NEW index \in DOMAIN Recorded(t)[name].indexes
      PROVE  IndexKnown(Recorded(t), name, index)
  <2>1. name \in DOMAIN t /\ Recorded(t)[name] = t[name]
    <3>1. DOMAIN Recorded(t) = DOMAIN t \cup {"schema_migrations"}
      BY RecordedIs
    <3>2. DOMAIN MigrationTable.indexes = {}
      BY IndexesAssumption
    <3>3. ASSUME name \notin DOMAIN t PROVE FALSE
      <4>1. name = "schema_migrations"
        BY <1>2, <3>1, <3>3
      <4>2. Recorded(t)["schema_migrations"] = MigrationTable
        BY <3>3, <4>1, RecordedIs
      <4> QED
        BY <1>2, <3>2, <4>1, <4>2
    <3> QED
      BY <3>3, RecordedIs
  <2>2. IndexKnown(t, name, index)
    BY <1>2, <2>1 DEF Sane
  <2> QED
    BY <2>1, <2>2, RecordedIs DEF IndexKnown, Sane
<1> QED
  BY <1>1, <1>2, RecordedFunction DEF Sane

-----------------------------------------------------------------------------
(***************************************************************************)
(* CREATE TABLE and CREATE INDEX IF NOT EXISTS, for a table that is there  *)
(* already ...                                                             *)
(***************************************************************************)
LEMMA CreatedOld ==
    ASSUME NEW t, \A name \in DOMAIN t : IsTable(t[name]), NEW name \in Names \cap DOMAIN t
    PROVE  LET made == Create(t)[name]
               old == t[name]
               new == DOMAIN Required[name].indexes \ IndexNames(t)
           IN  /\ name \in DOMAIN Create(t) /\ IsTable(made)
               /\ made.columns = old.columns /\ made.keys = old.keys
               /\ made.unique = old.unique /\ made.auto = old.auto
               /\ DOMAIN made.indexes = DOMAIN old.indexes \cup new
               /\ \A index \in DOMAIN old.indexes : made.indexes[index] = old.indexes[index]
               /\ \A index \in new : made.indexes[index] = Required[name].indexes[index]
<1> DEFINE new == DOMAIN Required[name].indexes \ IndexNames(t)
           old == t[name]
           indexes == [index \in DOMAIN old.indexes \cup new |->
                        IF index \in DOMAIN old.indexes THEN old.indexes[index]
                        ELSE Required[name].indexes[index]]
<1>1. IsTable(old)
  OBVIOUS
<1>2. Create(t)[name] = [old EXCEPT !.indexes = indexes]
  BY DEF Create
<1>3. /\ indexes = [index \in DOMAIN indexes |-> indexes[index]]
      /\ DOMAIN indexes = DOMAIN old.indexes \cup new
      /\ \A index \in DOMAIN old.indexes : indexes[index] = old.indexes[index]
      /\ \A index \in new : index \in DOMAIN old.indexes
                            \/ indexes[index] = Required[name].indexes[index]
  OBVIOUS
<1>4. new \cap DOMAIN old.indexes = {}
  BY DEF IndexNames
<1> HIDE DEF old, indexes, new
<1>5. Create(t)[name] = [columns |-> old.columns, keys |-> old.keys, unique |-> old.unique,
                         indexes |-> indexes, auto |-> old.auto]
  BY <1>1, <1>2 DEF IsTable
<1>6. IsTable(Create(t)[name])
  BY <1>1, <1>3, <1>5 DEF IsTable
<1>7. /\ Create(t)[name].columns = old.columns /\ Create(t)[name].keys = old.keys
      /\ Create(t)[name].unique = old.unique /\ Create(t)[name].auto = old.auto
      /\ Create(t)[name].indexes = indexes
  BY <1>5
<1>8. name \in DOMAIN Create(t)
  BY DEF Create
<1> QED
  BY <1>3, <1>4, <1>6, <1>7, <1>8 DEF old, new

\* ... and for one that is created.
LEMMA CreatedNew ==
    ASSUME NEW t, NEW name \in Names \ DOMAIN t
    PROVE  LET made == Create(t)[name]
               new == DOMAIN Required[name].indexes \ IndexNames(t)
           IN  /\ name \in DOMAIN Create(t) /\ IsTable(made)
               /\ made.columns = Required[name].columns /\ made.keys = Required[name].keys
               /\ made.unique = Required[name].unique /\ made.auto = Required[name].auto
               /\ DOMAIN made.indexes = new
               /\ \A index \in new : made.indexes[index] = Required[name].indexes[index]
<1> DEFINE new == DOMAIN Required[name].indexes \ IndexNames(t)
           old == [Required[name] EXCEPT !.indexes = <<>>]
           indexes == [index \in DOMAIN old.indexes \cup new |->
                        IF index \in DOMAIN old.indexes THEN old.indexes[index]
                        ELSE Required[name].indexes[index]]
<1>1. IsTable(Required[name])
  BY ColumnsAssumption DEF Names
<1>2. Create(t)[name] = [old EXCEPT !.indexes = indexes]
  BY DEF Create
<1>3. old = [columns |-> Required[name].columns, keys |-> Required[name].keys,
             unique |-> Required[name].unique, indexes |-> <<>>, auto |-> Required[name].auto]
  BY <1>1 DEF IsTable
<1>4. DOMAIN old.indexes = {}
  BY <1>3
<1>5. /\ indexes = [index \in DOMAIN indexes |-> indexes[index]]
      /\ DOMAIN indexes = new
      /\ \A index \in new : indexes[index] = Required[name].indexes[index]
  BY <1>4
<1> HIDE DEF old, indexes, new
<1>6. Create(t)[name] = [columns |-> Required[name].columns, keys |-> Required[name].keys,
                         unique |-> Required[name].unique, indexes |-> indexes,
                         auto |-> Required[name].auto]
  BY <1>2, <1>3
<1>7. IsTable(Create(t)[name])
  BY <1>1, <1>5, <1>6 DEF IsTable
<1>8. /\ Create(t)[name].columns = Required[name].columns /\ Create(t)[name].keys = Required[name].keys
      /\ Create(t)[name].unique = Required[name].unique /\ Create(t)[name].auto = Required[name].auto
      /\ Create(t)[name].indexes = indexes
  BY <1>6
<1>9. name \in DOMAIN Create(t)
  BY DEF Create
<1> QED
  BY <1>5, <1>7, <1>8, <1>9 DEF new

LEMMA CreatedSane ==
    ASSUME NEW t, Sane(t)
    PROVE  Sane(Create(t))
<1>1. \A name \in DOMAIN t : IsTable(t[name])
  BY DEF Sane
<1>2. ASSUME NEW name \in DOMAIN Create(t), NEW index \in DOMAIN Create(t)[name].indexes
      PROVE  IndexKnown(Create(t), name, index)
  <2>1. CASE name \in Names \cap DOMAIN t /\ index \in DOMAIN t[name].indexes
    <3>1. /\ Create(t)[name].indexes[index] = t[name].indexes[index]
          /\ Create(t)[name].columns = t[name].columns
      BY <1>1, <2>1, CreatedOld
    <3>2. IndexKnown(t, name, index)
      BY <2>1 DEF Sane
    <3> QED
      BY <3>1, <3>2 DEF IndexKnown
  <2>2. CASE name \in Names \cap DOMAIN t /\ index \notin DOMAIN t[name].indexes
    <3>1. /\ index \in DOMAIN Required[name].indexes
          /\ Create(t)[name].indexes[index] = Required[name].indexes[index]
      BY <1>1, <1>2, <2>2, CreatedOld
    <3> QED
      BY <2>2, <3>1 DEF IndexKnown
  <2>3. CASE name \in Names \ DOMAIN t
    <3>1. /\ index \in DOMAIN Required[name].indexes
          /\ Create(t)[name].indexes[index] = Required[name].indexes[index]
      BY <1>2, <2>3, CreatedNew
    <3> QED
      BY <2>3, <3>1 DEF IndexKnown
  <2>4. CASE name \notin Names
    <3>1. name \in DOMAIN t /\ Create(t)[name] = t[name]
      BY <1>2, <2>4 DEF Create
    <3>2. IndexKnown(t, name, index)
      BY <1>2, <3>1 DEF Sane
    <3>3. name # "posts"
      BY <2>4, SchemaAssumption DEF Names
    <3> QED
      BY <3>1, <3>2, <3>3 DEF IndexKnown
  <2> QED
    BY <2>1, <2>2, <2>3, <2>4
<1>3. ASSUME NEW name \in DOMAIN Create(t)
      PROVE  IsTable(Create(t)[name])
  <2>1. CASE name \in Names \cap DOMAIN t
    BY <1>1, <2>1, CreatedOld
  <2>2. CASE name \in Names \ DOMAIN t
    BY <2>2, CreatedNew
  <2>3. CASE name \notin Names
    <3>1. name \in DOMAIN t /\ Create(t)[name] = t[name]
      BY <1>3, <2>3 DEF Create
    <3> QED
      BY <1>1, <3>1
  <2> QED
    BY <2>1, <2>2, <2>3
<1>4. Create(t) = [name \in DOMAIN Create(t) |-> Create(t)[name]]
  BY DEF Create
<1> QED
  BY <1>2, <1>3, <1>4 DEF Sane

-----------------------------------------------------------------------------
\* The name of an index that a migration creates is taken.
Taken(t) ==
    \E name \in DOMAIN t, index \in LaterIndexes \cup {SlugIndex} :
        index \in DOMAIN t[name].indexes /\ t[name].indexes[index] = <<"changed">>

\* What is left of the required tables is as required, up to their indexes.
Ready(t) ==
    \A name \in Names \cap DOMAIN t :
        /\ ColumnsFit(t[name].columns, Required[name].columns, FALSE)
        /\ name = "posts" => t[name].columns = Required[name].columns
        /\ Required[name].keys \ {ParentKey} \subseteq t[name].keys
        /\ \A key \in t[name].keys : key.from = ParentKey.from => key = ParentKey
        /\ Required[name].unique \subseteq t[name].unique
        /\ Required[name].auto => t[name].auto
        /\ \A index \in DOMAIN Required[name].indexes \cap DOMAIN t[name].indexes :
            t[name].indexes[index] = Required[name].indexes[index]

(***************************************************************************)
(* A required index that is somewhere is on its own table: CREATE INDEX    *)
(* IF NOT EXISTS skips none that is missing there.                         *)
(***************************************************************************)
LEMMA IndexOwner ==
    ASSUME NEW t, Sane(t), ~Taken(t), NEW name \in Names,
           NEW index \in DOMAIN Required[name].indexes, index \in IndexNames(t)
    PROVE  name \in DOMAIN t /\ index \in DOMAIN t[name].indexes
<1>1. PICK other \in DOMAIN t : index \in DOMAIN t[other].indexes
  BY DEF IndexNames
<1>2. IndexKnown(t, other, index)
  BY <1>1 DEF Sane
<1>3. index # SlugIndex
  BY IndexesAssumption DEF Names
<1>4. other \in Names /\ index \in DOMAIN Required[other].indexes
  BY <1>1, <1>2, <1>3 DEF IndexKnown, Taken
<1>5. other = name
  BY <1>4, IndexesAssumption DEF Names
<1> QED
  BY <1>1, <1>5

LEMMA SlugFree ==
    ASSUME NEW t, Sane(t), ~Taken(t),
           "posts" \in DOMAIN t => t["posts"].columns = Required["posts"].columns
    PROVE  SlugIndex \notin IndexNames(t)
<1> SUFFICES ASSUME SlugIndex \in IndexNames(t) PROVE FALSE
  OBVIOUS
<1>1. PICK name \in DOMAIN t : SlugIndex \in DOMAIN t[name].indexes
  BY DEF IndexNames
<1>2. IndexKnown(t, name, SlugIndex)
  BY <1>1 DEF Sane
<1>3. \A other \in Names : SlugIndex \notin DOMAIN Required[other].indexes
  BY IndexesAssumption DEF Names
<1>4. name = "posts" /\ Len(t["posts"].columns) > Len(Required["posts"].columns)
  BY <1>1, <1>2, <1>3 DEF IndexKnown, Taken
<1>5. Required["posts"].columns \in Seq(Columns)
  BY SchemaAssumption, ColumnsAssumption DEF IsTable
<1> QED
  BY <1>4, <1>5

(***************************************************************************)
(* CREATE completes a database that is ready for it.                       *)
(***************************************************************************)
LEMMA CreatedComplete ==
    ASSUME NEW t, Sane(t), ~Taken(t), Ready(t)
    PROVE  /\ Complete(Create(t))
           /\ Create(t)["posts"].columns = Required["posts"].columns
           /\ SlugIndex \notin IndexNames(Create(t))
<1>1. \A name \in DOMAIN t : IsTable(t[name])
  BY DEF Sane
<1>2. \A name \in Names : IsTable(Required[name])
  BY ColumnsAssumption DEF Names
<1>3. ASSUME NEW name \in Names
      PROVE  /\ name \in DOMAIN Create(t)
             /\ Fits(Create(t)[name], Required[name], Required[name].columns, FALSE)
             /\ Required[name].auto => Create(t)[name].auto
             /\ name = "posts" => Create(t)[name].columns = Required[name].columns
  <2>1. \A key \in Required[name].keys : key.from = ParentKey.from => key = ParentKey
    BY <1>3, KeysAssumption DEF Names
  <2>2. CASE name \in DOMAIN t
    <3>1. ASSUME NEW index \in DOMAIN Required[name].indexes
          PROVE  /\ index \in DOMAIN Create(t)[name].indexes
                 /\ Create(t)[name].indexes[index] = Required[name].indexes[index]
      <4>1. CASE index \in IndexNames(t)
        <5>1. index \in DOMAIN t[name].indexes
          BY <1>3, <3>1, <4>1, IndexOwner
        <5>2. t[name].indexes[index] = Required[name].indexes[index]
          BY <1>3, <2>2, <3>1, <5>1 DEF Ready
        <5> QED
          BY <1>1, <1>3, <2>2, <5>1, <5>2, CreatedOld
      <4>2. CASE index \notin IndexNames(t)
        BY <1>1, <1>3, <2>2, <3>1, <4>2, CreatedOld
      <4> QED
        BY <4>1, <4>2
    <3>2. /\ Create(t)[name].columns = t[name].columns /\ Create(t)[name].keys = t[name].keys
          /\ Create(t)[name].unique = t[name].unique /\ Create(t)[name].auto = t[name].auto
          /\ name \in DOMAIN Create(t)
      BY <1>1, <1>3, <2>2, CreatedOld
    <3> QED
      BY <1>3, <2>2, <3>1, <3>2 DEF Ready, Fits
  <2>3. CASE name \notin DOMAIN t
    <3>1. ASSUME NEW index \in DOMAIN Required[name].indexes
          PROVE  /\ index \in DOMAIN Create(t)[name].indexes
                 /\ Create(t)[name].indexes[index] = Required[name].indexes[index]
      <4>1. index \notin IndexNames(t)
        BY <1>3, <2>3, <3>1, IndexOwner
      <4> QED
        BY <1>3, <2>3, <3>1, <4>1, CreatedNew
    <3>2. /\ Create(t)[name].columns = Required[name].columns
          /\ Create(t)[name].keys = Required[name].keys
          /\ Create(t)[name].unique = Required[name].unique
          /\ Create(t)[name].auto = Required[name].auto
          /\ name \in DOMAIN Create(t)
      BY <1>3, <2>3, CreatedNew
    <3> QED
      BY <2>1, <3>1, <3>2 DEF Fits, ColumnsFit
  <2> QED
    BY <2>2, <2>3
<1>4. Complete(Create(t)) /\ Create(t)["posts"].columns = Required["posts"].columns
  BY <1>3, SchemaAssumption DEF Complete, Names
<1>5. SlugIndex \notin IndexNames(Create(t))
  <2>1. Sane(Create(t))
    BY CreatedSane
  <2>2. ASSUME NEW name \in DOMAIN Create(t), NEW index \in LaterIndexes \cup {SlugIndex},
               index \in DOMAIN Create(t)[name].indexes,
               Create(t)[name].indexes[index] = <<"changed">>
        PROVE  FALSE
    <3>1. CASE name \notin Names
      <4>1. name \in DOMAIN t /\ Create(t)[name] = t[name]
        BY <2>2, <3>1 DEF Create
      <4> QED
        BY <2>2, <4>1 DEF Taken
    <3>2. CASE name \in Names /\ index \in DOMAIN Required[name].indexes
      <4>1. Create(t)[name].indexes[index] = Required[name].indexes[index]
        BY <1>3, <3>2 DEF Fits
      <4> QED
        BY <2>2, <3>2, <4>1, IndexesAssumption DEF Names
    <3>3. CASE name \in Names /\ index \notin DOMAIN Required[name].indexes
      <4>1. name \in DOMAIN t
        BY <2>2, <3>3, CreatedNew
      <4>2. index \in DOMAIN t[name].indexes /\ t[name].indexes[index] = <<"changed">>
        BY <1>1, <2>2, <3>3, <4>1, CreatedOld
      <4> QED
        BY <2>2, <4>1, <4>2 DEF Taken
    <3> QED
      BY <3>1, <3>2, <3>3
  <2>3. ~Taken(Create(t))
    BY <2>2 DEF Taken
  <2> QED
    BY <1>4, <2>1, <2>3, SlugFree
<1> QED
  BY <1>4, <1>5

-----------------------------------------------------------------------------
(***************************************************************************)
(* ALTER TABLE, for the early tables and the others.                       *)
(***************************************************************************)
LEMMA AlteredIs ==
    ASSUME NEW t, \A name \in DOMAIN t : IsTable(t[name]), NEW name \in DOMAIN t
    PROVE  LET made == Altered(t)[name]
           IN  /\ IsTable(made)
               /\ made.columns = IF name \in DOMAIN EarlyColumns
                                 THEN t[name].columns \o AddedColumns[name] ELSE t[name].columns
               /\ made.keys = t[name].keys /\ made.unique = t[name].unique
               /\ made.indexes = t[name].indexes /\ made.auto = t[name].auto
<1>1. IsTable(t[name])
  OBVIOUS
<1>2. CASE name \in DOMAIN EarlyColumns
  <2>1. Altered(t)[name] = [t[name] EXCEPT !.columns = t[name].columns \o AddedColumns[name]]
    BY <1>2, SchemaAssumption DEF Altered
  <2>2. t[name].columns \o AddedColumns[name] \in Seq(Columns)
    BY <1>1, <1>2, ColumnsAssumption DEF IsTable
  <2> DEFINE columns == t[name].columns \o AddedColumns[name]
  <2> HIDE DEF columns
  <2>3. Altered(t)[name] = [columns |-> columns, keys |-> t[name].keys, unique |-> t[name].unique,
                            indexes |-> t[name].indexes, auto |-> t[name].auto]
    BY <1>1, <2>1 DEF IsTable, columns
  <2>4. columns \in Seq(Columns)
    BY <2>2 DEF columns
  <2>5. IsTable(Altered(t)[name])
    BY <1>1, <2>3, <2>4 DEF IsTable
  <2>6. /\ Altered(t)[name].columns = columns /\ Altered(t)[name].keys = t[name].keys
        /\ Altered(t)[name].unique = t[name].unique /\ Altered(t)[name].indexes = t[name].indexes
        /\ Altered(t)[name].auto = t[name].auto
    BY <2>3
  <2> QED
    BY <1>2, <2>5, <2>6 DEF columns
<1>3. CASE name \notin DOMAIN EarlyColumns
  <2>1. Altered(t)[name] = t[name]
    BY <1>3, SchemaAssumption DEF Altered
  <2> QED
    BY <1>1, <1>3, <2>1
<1> QED
  BY <1>2, <1>3

LEMMA Longer ==
    ASSUME NEW s \in Seq(Columns), NEW added \in Seq(Columns), NEW shorter \in Seq(Columns),
           Len(s) > Len(shorter)
    PROVE  Len(s \o added) > Len(shorter)
  OBVIOUS

LEMMA AlteredSane ==
    ASSUME NEW t, Sane(t)
    PROVE  Sane(Altered(t)) /\ DOMAIN Altered(t) = DOMAIN t
<1>1. \A name \in DOMAIN t : IsTable(t[name])
  BY DEF Sane
<1>2. DOMAIN Altered(t) = DOMAIN t /\ Altered(t) = [name \in DOMAIN Altered(t) |-> Altered(t)[name]]
  BY DEF Altered
<1>3. ASSUME NEW name \in DOMAIN t, NEW index \in DOMAIN Altered(t)[name].indexes
      PROVE  IndexKnown(Altered(t), name, index)
  <2>1. Altered(t)[name].indexes = t[name].indexes
    BY <1>1, AlteredIs
  <2>2. IndexKnown(t, name, index)
    BY <1>3, <2>1 DEF Sane
  <2>3. ASSUME name = "posts", Len(t["posts"].columns) > Len(Required["posts"].columns)
        PROVE  Len(Altered(t)["posts"].columns) > Len(Required["posts"].columns)
    <3>1. "posts" \in DOMAIN EarlyColumns
      BY SchemaAssumption
    <3>2. /\ t["posts"].columns \in Seq(Columns) /\ AddedColumns["posts"] \in Seq(Columns)
          /\ Required["posts"].columns \in Seq(Columns)
      BY <1>1, <2>3, <3>1, SchemaAssumption, ColumnsAssumption DEF IsTable
    <3>3. Altered(t)["posts"].columns = t["posts"].columns \o AddedColumns["posts"]
      BY <1>1, <2>3, <3>1, AlteredIs
    <3> QED
      BY <2>3, <3>2, <3>3, Longer
  <2> QED
    BY <2>1, <2>2, <2>3 DEF IndexKnown
<1> QED
  BY <1>1, <1>2, <1>3, AlteredIs DEF Sane

(***************************************************************************)
(* Both known schemas are ready for CREATE, the early one once altered.    *)
(***************************************************************************)
LEMMA AlteredReady ==
    ASSUME NEW t, Sane(t), EarlyShape(t), ~Taken(t)
    PROVE  Ready(Altered(t)) /\ ~Taken(Altered(t))
<1>1. \A name \in DOMAIN t : IsTable(t[name])
  BY DEF Sane
<1>2. DOMAIN Altered(t) = DOMAIN t
  BY AlteredSane
<1>3. ~Taken(Altered(t))
  BY <1>1, <1>2, AlteredIs DEF Taken
<1>4. ASSUME NEW name \in Names \cap DOMAIN t
      PROVE  /\ Altered(t)[name].columns = Required[name].columns
             /\ Required[name].keys \ {ParentKey} \subseteq t[name].keys
             /\ \A key \in t[name].keys : key.from = ParentKey.from => key = ParentKey
             /\ Required[name].unique \subseteq t[name].unique
             /\ Required[name].auto => t[name].auto
             /\ \A index \in DOMAIN Required[name].indexes \cap DOMAIN t[name].indexes :
                 t[name].indexes[index] = Required[name].indexes[index]
  <2>1. name \in DOMAIN EarlyColumns
    BY <1>4, SchemaAssumption DEF EarlyShape, Names
  <2>2. Fits(t[name], Required[name], EarlyColumns[name], TRUE)
    BY <2>1 DEF EarlyShape
  <2>3. Altered(t)[name].columns = Required[name].columns
    <3>1. t[name].columns = EarlyColumns[name]
      BY <2>2 DEF Fits, ColumnsFit
    <3>2. Altered(t)[name].columns = t[name].columns \o AddedColumns[name]
      BY <1>1, <1>4, <2>1, AlteredIs
    <3>3. EarlyColumns[name] \o AddedColumns[name] = Required[name].columns
      BY <2>1, ColumnsAssumption
    <3> QED
      BY <3>1, <3>2, <3>3
  <2>4. ASSUME NEW index \in DOMAIN Required[name].indexes \cap DOMAIN t[name].indexes
        PROVE  t[name].indexes[index] = Required[name].indexes[index]
    <3>1. CASE index \in LaterIndexes
      <4>1. t[name].indexes[index] # <<"changed">>
        BY <1>4, <2>4, <3>1 DEF Taken
      <4>2. IndexKnown(t, name, index) /\ index # SlugIndex
        BY <1>4, <2>4, IndexesAssumption DEF Sane, Names
      <4> QED
        BY <4>1, <4>2 DEF IndexKnown
    <3>2. CASE index \notin LaterIndexes
      BY <2>2, <2>4, <3>2 DEF Fits
    <3> QED
      BY <3>1, <3>2
  <2>5. Required[name].auto => t[name].auto
    BY <1>4 DEF EarlyShape
  <2> QED
    BY <2>2, <2>3, <2>4, <2>5 DEF Fits
<1>5. Ready(Altered(t))
  <2> SUFFICES ASSUME NEW name \in Names \cap DOMAIN t
               PROVE  /\ ColumnsFit(Altered(t)[name].columns, Required[name].columns, FALSE)
                      /\ name = "posts" => Altered(t)[name].columns = Required[name].columns
                      /\ Required[name].keys \ {ParentKey} \subseteq Altered(t)[name].keys
                      /\ \A key \in Altered(t)[name].keys : key.from = ParentKey.from => key = ParentKey
                      /\ Required[name].unique \subseteq Altered(t)[name].unique
                      /\ Required[name].auto => Altered(t)[name].auto
                      /\ \A index \in DOMAIN Required[name].indexes \cap DOMAIN Altered(t)[name].indexes :
                          Altered(t)[name].indexes[index] = Required[name].indexes[index]
    BY <1>2 DEF Ready
  <2>1. /\ Altered(t)[name].keys = t[name].keys /\ Altered(t)[name].unique = t[name].unique
        /\ Altered(t)[name].indexes = t[name].indexes /\ Altered(t)[name].auto = t[name].auto
    BY <1>1, AlteredIs
  <2> QED
    BY <1>4, <2>1 DEF ColumnsFit
<1> QED
  BY <1>3, <1>5

LEMMA CompleteReady ==
    ASSUME NEW t, Complete(t), ~IsStrictPrefix(Required["posts"].columns, t["posts"].columns)
    PROVE  Ready(t)
  BY DEF Complete, Ready, Fits, ColumnsFit

-----------------------------------------------------------------------------
(***************************************************************************)
(* The column and the index of the slugs.                                  *)
(***************************************************************************)
LEMMA ColumnsKnown == "slug" \in Columns /\ "extra" \in Columns /\ "changed" \in Columns
  BY DEF Columns

LEMMA Appended == ASSUME NEW S, NEW s \in Seq(S), NEW name \in S PROVE Append(s, name) \in Seq(S)
  OBVIOUS

LEMMA SlugAdded ==
    ASSUME NEW t, Sane(t), "posts" \in DOMAIN t, AddSlugColumn(t) # Failed
    PROVE  LET made == AddSlugColumn(t)
           IN  /\ SlugIndex \notin IndexNames(t)
               /\ made = [name \in DOMAIN made |-> made[name]] /\ DOMAIN made = DOMAIN t
               /\ \A name \in DOMAIN t \ {"posts"} : made[name] = t[name]
               /\ IsTable(made["posts"])
               /\ made["posts"].columns = Append(t["posts"].columns, "slug")
               /\ made["posts"].keys = t["posts"].keys /\ made["posts"].unique = t["posts"].unique
               /\ made["posts"].auto = t["posts"].auto
               /\ DOMAIN made["posts"].indexes = DOMAIN t["posts"].indexes \cup {SlugIndex}
               /\ made["posts"].indexes[SlugIndex] = <<"unique", "slug">>
               /\ \A index \in DOMAIN t["posts"].indexes :
                    made["posts"].indexes[index] = t["posts"].indexes[index]
<1> DEFINE columns == Append(t["posts"].columns, "slug")
           indexes == Having(t["posts"].indexes, SlugIndex, <<"unique", "slug">>)
<1>1. SlugIndex \notin IndexNames(t)
  BY DEF AddSlugColumn
<1>2. IsTable(t["posts"]) /\ t = [name \in DOMAIN t |-> t[name]]
  BY DEF Sane
<1> DEFINE altered == [t EXCEPT !["posts"].columns = columns]
<1>3. AddSlugColumn(t) = [altered EXCEPT !["posts"].indexes = indexes]
  <2>1. AddSlugColumn(t) = [altered EXCEPT !["posts"].indexes = Having(@, SlugIndex, <<"unique", "slug">>)]
    BY DEF AddSlugColumn
  <2>2. altered["posts"].indexes = t["posts"].indexes
    BY <1>2 DEF IsTable
  <2> HIDE DEF altered
  <2> QED
    BY <2>1, <2>2
<1>4. columns \in Seq(Columns)
  <2>1. t["posts"].columns \in Seq(Columns)
    BY <1>2 DEF IsTable
  <2> QED
    BY <2>1, Appended, ColumnsKnown
<1>5. /\ indexes = [index \in DOMAIN indexes |-> indexes[index]]
      /\ DOMAIN indexes = DOMAIN t["posts"].indexes \cup {SlugIndex}
      /\ \A index \in DOMAIN t["posts"].indexes : indexes[index] = t["posts"].indexes[index]
      /\ SlugIndex \notin DOMAIN t["posts"].indexes => indexes[SlugIndex] = <<"unique", "slug">>
  BY DEF Having
<1>6. SlugIndex \notin DOMAIN t["posts"].indexes
  BY <1>1 DEF IndexNames
<1> HIDE DEF columns, indexes
<1>7. altered["posts"] =
        [columns |-> columns, keys |-> t["posts"].keys, unique |-> t["posts"].unique,
         indexes |-> t["posts"].indexes, auto |-> t["posts"].auto]
  BY <1>2 DEF IsTable
<1>8. /\ altered = [name \in DOMAIN altered |-> altered[name]] /\ DOMAIN altered = DOMAIN t
      /\ \A name \in DOMAIN t \ {"posts"} : altered[name] = t[name]
  BY <1>2
<1> HIDE DEF altered
<1>9. AddSlugColumn(t)["posts"] =
        [columns |-> columns, keys |-> t["posts"].keys, unique |-> t["posts"].unique,
         indexes |-> indexes, auto |-> t["posts"].auto]
  BY <1>3, <1>7, <1>8
<1>10. IsTable(AddSlugColumn(t)["posts"])
  BY <1>4, <1>5, <1>9 DEF IsTable
<1>11. /\ AddSlugColumn(t)["posts"].columns = columns
       /\ AddSlugColumn(t)["posts"].keys = t["posts"].keys
       /\ AddSlugColumn(t)["posts"].unique = t["posts"].unique
       /\ AddSlugColumn(t)["posts"].auto = t["posts"].auto
       /\ AddSlugColumn(t)["posts"].indexes = indexes
  BY <1>9
<1>12. /\ AddSlugColumn(t) = [name \in DOMAIN AddSlugColumn(t) |-> AddSlugColumn(t)[name]]
       /\ DOMAIN AddSlugColumn(t) = DOMAIN t
       /\ \A name \in DOMAIN t \ {"posts"} : AddSlugColumn(t)[name] = t[name]
  BY <1>3, <1>8
<1> QED
  BY <1>1, <1>5, <1>6, <1>10, <1>11, <1>12 DEF columns

LEMMA NotFailed ==
    ASSUME NEW t, "posts" \in DOMAIN t
    PROVE  t # Failed
<1>1. DOMAIN Failed = {"failed"}
  BY DEF Failed
<1> QED
  BY <1>1

LEMMA SlugValid ==
    ASSUME NEW t, Sane(t), NEW other, Complete(t),
           t["posts"].columns = Required["posts"].columns, SlugIndex \notin IndexNames(t)
    PROVE  AddSlugColumn(t) # Failed /\ ValidSchema(AddSlugColumn(t), other, 2)
<1> DEFINE made == AddSlugColumn(t)
           required == Required["posts"].columns
<1>1. "posts" \in DOMAIN t /\ "posts" \in Names
  BY SchemaAssumption DEF Complete, Names
<1>2. made # Failed
  <2>1. "slug" \notin Range(t["posts"].columns)
    BY ColumnsAssumption
  <2>2. DOMAIN made = DOMAIN t
    BY <2>1 DEF AddSlugColumn, Sane
  <2> HIDE DEF made
  <2> QED
    BY <1>1, <2>2, NotFailed
<1>3. /\ DOMAIN made = DOMAIN t
      /\ \A name \in DOMAIN t \ {"posts"} : made[name] = t[name]
      /\ made["posts"].columns = Append(required, "slug")
      /\ made["posts"].keys = t["posts"].keys /\ made["posts"].unique = t["posts"].unique
      /\ made["posts"].auto = t["posts"].auto
      /\ DOMAIN made["posts"].indexes = DOMAIN t["posts"].indexes \cup {SlugIndex}
      /\ made["posts"].indexes[SlugIndex] = <<"unique", "slug">>
      /\ \A index \in DOMAIN t["posts"].indexes :
           made["posts"].indexes[index] = t["posts"].indexes[index]
  BY <1>1, <1>2, SlugAdded
<1>4. required \in Seq(Columns)
  BY <1>1, ColumnsAssumption DEF IsTable, Names
<1> HIDE DEF made, required
<1>5. IsStrictPrefix(required, Append(required, "slug"))
  <2>1. Len(Append(required, "slug")) = Len(required) + 1 /\ Len(required) \in Nat
    BY <1>4
  <2>2. SubSeq(required, 1, Len(required)) = SubSeq(Append(required, "slug"), 1, Len(required))
    BY <1>4
  <2> QED
    BY <2>1, <2>2 DEF IsStrictPrefix, IsPrefix
<1>6. Fits(made["posts"], Required["posts"], required, FALSE)
  <2>1. Fits(t["posts"], Required["posts"], required, FALSE)
    BY <1>1 DEF Complete, required
  <2>2. ColumnsFit(made["posts"].columns, required, FALSE)
    BY <1>3, <1>5 DEF ColumnsFit
  <2>3. /\ Required["posts"].keys \ {ParentKey} \subseteq made["posts"].keys
        /\ \A key \in made["posts"].keys : key.from = ParentKey.from => key = ParentKey
        /\ Required["posts"].unique \subseteq made["posts"].unique
    BY <1>3, <2>1 DEF Fits
  <2>4. \A name \in DOMAIN Required["posts"].indexes :
            /\ name \in DOMAIN made["posts"].indexes
            /\ made["posts"].indexes[name] = Required["posts"].indexes[name]
    BY <1>3, <2>1 DEF Fits
  <2> QED
    BY <2>2, <2>3, <2>4 DEF Fits
<1>7. Complete(made)
  <2> SUFFICES ASSUME NEW name \in Names
               PROVE  /\ name \in DOMAIN made
                      /\ Fits(made[name], Required[name], Required[name].columns, FALSE)
                      /\ Required[name].auto => made[name].auto
    BY DEF Complete
  <2>1. CASE name = "posts"
    BY <1>1, <1>3, <1>6, <2>1 DEF Complete, required
  <2>2. CASE name # "posts"
    BY <1>3, <2>2 DEF Complete
  <2> QED
    BY <2>1, <2>2
<1>8. Inspect(made, other) = "v1"
  BY <1>1, <1>3, <1>7, InspectIs
<1>9. SlugFollows(made["posts"].columns)
  BY <1>3, <1>4 DEF SlugFollows, IsPrefix, required
<1> QED
  BY <1>2, <1>3, <1>8, <1>9 DEF ValidSchema, made

-----------------------------------------------------------------------------
\* What the two migrations make of a database.
Baseline(t, other) ==
    Create(IF Inspect(Recorded(t), other) = "early" THEN Altered(Recorded(t)) ELSE Recorded(t))

LEMMA BaselineSane ==
    ASSUME NEW t, NEW other, Sane(t)
    PROVE  Sane(Baseline(t, other)) /\ "posts" \in DOMAIN Baseline(t, other)
<1>1. Sane(Recorded(t))
  BY RecordedSane
<1>2. Sane(Altered(Recorded(t)))
  BY <1>1, AlteredSane
<1>3. \A u : "posts" \in DOMAIN Create(u)
  BY SchemaAssumption DEF Create, Names
<1> QED
  BY <1>1, <1>2, <1>3, CreatedSane DEF Baseline

LEMMA BaselineIs ==
    ASSUME NEW t, NEW other, Sane(t), BaselineApplied(Recorded(t), other) # Failed
    PROVE  BaselineApplied(Recorded(t), other) = Baseline(t, other)
  BY DEF BaselineApplied, Baseline

(***************************************************************************)
(* Recording, ALTER and CREATE leave the migration table as it was.        *)
(***************************************************************************)
LEMMA BaselineReadable ==
    ASSUME NEW t, NEW other, Sane(t), StateReadable(t)
    PROVE  StateReadable(Baseline(t, other))
<1>1. "schema_migrations" \notin Names /\ "schema_migrations" \notin DOMAIN EarlyColumns
  BY SchemaAssumption DEF Names
<1>2. /\ "schema_migrations" \in DOMAIN Recorded(t)
      /\ Recorded(t)["schema_migrations"] = MigrationTable
  BY RecordedIs DEF StateReadable
<1>3. /\ "schema_migrations" \in DOMAIN Altered(Recorded(t))
      /\ Altered(Recorded(t))["schema_migrations"] = MigrationTable
  BY <1>1, <1>2, SchemaAssumption DEF Altered
<1>4. ASSUME NEW u, "schema_migrations" \in DOMAIN u, u["schema_migrations"] = MigrationTable
      PROVE  Create(u)["schema_migrations"] = MigrationTable
  BY <1>1, <1>4 DEF Create
<1> QED
  BY <1>2, <1>3, <1>4 DEF StateReadable, Baseline

(***************************************************************************)
(* The tables that a migration leaves are sane, pass its checks and can be *)
(* read by the next start.                                                 *)
(***************************************************************************)
LEMMA MigratedSane ==
    ASSUME NEW t, NEW other, Sane(t), Migrated(t, other, 0) # Failed
    PROVE  /\ Migrated(t, other, 0) = AddSlugColumn(Baseline(t, other))
           /\ Sane(Migrated(t, other, 0)) /\ ValidSchema(Migrated(t, other, 0), other, 2)
           /\ StateReadable(Migrated(t, other, 0))
<1> DEFINE base == Baseline(t, other)
           made == AddSlugColumn(base)
<1>1. /\ StateReadable(t) /\ BaselineApplied(Recorded(t), other) # Failed
      /\ LET final == AddSlugColumn(BaselineApplied(Recorded(t), other))
         IN  final # Failed /\ ValidSchema(final, other, 2) /\ Migrated(t, other, 0) = final
  BY DEF Migrated, Recorded
<1>2. /\ made # Failed /\ ValidSchema(made, other, 2) /\ Migrated(t, other, 0) = made
  BY <1>1, BaselineIs
<1>3. Sane(base) /\ "posts" \in DOMAIN base
  BY BaselineSane
<1> HIDE DEF base
<1>4. /\ made = [name \in DOMAIN made |-> made[name]] /\ DOMAIN made = DOMAIN base
      /\ \A name \in DOMAIN base \ {"posts"} : made[name] = base[name]
      /\ IsTable(made["posts"])
      /\ made["posts"].columns = Append(base["posts"].columns, "slug")
      /\ DOMAIN made["posts"].indexes = DOMAIN base["posts"].indexes \cup {SlugIndex}
      /\ made["posts"].indexes[SlugIndex] = <<"unique", "slug">>
      /\ \A index \in DOMAIN base["posts"].indexes :
            made["posts"].indexes[index] = base["posts"].indexes[index]
  BY <1>2, <1>3, SlugAdded
<1> HIDE DEF made
<1>5. Len(made["posts"].columns) > Len(Required["posts"].columns)
  <2>1. IsPrefix(Append(Required["posts"].columns, "slug"), made["posts"].columns)
    BY <1>2 DEF ValidSchema, SlugFollows
  <2>2. Required["posts"].columns \in Seq(Columns) /\ made["posts"].columns \in Seq(Columns)
    BY <1>4, SchemaAssumption, ColumnsAssumption DEF IsTable
  <2>3. Len(Append(Required["posts"].columns, "slug")) = Len(Required["posts"].columns) + 1
    BY <2>2
  <2> QED
    BY <2>1, <2>2, <2>3 DEF IsPrefix
<1>6. ASSUME NEW name \in DOMAIN base, NEW index \in DOMAIN made[name].indexes
      PROVE  IsTable(made[name]) /\ IndexKnown(made, name, index)
  <2>1. CASE name # "posts"
    <3>1. made[name] = base[name]
      BY <1>4, <1>6, <2>1
    <3>2. IsTable(base[name]) /\ IndexKnown(base, name, index)
      BY <1>3, <1>6, <3>1 DEF Sane
    <3> QED
      BY <2>1, <3>1, <3>2 DEF IndexKnown
  <2>2. CASE name = "posts" /\ index \in DOMAIN base["posts"].indexes
    <3>1. IndexKnown(base, name, index)
      BY <1>3, <2>2 DEF Sane
    <3>2. made["posts"].indexes[index] = base["posts"].indexes[index]
      BY <1>4, <2>2
    <3> QED
      BY <1>4, <1>5, <2>2, <3>1, <3>2 DEF IndexKnown
  <2>3. CASE name = "posts" /\ index \notin DOMAIN base["posts"].indexes
    <3>1. index = SlugIndex
      BY <1>4, <1>6, <2>3
    <3> QED
      BY <1>4, <1>5, <2>3, <3>1 DEF IndexKnown
  <2> QED
    BY <2>1, <2>2, <2>3
<1>7. \A name \in DOMAIN base : IsTable(made[name])
  BY <1>3, <1>4 DEF Sane
<1>8. Sane(made)
  BY <1>4, <1>6, <1>7 DEF Sane
<1>9. StateReadable(made)
  <2>1. StateReadable(base)
    BY <1>1, BaselineReadable DEF base
  <2> QED
    BY <1>4, <2>1 DEF StateReadable
<1> QED
  BY <1>2, <1>8, <1>9 DEF base, made

(***************************************************************************)
(* A database that Open recognises is migrated, unless the place of what a *)
(* migration adds is taken.                                                *)
(***************************************************************************)
LEMMA Migrates ==
    ASSUME NEW t, NEW other, Sane(t), StateReadable(t), Inspect(t, other) # "unsupported",
           ~Obstructed(t)
    PROVE  Migrated(t, other, 0) # Failed
<1> DEFINE r == Recorded(t)
           before == IF Inspect(r, other) = "early" THEN Altered(r) ELSE r
<1>1. ~Taken(t) /\ ~("posts" \in DOMAIN t
                     /\ IsStrictPrefix(Required["posts"].columns, t["posts"].columns))
  BY DEF Obstructed, Taken
<1>2. Sane(r)
  BY RecordedSane
<1>3. "posts" \in Names /\ "posts" \in DOMAIN EarlyColumns
  BY SchemaAssumption DEF Names
<1>4. ~Taken(r)
  <2> SUFFICES ASSUME NEW name \in DOMAIN r, NEW index \in LaterIndexes \cup {SlugIndex},
                      index \in DOMAIN r[name].indexes, r[name].indexes[index] = <<"changed">>
               PROVE  FALSE
    BY DEF Taken
  <2>1. CASE name \in DOMAIN t
    <3>1. r[name] = t[name]
      BY <2>1, RecordedIs
    <3> HIDE DEF r
    <3> QED
      BY <1>1, <2>1, <3>1 DEF Taken
  <2>2. CASE name \notin DOMAIN t
    <3>1. DOMAIN r = DOMAIN t \cup {"schema_migrations"}
      BY RecordedIs
    <3>2. name = "schema_migrations"
      BY <2>2, <3>1
    <3>3. r["schema_migrations"] = MigrationTable
      BY <2>2, <3>2, RecordedIs
    <3> HIDE DEF r
    <3> QED
      BY <3>2, <3>3, IndexesAssumption
  <2> QED
    BY <2>1, <2>2
<1>5. Ready(before) /\ ~Taken(before) /\ Sane(before)
  <2>1. CASE DOMAIN t = {}
    <3>1. DOMAIN r = {"schema_migrations"}
      BY <2>1, RecordedIs
    <3>2. "schema_migrations" \notin Names
      BY SchemaAssumption DEF Names
    <3>3. Inspect(r, other) # "early"
      <4>1. ~EarlyShape(r)
        BY <1>3, <3>1 DEF EarlyShape
      <4> QED
        BY <4>1, InspectIs
    <3>4. Ready(r)
      BY <3>1, <3>2 DEF Ready
    <3> QED
      BY <1>2, <1>4, <3>3, <3>4
  <2>2. CASE DOMAIN t # {}
    <3>1. Inspect(r, other) = Inspect(t, other) /\ DOMAIN r # {}
      BY <2>2, RecordedInspected, RecordedIs
    <3>2. CASE Complete(r)
      <4>1. Inspect(r, other) = "v1"
        BY <3>1, <3>2, InspectIs
      <4>2. "posts" \in DOMAIN r
        BY <1>3, <3>2 DEF Complete
      <4>3. "posts" \in DOMAIN t /\ r["posts"] = t["posts"]
        BY <1>3, <4>2, RecordedIs
      <4>4. Ready(r)
        BY <1>1, <3>2, <4>3, CompleteReady
      <4> QED
        BY <1>2, <1>4, <4>1, <4>4
    <3>3. CASE ~Complete(r)
      <4>1. EarlyShape(r) /\ Inspect(r, other) = "early"
        BY <3>1, <3>3, InspectIs
      <4> QED
        BY <1>2, <1>4, <4>1, AlteredReady, AlteredSane
    <3> QED
      BY <3>2, <3>3
  <2> QED
    BY <2>1, <2>2
<1>6. Baseline(t, other) = Create(before)
  BY DEF Baseline
<1> HIDE DEF before
<1>7. /\ Complete(Baseline(t, other)) /\ Sane(Baseline(t, other))
      /\ Baseline(t, other)["posts"].columns = Required["posts"].columns
      /\ SlugIndex \notin IndexNames(Baseline(t, other))
  BY <1>5, <1>6, CreatedComplete, CreatedSane
<1>8. /\ AddSlugColumn(Baseline(t, other)) # Failed
      /\ ValidSchema(AddSlugColumn(Baseline(t, other)), other, 2)
  BY <1>7, SlugValid
<1>9. BaselineApplied(r, other) = Baseline(t, other) /\ Baseline(t, other) # Failed
  <2>1. Baseline(t, other) # Failed
    BY BaselineSane, NotFailed
  <2>2. CASE DOMAIN t = {}
    <3>1. DOMAIN r = {"schema_migrations"}
      BY <2>2, RecordedIs
    <3> QED
      BY <2>1, <3>1 DEF BaselineApplied, Baseline
  <2>3. CASE DOMAIN t # {}
    <3>1. Inspect(r, other) # "unsupported"
      BY <2>3, RecordedInspected
    <3> QED
      BY <2>1, <3>1 DEF BaselineApplied, Baseline
  <2> QED
    BY <2>1, <2>2, <2>3
<1>10. ValidSchema(t, other, 0)
  BY DEF ValidSchema
<1> HIDE DEF r
<1>11. Migrated(t, other, 0) = AddSlugColumn(Baseline(t, other))
  BY <1>8, <1>9, <1>10 DEF Migrated, r, Recorded
<1> QED
  BY <1>8, <1>11

-----------------------------------------------------------------------------
Originals == {Fresh, Early, V1, V1WithoutParentKey}

\* What the invariant says of a database that passes the checks of its state.
Served(t, other) == ValidSchema(t, other, 2) /\ StateReadable(t)

IsFinal(t) == \E early \in Originals : t = Migrated(early, FALSE, 0)

(***************************************************************************)
(* The inductive invariant: the tables bear what the program or a change   *)
(* put there; a served database passes the checks, and so does one to      *)
(* which things were only added; a refused one is as it was when it was    *)
(* refused; and without changes from outside it is an original one or what *)
(* a migration made of one.                                                *)
(***************************************************************************)
SchemaInv ==
    /\ Sane(tables) /\ version \in {0, 2} /\ changes \in Nat
    /\ others \in BOOLEAN /\ additions \in BOOLEAN
    /\ phase = "serving" => version = 2 /\ ValidSchema(tables, others, 2)
    /\ phase = "refused" => \/ Inspect(tables, others) = "unsupported"
                            \/ Migrated(tables, others, version) = Failed
    /\ version = 2 /\ additions => Served(tables, others)
    /\ changes = 0 =>
        /\ others = FALSE /\ additions = TRUE
        /\ \/ version = 0 /\ phase = "off" /\ tables \in Originals
           \/ version = 2 /\ IsFinal(tables)

-----------------------------------------------------------------------------
LEMMA RequiredKnown ==
    ASSUME NEW name \in Names
    PROVE  /\ IsTable(Required[name]) /\ name # "schema_migrations"
           /\ \A index \in DOMAIN Required[name].indexes :
                index # SlugIndex /\ Required[name].indexes[index] # <<"changed">>
           /\ \A key \in Required[name].keys : key.from = ParentKey.from => key = ParentKey
  BY SchemaAssumption, ColumnsAssumption, IndexesAssumption, KeysAssumption DEF Names

(***************************************************************************)
(* The tables of v1, up to their keys.                                     *)
(***************************************************************************)
LEMMA V1Known ==
    ASSUME NEW t, t = [name \in Names |-> t[name]],
           \A name \in Names :
                /\ IsTable(t[name])
                /\ t[name].columns = Required[name].columns /\ t[name].unique = Required[name].unique
                /\ t[name].indexes = Required[name].indexes /\ t[name].auto = Required[name].auto
                /\ t[name].keys \in {Required[name].keys, Required[name].keys \ {ParentKey}}
    PROVE  /\ Sane(t) /\ StateReadable(t) /\ ~Obstructed(t)
           /\ Complete(t) /\ Inspect(t, FALSE) = "v1"
<1>1. DOMAIN t = Names /\ "posts" \in Names
  BY SchemaAssumption DEF Names
<1>2. \A name \in Names : \A index \in DOMAIN t[name].indexes : IndexKnown(t, name, index)
  BY DEF IndexKnown
<1>3. Sane(t)
  BY <1>1, <1>2 DEF Sane
<1>4. StateReadable(t)
  BY <1>1, SchemaAssumption DEF StateReadable, Names
<1>5. ~Obstructed(t)
  <2>1. ASSUME NEW name \in DOMAIN t, NEW index \in LaterIndexes \cup {SlugIndex},
               index \in DOMAIN t[name].indexes, t[name].indexes[index] = <<"changed">>
        PROVE  FALSE
    BY <1>1, <2>1, RequiredKnown
  <2>2. ~IsStrictPrefix(Required["posts"].columns, t["posts"].columns)
    BY <1>1 DEF IsStrictPrefix
  <2> QED
    BY <2>1, <2>2 DEF Obstructed
<1>6. Complete(t)
  <2> SUFFICES ASSUME NEW name \in Names
               PROVE  /\ name \in DOMAIN t
                      /\ Fits(t[name], Required[name], Required[name].columns, FALSE)
                      /\ Required[name].auto => t[name].auto
    BY DEF Complete
  <2>1. \A key \in t[name].keys : key.from = ParentKey.from => key = ParentKey
    BY RequiredKnown
  <2> QED
    BY <1>1, <2>1 DEF Fits, ColumnsFit
<1> QED
  BY <1>1, <1>3, <1>4, <1>5, <1>6, InspectIs

LEMMA V1Original ==
    /\ V1 = [name \in Names |-> V1[name]] /\ \A name \in Names : V1[name] = Required[name]
    /\ Sane(V1) /\ StateReadable(V1) /\ ~Obstructed(V1)
    /\ Complete(V1) /\ Inspect(V1, FALSE) = "v1"
<1>1. V1 = [name \in Names |-> V1[name]] /\ \A name \in Names : V1[name] = Required[name]
  BY DEF V1
<1>2. \A name \in Names : IsTable(V1[name])
  BY <1>1, RequiredKnown
<1> QED
  BY <1>1, <1>2, V1Known

LEMMA V1WithoutParentKeyOriginal ==
    LET t == V1WithoutParentKey
    IN  /\ t = [name \in Names |-> t[name]]
        /\ \A name \in Names \ {"comments"} : t[name] = Required[name]
        /\ t["comments"] = [columns |-> Required["comments"].columns,
                            keys |-> Required["comments"].keys \ {ParentKey},
                            unique |-> Required["comments"].unique,
                            indexes |-> Required["comments"].indexes,
                            auto |-> Required["comments"].auto]
        /\ Sane(t) /\ StateReadable(t) /\ ~Obstructed(t)
        /\ Complete(t) /\ Inspect(t, FALSE) = "v1"
<1> DEFINE t == V1WithoutParentKey
<1>1. "comments" \in Names /\ IsTable(Required["comments"])
  BY SchemaAssumption, RequiredKnown DEF Names
<1>2. V1WithoutParentKey = [V1 EXCEPT !["comments"] =
            [V1["comments"] EXCEPT !.keys = V1["comments"].keys \ {ParentKey}]]
  BY DEF V1WithoutParentKey
<1>3. V1["comments"] = Required["comments"]
  BY <1>1, V1Original
<1>4. /\ t = [name \in Names |-> t[name]]
      /\ \A name \in Names \ {"comments"} : t[name] = Required[name]
      /\ t["comments"] = [Required["comments"] EXCEPT !.keys = Required["comments"].keys \ {ParentKey}]
  BY <1>1, <1>2, <1>3 DEF V1
<1> HIDE DEF t
<1>5. t["comments"] = [columns |-> Required["comments"].columns,
                       keys |-> Required["comments"].keys \ {ParentKey},
                       unique |-> Required["comments"].unique,
                       indexes |-> Required["comments"].indexes,
                       auto |-> Required["comments"].auto]
  BY <1>1, <1>4 DEF IsTable
<1>6. ASSUME NEW name \in Names
      PROVE  /\ IsTable(t[name])
             /\ t[name].columns = Required[name].columns /\ t[name].unique = Required[name].unique
             /\ t[name].indexes = Required[name].indexes /\ t[name].auto = Required[name].auto
             /\ t[name].keys \in {Required[name].keys, Required[name].keys \ {ParentKey}}
  <2>1. CASE name = "comments"
    BY <1>1, <1>5, <2>1 DEF IsTable
  <2>2. CASE name # "comments"
    BY <1>4, <1>6, <2>2, RequiredKnown
  <2> QED
    BY <2>1, <2>2
<1>7. /\ Sane(t) /\ StateReadable(t) /\ ~Obstructed(t)
      /\ Complete(t) /\ Inspect(t, FALSE) = "v1"
  BY <1>4, <1>6, V1Known
<1> QED
  BY <1>4, <1>5, <1>7 DEF t

LEMMA FreshOriginal ==
    /\ DOMAIN Fresh = {} /\ Sane(Fresh) /\ StateReadable(Fresh) /\ ~Obstructed(Fresh)
    /\ Inspect(Fresh, FALSE) = "fresh"
<1>1. DOMAIN Fresh = {} /\ Fresh = [name \in DOMAIN Fresh |-> Fresh[name]]
  BY DEF Fresh
<1> QED
  BY <1>1, InspectIs DEF Sane, StateReadable, Obstructed

LEMMA EarlyOriginal ==
    /\ DOMAIN Early = DOMAIN EarlyColumns
    /\ \A name \in DOMAIN EarlyColumns :
        /\ IsTable(Early[name]) /\ Early[name].columns = EarlyColumns[name]
        /\ Early[name].keys = Required[name].keys /\ Early[name].unique = Required[name].unique
        /\ Early[name].auto = Required[name].auto
        /\ DOMAIN Early[name].indexes = DOMAIN Required[name].indexes \ LaterIndexes
        /\ \A index \in DOMAIN Early[name].indexes :
            Early[name].indexes[index] = Required[name].indexes[index]
    /\ Sane(Early) /\ StateReadable(Early) /\ ~Obstructed(Early)
    /\ EarlyShape(Early) /\ Inspect(Early, FALSE) = "early"
<1>1. DOMAIN EarlyColumns \subseteq Names /\ "posts" \in DOMAIN EarlyColumns
  BY SchemaAssumption DEF Names
<1>2. DOMAIN Early = DOMAIN EarlyColumns /\ Early = [name \in DOMAIN Early |-> Early[name]]
  BY DEF Early
<1>3. ASSUME NEW name \in DOMAIN EarlyColumns
      PROVE  /\ IsTable(Early[name]) /\ Early[name].columns = EarlyColumns[name]
             /\ Early[name].keys = Required[name].keys /\ Early[name].unique = Required[name].unique
             /\ Early[name].auto = Required[name].auto
             /\ DOMAIN Early[name].indexes = DOMAIN Required[name].indexes \ LaterIndexes
             /\ \A index \in DOMAIN Early[name].indexes :
                 Early[name].indexes[index] = Required[name].indexes[index]
  <2> DEFINE indexes == [index \in DOMAIN Required[name].indexes \ LaterIndexes |->
                            Required[name].indexes[index]]
  <2>1. IsTable(Required[name])
    BY <1>1, <1>3, RequiredKnown
  <2>2. Early[name] = [columns |-> EarlyColumns[name], keys |-> Required[name].keys,
                       unique |-> Required[name].unique, indexes |-> indexes,
                       auto |-> Required[name].auto]
    BY <1>3, <2>1 DEF Early, IsTable
  <2>3. EarlyColumns[name] \in Seq(Columns)
    BY <1>3, ColumnsAssumption
  <2>4. /\ indexes = [index \in DOMAIN indexes |-> indexes[index]]
        /\ DOMAIN indexes = DOMAIN Required[name].indexes \ LaterIndexes
        /\ \A index \in DOMAIN indexes : indexes[index] = Required[name].indexes[index]
    OBVIOUS
  <2> HIDE DEF indexes
  <2>5. IsTable(Early[name])
    BY <2>2, <2>3, <2>4 DEF IsTable
  <2> QED
    BY <2>2, <2>4, <2>5
<1>4. \A name \in DOMAIN EarlyColumns :
        \A index \in DOMAIN Early[name].indexes : IndexKnown(Early, name, index)
  BY <1>1, <1>3 DEF IndexKnown
<1>5. Sane(Early)
  BY <1>2, <1>3, <1>4 DEF Sane
<1>6. StateReadable(Early)
  BY <1>1, <1>2, SchemaAssumption DEF StateReadable, Names
<1>7. \A s, added \in Seq(Columns) :
        /\ added # <<>> => s # s \o added
        /\ ~IsStrictPrefix(s \o added, s)
  <2> SUFFICES ASSUME NEW s \in Seq(Columns), NEW added \in Seq(Columns)
               PROVE  /\ added # <<>> => s # s \o added
                      /\ ~IsStrictPrefix(s \o added, s)
    OBVIOUS
  <2>1. Len(s \o added) = Len(s) + Len(added) /\ Len(s) \in Nat /\ Len(added) \in Nat
    OBVIOUS
  <2>2. added # <<>> => Len(added) > 0
    OBVIOUS
  <2>3. Len(added) = 0 => s \o added = s
    <3>1. Len(added) = 0 => added = <<>>
      OBVIOUS
    <3>2. s \o <<>> = s
      OBVIOUS
    <3> QED
      BY <3>1, <3>2
  <2> QED
    BY <2>1, <2>2, <2>3 DEF IsStrictPrefix, IsPrefix
<1>8. ~Obstructed(Early)
  <2>1. ASSUME NEW name \in DOMAIN Early, NEW index \in LaterIndexes \cup {SlugIndex},
               index \in DOMAIN Early[name].indexes, Early[name].indexes[index] = <<"changed">>
        PROVE  FALSE
    BY <1>1, <1>2, <1>3, <2>1, RequiredKnown
  <2>2. ~IsStrictPrefix(Required["posts"].columns, Early["posts"].columns)
    <3>1. /\ EarlyColumns["posts"] \in Seq(Columns) /\ AddedColumns["posts"] \in Seq(Columns)
          /\ EarlyColumns["posts"] \o AddedColumns["posts"] = Required["posts"].columns
      BY <1>1, ColumnsAssumption
    <3>2. Early["posts"].columns = EarlyColumns["posts"]
      BY <1>1, <1>3
    <3>3. ~IsStrictPrefix(EarlyColumns["posts"] \o AddedColumns["posts"], EarlyColumns["posts"])
      BY <1>7, <3>1
    <3> QED
      BY <3>1, <3>2, <3>3
  <2> QED
    BY <2>1, <2>2 DEF Obstructed
<1>9. EarlyShape(Early)
  <2>1. ASSUME NEW name \in DOMAIN EarlyColumns
        PROVE  Fits(Early[name], Required[name], EarlyColumns[name], TRUE)
    BY <1>1, <1>3, <2>1, RequiredKnown DEF Fits, ColumnsFit
  <2> QED
    BY <1>1, <1>2, <1>3, <2>1 DEF EarlyShape
<1>10. ~Complete(Early)
  <2>1. PICK name \in DOMAIN EarlyColumns : AddedColumns[name] # <<>>
    BY ColumnsAssumption
  <2>2. /\ EarlyColumns[name] # Required[name].columns
        /\ ~IsStrictPrefix(Required[name].columns, EarlyColumns[name])
    BY <1>7, <2>1, ColumnsAssumption
  <2>3. ~ColumnsFit(Early[name].columns, Required[name].columns, FALSE)
    BY <1>3, <2>2 DEF ColumnsFit
  <2> QED
    BY <1>1, <2>3 DEF Complete, Fits
<1>11. Inspect(Early, FALSE) = "early"
  BY <1>1, <1>2, <1>9, <1>10, InspectIs
<1> QED
  BY <1>2, <1>3, <1>5, <1>6, <1>8, <1>9, <1>11

LEMMA OriginalsMigrate ==
    ASSUME NEW t \in Originals
    PROVE  /\ Sane(t) /\ StateReadable(t) /\ Inspect(t, FALSE) # "unsupported"
           /\ Migrated(t, FALSE, 0) # Failed
<1>1. Sane(t) /\ StateReadable(t) /\ ~Obstructed(t) /\ Inspect(t, FALSE) # "unsupported"
  BY FreshOriginal, EarlyOriginal, V1Original, V1WithoutParentKeyOriginal DEF Originals
<1> QED
  BY <1>1, Migrates

-----------------------------------------------------------------------------
(***************************************************************************)
(* Every original database becomes the same tables.                        *)
(***************************************************************************)
LEMMA SameTable ==
    ASSUME NEW a, NEW b, IsTable(a), IsTable(b),
           a.columns = b.columns, a.keys = b.keys, a.unique = b.unique, a.auto = b.auto,
           DOMAIN a.indexes = DOMAIN b.indexes,
           \A index \in DOMAIN a.indexes : a.indexes[index] = b.indexes[index]
    PROVE  a = b
<1>1. a.indexes = b.indexes
  BY DEF IsTable
<1> QED
  BY <1>1 DEF IsTable

\* The table as required, with these keys; and a table that lacks indexes at most.
Twin(name, keys) ==
    [columns |-> Required[name].columns, keys |-> keys, unique |-> Required[name].unique,
     indexes |-> Required[name].indexes, auto |-> Required[name].auto]

PartOf(table, name) ==
    /\ table.columns = Required[name].columns /\ table.unique = Required[name].unique
    /\ table.auto = Required[name].auto
    /\ DOMAIN table.indexes \subseteq DOMAIN Required[name].indexes
    /\ \A index \in DOMAIN table.indexes :
        table.indexes[index] = Required[name].indexes[index]

LEMMA TwinIsTable ==
    ASSUME NEW name \in Names, NEW keys
    PROVE  IsTable(Twin(name, keys))
<1>1. IsTable(Required[name])
  BY RequiredKnown
<1> QED
  BY <1>1 DEF Twin, IsTable

LEMMA IsTwin ==
    ASSUME NEW name \in Names, NEW table, IsTable(table), PartOf(table, name),
           DOMAIN Required[name].indexes \subseteq DOMAIN table.indexes
    PROVE  table = Twin(name, table.keys)
<1>1. IsTable(Twin(name, table.keys))
  BY TwinIsTable
<1> QED
  BY <1>1, SameTable DEF Twin, PartOf

LEMMA CreatedAsRequired ==
    ASSUME NEW t, Sane(t), ~Taken(t), NEW name \in Names,
           name \in DOMAIN t => PartOf(t[name], name)
    PROVE  Create(t)[name] =
             Twin(name, IF name \in DOMAIN t THEN t[name].keys ELSE Required[name].keys)
<1>1. \A other \in DOMAIN t : IsTable(t[other])
  BY DEF Sane
<1>2. CASE name \in DOMAIN t
  <2>1. /\ IsTable(Create(t)[name]) /\ Create(t)[name].columns = t[name].columns
        /\ Create(t)[name].keys = t[name].keys /\ Create(t)[name].unique = t[name].unique
        /\ Create(t)[name].auto = t[name].auto
        /\ DOMAIN Create(t)[name].indexes
              = DOMAIN t[name].indexes \cup (DOMAIN Required[name].indexes \ IndexNames(t))
        /\ \A index \in DOMAIN t[name].indexes :
              Create(t)[name].indexes[index] = t[name].indexes[index]
        /\ \A index \in DOMAIN Required[name].indexes \ IndexNames(t) :
              Create(t)[name].indexes[index] = Required[name].indexes[index]
    BY <1>1, <1>2, CreatedOld
  <2>2. \A index \in DOMAIN Required[name].indexes :
            index \in IndexNames(t) => index \in DOMAIN t[name].indexes
    BY IndexOwner
  <2>3. DOMAIN Create(t)[name].indexes = DOMAIN Required[name].indexes
    BY <1>2, <2>1, <2>2 DEF PartOf
  <2>4. PartOf(Create(t)[name], name)
    BY <1>2, <2>1, <2>2, <2>3 DEF PartOf
  <2> QED
    BY <1>2, <2>1, <2>3, <2>4, IsTwin
<1>3. CASE name \notin DOMAIN t
  <2>1. \A index \in DOMAIN Required[name].indexes : index \notin IndexNames(t)
    BY <1>3, IndexOwner
  <2>2. /\ IsTable(Create(t)[name]) /\ Create(t)[name].columns = Required[name].columns
        /\ Create(t)[name].keys = Required[name].keys /\ Create(t)[name].unique = Required[name].unique
        /\ Create(t)[name].auto = Required[name].auto
        /\ DOMAIN Create(t)[name].indexes = DOMAIN Required[name].indexes \ IndexNames(t)
        /\ \A index \in DOMAIN Required[name].indexes \ IndexNames(t) :
              Create(t)[name].indexes[index] = Required[name].indexes[index]
    BY <1>3, CreatedNew
  <2>3. DOMAIN Create(t)[name].indexes = DOMAIN Required[name].indexes
    BY <2>1, <2>2
  <2>4. PartOf(Create(t)[name], name)
    BY <2>1, <2>2, <2>3 DEF PartOf
  <2> QED
    BY <1>3, <2>2, <2>3, <2>4, IsTwin
<1> QED
  BY <1>2, <1>3

LEMMA RecordedNotTaken ==
    ASSUME NEW t, ~Obstructed(t)
    PROVE  ~Taken(Recorded(t))
<1> SUFFICES ASSUME NEW name \in DOMAIN Recorded(t), NEW index \in LaterIndexes \cup {SlugIndex},
                    index \in DOMAIN Recorded(t)[name].indexes,
                    Recorded(t)[name].indexes[index] = <<"changed">>
             PROVE  FALSE
  BY DEF Taken
<1>1. CASE name \in DOMAIN t
  <2>1. Recorded(t)[name] = t[name]
    BY <1>1, RecordedIs
  <2> QED
    BY <1>1, <2>1 DEF Obstructed
<1>2. CASE name \notin DOMAIN t
  <2>1. DOMAIN Recorded(t) = DOMAIN t \cup {"schema_migrations"}
    BY RecordedIs
  <2>2. name = "schema_migrations"
    BY <1>2, <2>1
  <2>3. Recorded(t)["schema_migrations"] = MigrationTable
    BY <1>2, <2>2, RecordedIs
  <2> QED
    BY <2>2, <2>3, IndexesAssumption
<1> QED
  BY <1>1, <1>2

\* The keys of a table of which nothing else may differ.
KeysLeft(t, name) ==
    IF t = V1WithoutParentKey /\ name = "comments"
    THEN Required[name].keys \ {ParentKey} ELSE Required[name].keys

LEMMA OriginalsBaseline ==
    ASSUME NEW t \in Originals, NEW name \in Names
    PROVE  Baseline(t, FALSE)[name] = Twin(name, KeysLeft(t, name))
<1> DEFINE r == Recorded(t)
           before == IF Inspect(r, FALSE) = "early" THEN Altered(r) ELSE r
<1>1. Sane(t) /\ ~Obstructed(t)
  BY FreshOriginal, EarlyOriginal, V1Original, V1WithoutParentKeyOriginal DEF Originals
<1>2. Sane(r) /\ ~Taken(r)
  BY <1>1, RecordedSane, RecordedNotTaken
<1>3. Baseline(t, FALSE) = Create(before)
  BY DEF Baseline
<1>4. DOMAIN r = DOMAIN t \cup {"schema_migrations"} /\ (name \in DOMAIN r <=> name \in DOMAIN t)
      /\ (name \in DOMAIN t => r[name] = t[name])
  BY RecordedIs
<1>5. \A other \in DOMAIN r : IsTable(r[other])
  BY <1>2 DEF Sane
<1> HIDE DEF r
<1>6. /\ Sane(before) /\ ~Taken(before)
      /\ name \in DOMAIN before =>
            PartOf(before[name], name) /\ before[name].keys = KeysLeft(t, name)
      /\ name \notin DOMAIN before => KeysLeft(t, name) = Required[name].keys
  <2>1. CASE t = Fresh
    <3>1. DOMAIN r = {"schema_migrations"}
      BY <1>4, <2>1, FreshOriginal
    <3>2. ~EarlyShape(r)
      BY <3>1, SchemaAssumption DEF EarlyShape
    <3>3. before = r
      BY <3>2, InspectIs
    <3>4. name \notin DOMAIN r
      BY <3>1, RequiredKnown
    <3>5. t # V1WithoutParentKey
      BY <2>1, FreshOriginal, V1WithoutParentKeyOriginal
    <3> QED
      BY <1>2, <3>3, <3>4, <3>5 DEF KeysLeft
  <2>2. CASE t = Early
    <3>1. Inspect(r, FALSE) = "early" /\ DOMAIN t # {}
      BY <2>2, EarlyOriginal, RecordedInspected, SchemaAssumption DEF r
    <3>2. before = Altered(r)
      BY <3>1
    <3>3. EarlyShape(r)
      BY <3>1, InspectIs
    <3>4. Sane(Altered(r)) /\ ~Taken(Altered(r)) /\ DOMAIN Altered(r) = DOMAIN r
      BY <1>2, <3>3, AlteredSane, AlteredReady
    <3>5. t # V1WithoutParentKey
      BY <2>2, EarlyOriginal, V1WithoutParentKeyOriginal
    <3>6. KeysLeft(t, name) = Required[name].keys
      BY <3>5 DEF KeysLeft
    <3>7. ASSUME name \in DOMAIN r
          PROVE  PartOf(Altered(r)[name], name) /\ Altered(r)[name].keys = Required[name].keys
      <4>1. name \in DOMAIN EarlyColumns
        <5>1. name \in DOMAIN t
          BY <1>4, <3>7
        <5> QED
          BY <2>2, <5>1, EarlyOriginal
      <4>2. r[name] = Early[name]
        BY <1>4, <2>2, <3>7
      <4>3. /\ Altered(r)[name].columns = r[name].columns \o AddedColumns[name]
            /\ Altered(r)[name].keys = r[name].keys
            /\ Altered(r)[name].unique = r[name].unique
            /\ Altered(r)[name].indexes = r[name].indexes
            /\ Altered(r)[name].auto = r[name].auto
        BY <1>5, <3>7, <4>1, AlteredIs
      <4>4. /\ Early[name].columns = EarlyColumns[name]
            /\ Early[name].keys = Required[name].keys /\ Early[name].unique = Required[name].unique
            /\ Early[name].auto = Required[name].auto
            /\ DOMAIN Early[name].indexes = DOMAIN Required[name].indexes \ LaterIndexes
            /\ \A index \in DOMAIN Early[name].indexes :
                Early[name].indexes[index] = Required[name].indexes[index]
        BY <4>1, EarlyOriginal
      <4>5. EarlyColumns[name] \o AddedColumns[name] = Required[name].columns
        BY <4>1, ColumnsAssumption
      <4>6. Altered(r)[name].columns = Required[name].columns
        BY <4>2, <4>3, <4>4, <4>5
      <4> QED
        BY <4>2, <4>3, <4>4, <4>6 DEF PartOf
    <3> QED
      BY <3>2, <3>4, <3>6, <3>7
  <2>3. CASE t = V1 \/ t = V1WithoutParentKey
    <3>1. Complete(t) /\ Inspect(t, FALSE) = "v1"
      BY <2>3, V1Original, V1WithoutParentKeyOriginal
    <3>2. name \in DOMAIN t
      BY <3>1 DEF Complete
    <3>3. Inspect(r, FALSE) = "v1"
      BY <3>1, <3>2, RecordedInspected DEF r
    <3>4. before = r
      BY <3>3
    <3>5. PartOf(t[name], name)
      <4>1. CASE t = V1
        BY <4>1, V1Original DEF PartOf
      <4>2. CASE t = V1WithoutParentKey
        BY <4>2, V1WithoutParentKeyOriginal DEF PartOf
      <4> QED
        BY <2>3, <4>1, <4>2
    <3>6. t[name].keys = KeysLeft(t, name)
      <4>1. CASE t = V1WithoutParentKey
        BY <4>1, V1WithoutParentKeyOriginal DEF KeysLeft
      <4>2. CASE t # V1WithoutParentKey
        BY <2>3, <4>2, V1Original DEF KeysLeft
      <4> QED
        BY <4>1, <4>2
    <3> QED
      BY <1>2, <1>4, <3>2, <3>4, <3>5, <3>6
  <2> QED
    BY <2>1, <2>2, <2>3 DEF Originals
<1> HIDE DEF before
<1>7. Create(before)[name] =
        Twin(name, IF name \in DOMAIN before THEN before[name].keys ELSE Required[name].keys)
  BY <1>6, CreatedAsRequired
<1> QED
  BY <1>3, <1>6, <1>7

(***************************************************************************)
(* What a start makes of an original database differs from what it makes   *)
(* of a new one in the key of parent_id at most.                           *)
(***************************************************************************)
LEMMA OriginalsFinal ==
    ASSUME NEW t \in Originals, NEW name \in DOMAIN Final
    PROVE  LET made == Migrated(t, FALSE, 0)
           IN  \/ made[name] = Final[name]
               \/ [made[name] EXCEPT !.keys = @ \cup {ParentKey}] = Final[name]
<1> DEFINE final(u) == Migrated(u, FALSE, 0)
           base(u) == Baseline(u, FALSE)
<1>1. Fresh \in Originals
  BY DEF Originals
<1>2. ASSUME NEW u \in Originals
      PROVE  /\ final(u) = AddSlugColumn(base(u)) /\ final(u) # Failed
             /\ Sane(final(u)) /\ Sane(base(u)) /\ "posts" \in DOMAIN base(u)
             /\ StateReadable(final(u))
             /\ DOMAIN base(u) = Names \cup {"schema_migrations"}
  <2>1. Sane(u) /\ final(u) # Failed
    BY OriginalsMigrate
  <2>2. DOMAIN base(u) = Names \cup {"schema_migrations"}
    <3>1. DOMAIN u \subseteq Names
      BY FreshOriginal, EarlyOriginal, V1Original, V1WithoutParentKeyOriginal, SchemaAssumption
         DEF Originals, Names
    <3>2. DOMAIN Recorded(u) = DOMAIN u \cup {"schema_migrations"}
      BY RecordedIs
    <3>3. DOMAIN Altered(Recorded(u)) = DOMAIN Recorded(u)
      BY DEF Altered
    <3>4. \A v : DOMAIN Create(v) = Names \cup DOMAIN v
      BY DEF Create
    <3> QED
      BY <3>1, <3>2, <3>3, <3>4 DEF Baseline
  <2> QED
    BY <2>1, <2>2, MigratedSane, BaselineSane
<1>3. ASSUME NEW u \in Originals
      PROVE  /\ DOMAIN final(u) = Names \cup {"schema_migrations"}
             /\ \A other \in Names \ {"posts"} : final(u)[other] = base(u)[other]
             /\ IsTable(final(u)["posts"])
             /\ final(u)["posts"].columns = Append(base(u)["posts"].columns, "slug")
             /\ final(u)["posts"].keys = base(u)["posts"].keys
             /\ final(u)["posts"].unique = base(u)["posts"].unique
             /\ final(u)["posts"].auto = base(u)["posts"].auto
             /\ DOMAIN final(u)["posts"].indexes = DOMAIN base(u)["posts"].indexes \cup {SlugIndex}
             /\ final(u)["posts"].indexes[SlugIndex] = <<"unique", "slug">>
             /\ \A index \in DOMAIN base(u)["posts"].indexes :
                    final(u)["posts"].indexes[index] = base(u)["posts"].indexes[index]
  <2> DEFINE v == base(u)
  <2>1. AddSlugColumn(v) # Failed /\ Sane(v) /\ "posts" \in DOMAIN v
    BY <1>2
  <2> HIDE DEF v
  <2>2. /\ DOMAIN AddSlugColumn(v) = DOMAIN v
        /\ \A other \in DOMAIN v \ {"posts"} : AddSlugColumn(v)[other] = v[other]
        /\ IsTable(AddSlugColumn(v)["posts"])
        /\ AddSlugColumn(v)["posts"].columns = Append(v["posts"].columns, "slug")
        /\ AddSlugColumn(v)["posts"].keys = v["posts"].keys
        /\ AddSlugColumn(v)["posts"].unique = v["posts"].unique
        /\ AddSlugColumn(v)["posts"].auto = v["posts"].auto
        /\ DOMAIN AddSlugColumn(v)["posts"].indexes = DOMAIN v["posts"].indexes \cup {SlugIndex}
        /\ AddSlugColumn(v)["posts"].indexes[SlugIndex] = <<"unique", "slug">>
        /\ \A index \in DOMAIN v["posts"].indexes :
              AddSlugColumn(v)["posts"].indexes[index] = v["posts"].indexes[index]
    BY <2>1, SlugAdded
  <2>3. final(u) = AddSlugColumn(v) /\ DOMAIN v = Names \cup {"schema_migrations"}
    BY <1>2 DEF v
  <2> HIDE DEF final
  <2> QED
    BY <2>2, <2>3 DEF v
<1>4. ASSUME NEW u \in Originals, NEW other \in Names
      PROVE  base(u)[other] = Twin(other, KeysLeft(u, other))
  BY <1>4, OriginalsBaseline
<1>5. Final = final(Fresh)
  BY DEF Final
<1>6. /\ "schema_migrations" \in DOMAIN final(t) /\ StateReadable(final(t))
      /\ "schema_migrations" \in DOMAIN final(Fresh) /\ StateReadable(final(Fresh))
  BY <1>1, <1>2, <1>3
<1> HIDE DEF final, base
<1>7. CASE name = "schema_migrations"
  BY <1>5, <1>6, <1>7 DEF StateReadable, final
<1>8. CASE name = "posts"
  <2>1. "posts" \in Names /\ KeysLeft(t, "posts") = KeysLeft(Fresh, "posts")
    BY SchemaAssumption, FreshOriginal, V1WithoutParentKeyOriginal DEF Names, KeysLeft
  <2>2. base(t)["posts"] = base(Fresh)["posts"]
    BY <1>1, <1>4, <2>1
  <2> DEFINE a == final(t)["posts"]
             b == final(Fresh)["posts"]
             c == base(Fresh)["posts"]
  <2>3. /\ IsTable(a) /\ a.columns = Append(c.columns, "slug") /\ a.keys = c.keys
        /\ a.unique = c.unique /\ a.auto = c.auto
        /\ DOMAIN a.indexes = DOMAIN c.indexes \cup {SlugIndex}
        /\ a.indexes[SlugIndex] = <<"unique", "slug">>
        /\ \A index \in DOMAIN c.indexes : a.indexes[index] = c.indexes[index]
    BY <1>3, <2>2
  <2>4. /\ IsTable(b) /\ b.columns = Append(c.columns, "slug") /\ b.keys = c.keys
        /\ b.unique = c.unique /\ b.auto = c.auto
        /\ DOMAIN b.indexes = DOMAIN c.indexes \cup {SlugIndex}
        /\ b.indexes[SlugIndex] = <<"unique", "slug">>
        /\ \A index \in DOMAIN c.indexes : b.indexes[index] = c.indexes[index]
    BY <1>1, <1>3
  <2> HIDE DEF a, b, c
  <2>5. \A index \in DOMAIN a.indexes : a.indexes[index] = b.indexes[index]
    BY <2>3, <2>4
  <2>6. a = b
    BY <2>3, <2>4, <2>5, SameTable
  <2> QED
    BY <1>5, <1>8, <2>6 DEF final, a, b
<1>9. CASE name \in Names \ {"posts"}
  <2>1. final(t)[name] = base(t)[name] /\ final(Fresh)[name] = base(Fresh)[name]
    BY <1>1, <1>3, <1>9
  <2>2. base(t)[name] = Twin(name, KeysLeft(t, name))
    BY <1>4, <1>9
  <2>3. KeysLeft(Fresh, name) = Required[name].keys
    BY FreshOriginal, V1WithoutParentKeyOriginal, SchemaAssumption DEF KeysLeft, Names
  <2>4. base(Fresh)[name] = Twin(name, Required[name].keys)
    BY <1>1, <1>4, <1>9, <2>3
  <2>5. CASE t = V1WithoutParentKey /\ name = "comments"
    <3>1. KeysLeft(t, name) \cup {ParentKey} = Required[name].keys
      BY <2>5, KeysAssumption DEF KeysLeft
    <3>2. [Twin(name, KeysLeft(t, name)) EXCEPT !.keys = @ \cup {ParentKey}]
            = Twin(name, KeysLeft(t, name) \cup {ParentKey})
      BY DEF Twin
    <3> QED
      BY <1>5, <2>1, <2>2, <2>4, <3>1, <3>2 DEF final
  <2>6. CASE ~(t = V1WithoutParentKey /\ name = "comments")
    <3>1. KeysLeft(t, name) = Required[name].keys
      BY <2>6 DEF KeysLeft
    <3> QED
      BY <1>5, <2>1, <2>2, <2>4, <3>1 DEF final
  <2> QED
    BY <2>5, <2>6
<1>10. DOMAIN Final = Names \cup {"schema_migrations"}
  BY <1>1, <1>3, <1>5
<1> QED
  BY <1>7, <1>8, <1>9, <1>10
-----------------------------------------------------------------------------
(***************************************************************************)
(* What is changed from outside leaves sane tables.                        *)
(***************************************************************************)
LEMMA SaneUpdate ==
    ASSUME NEW t, Sane(t), NEW name \in DOMAIN t, NEW new, IsTable(new),
           Len(new.columns) >= Len(t[name].columns),
           \A index \in DOMAIN new.indexes :
            \/ /\ index \in DOMAIN t[name].indexes
               /\ new.indexes[index] \in {<<"changed">>, t[name].indexes[index]}
            \/ index \in LaterIndexes \cup {SlugIndex} /\ new.indexes[index] = <<"changed">>
    PROVE  Sane([t EXCEPT ![name] = new])
<1> DEFINE u == [t EXCEPT ![name] = new]
<1>1. /\ t = [other \in DOMAIN t |-> t[other]]
      /\ \A other \in DOMAIN t :
            IsTable(t[other]) /\ \A index \in DOMAIN t[other].indexes : IndexKnown(t, other, index)
  BY DEF Sane
<1>2. u = [other \in DOMAIN u |-> u[other]] /\ DOMAIN u = DOMAIN t
      /\ u[name] = new /\ \A other \in DOMAIN t \ {name} : u[other] = t[other]
  BY <1>1
<1> HIDE DEF u
<1>3. ASSUME NEW other \in DOMAIN t \ {name}, NEW index \in DOMAIN u[other].indexes
      PROVE  IndexKnown(u, other, index)
  <2>1. u[other] = t[other] /\ IndexKnown(t, other, index)
    BY <1>1, <1>2, <1>3
  <2> QED
    BY <2>1 DEF IndexKnown
<1>4. ASSUME NEW index \in DOMAIN new.indexes
      PROVE  IndexKnown(u, name, index)
  <2>1. CASE index \in LaterIndexes \cup {SlugIndex} /\ new.indexes[index] = <<"changed">>
    BY <1>2, <2>1 DEF IndexKnown
  <2>2. CASE /\ index \in DOMAIN t[name].indexes
             /\ new.indexes[index] \in {<<"changed">>, t[name].indexes[index]}
    <3>1. IndexKnown(t, name, index)
      BY <1>1, <2>2
    <3>2. CASE new.indexes[index] = <<"changed">>
      BY <1>2, <3>1, <3>2 DEF IndexKnown
    <3>3. CASE new.indexes[index] = t[name].indexes[index]
      <4>1. /\ IsTable(t[name])
            /\ Len(new.columns) \in Nat /\ Len(t[name].columns) \in Nat
        BY <1>1 DEF IsTable
      <4>2. name = "posts" => name \in Names
        BY SchemaAssumption DEF Names
      <4>3. name = "posts" => Len(Required[name].columns) \in Nat
        BY <4>2, RequiredKnown DEF IsTable
      <4>4. name = "posts" /\ Len(t["posts"].columns) > Len(Required["posts"].columns)
              => Len(u["posts"].columns) > Len(Required["posts"].columns)
        BY <1>2, <4>1, <4>3
      <4> QED
        BY <1>2, <3>1, <3>3, <4>4 DEF IndexKnown
    <3> QED
      BY <2>2, <3>2, <3>3
  <2> QED
    BY <2>1, <2>2
<1>5. \A other \in DOMAIN u : IsTable(u[other])
  BY <1>1, <1>2
<1>6. \A other \in DOMAIN u : \A index \in DOMAIN u[other].indexes : IndexKnown(u, other, index)
  BY <1>2, <1>3, <1>4
<1>7. Sane(u)
  BY <1>2, <1>5, <1>6 DEF Sane
<1> QED
  BY <1>7 DEF u

LEMMA Edited ==
    ASSUME NEW t, Sane(t), NEW name \in DOMAIN t
    PROVE  /\ \A columns \in Seq(Columns) : Len(columns) >= Len(t[name].columns) =>
                    Sane([t EXCEPT ![name].columns = columns])
           /\ \A keys : Sane([t EXCEPT ![name].keys = keys])
           /\ \A unique : Sane([t EXCEPT ![name].unique = unique])
           /\ \A auto : Sane([t EXCEPT ![name].auto = auto])
           /\ \A indexes :
                /\ indexes = [index \in DOMAIN indexes |-> indexes[index]]
                /\ \A index \in DOMAIN indexes :
                    \/ /\ index \in DOMAIN t[name].indexes
                       /\ indexes[index] \in {<<"changed">>, t[name].indexes[index]}
                    \/ /\ index \in LaterIndexes \cup {SlugIndex}
                       /\ indexes[index] = <<"changed">>
                => Sane([t EXCEPT ![name].indexes = indexes])
<1> DEFINE old == t[name]
           Of(columns, keys, unique, indexes, auto) ==
                [columns |-> columns, keys |-> keys, unique |-> unique,
                 indexes |-> indexes, auto |-> auto]
<1>1. IsTable(old)
  BY DEF Sane
<1>2. /\ old = Of(old.columns, old.keys, old.unique, old.indexes, old.auto)
      /\ old.columns \in Seq(Columns) /\ Len(old.columns) \in Nat
      /\ old.indexes = [index \in DOMAIN old.indexes |-> old.indexes[index]]
  BY <1>1 DEF IsTable
<1>3. ASSUME NEW columns \in Seq(Columns), Len(columns) >= Len(old.columns)
      PROVE  Sane([t EXCEPT ![name].columns = columns])
  <2> DEFINE new == Of(columns, old.keys, old.unique, old.indexes, old.auto)
  <2>1. IsTable(new) /\ new.columns = columns /\ new.indexes = old.indexes
    BY <1>2 DEF IsTable
  <2>2. [old EXCEPT !.columns = columns] = new
    BY <1>2
  <2> HIDE DEF new
  <2>3. Sane([t EXCEPT ![name] = new])
    BY <1>3, <2>1, SaneUpdate
  <2> QED
    BY <2>2, <2>3
<1>4. ASSUME NEW keys
      PROVE  Sane([t EXCEPT ![name].keys = keys])
  <2> DEFINE new == Of(old.columns, keys, old.unique, old.indexes, old.auto)
  <2>1. IsTable(new) /\ new.columns = old.columns /\ new.indexes = old.indexes
    BY <1>2 DEF IsTable
  <2>2. [old EXCEPT !.keys = keys] = new
    BY <1>2
  <2> HIDE DEF new
  <2>3. Sane([t EXCEPT ![name] = new])
    BY <1>2, <2>1, SaneUpdate
  <2> QED
    BY <2>2, <2>3
<1>5. ASSUME NEW unique
      PROVE  Sane([t EXCEPT ![name].unique = unique])
  <2> DEFINE new == Of(old.columns, old.keys, unique, old.indexes, old.auto)
  <2>1. IsTable(new) /\ new.columns = old.columns /\ new.indexes = old.indexes
    BY <1>2 DEF IsTable
  <2>2. [old EXCEPT !.unique = unique] = new
    BY <1>2
  <2> HIDE DEF new
  <2>3. Sane([t EXCEPT ![name] = new])
    BY <1>2, <2>1, SaneUpdate
  <2> QED
    BY <2>2, <2>3
<1>6. ASSUME NEW auto
      PROVE  Sane([t EXCEPT ![name].auto = auto])
  <2> DEFINE new == Of(old.columns, old.keys, old.unique, old.indexes, auto)
  <2>1. IsTable(new) /\ new.columns = old.columns /\ new.indexes = old.indexes
    BY <1>2 DEF IsTable
  <2>2. [old EXCEPT !.auto = auto] = new
    BY <1>2
  <2> HIDE DEF new
  <2>3. Sane([t EXCEPT ![name] = new])
    BY <1>2, <2>1, SaneUpdate
  <2> QED
    BY <2>2, <2>3
<1>7. ASSUME NEW indexes, indexes = [index \in DOMAIN indexes |-> indexes[index]],
             \A index \in DOMAIN indexes :
                \/ /\ index \in DOMAIN old.indexes
                   /\ indexes[index] \in {<<"changed">>, old.indexes[index]}
                \/ index \in LaterIndexes \cup {SlugIndex} /\ indexes[index] = <<"changed">>
      PROVE  Sane([t EXCEPT ![name].indexes = indexes])
  <2> DEFINE new == Of(old.columns, old.keys, old.unique, indexes, old.auto)
  <2>1. new.columns = old.columns /\ new.indexes = indexes
    OBVIOUS
  <2>2. IsTable(new)
    BY <1>2, <1>7 DEF IsTable
  <2>3. [old EXCEPT !.indexes = indexes] = new
    BY <1>2
  <2> HIDE DEF new
  <2>4. Sane([t EXCEPT ![name] = new])
    BY <1>2, <1>7, <2>1, <2>2, SaneUpdate
  <2> QED
    BY <2>3, <2>4
<1> QED
  BY <1>3, <1>4, <1>5, <1>6, <1>7
LEMMA ColumnAddedSane ==
    ASSUME Sane(tables), NEW name \in DOMAIN tables, AddColumn(name)
    PROVE  Sane(tables')
<1> DEFINE columns == Append(tables[name].columns, "extra")
<1>1. tables[name].columns \in Seq(Columns)
  BY DEF Sane, IsTable
<1>2. columns \in Seq(Columns)
  BY <1>1, Appended, ColumnsKnown
<1>3. Len(columns) >= Len(tables[name].columns)
  BY <1>1
<1>4. tables' = [tables EXCEPT ![name].columns = columns]
  BY DEF AddColumn
<1> HIDE DEF columns
<1> QED
  BY <1>2, <1>3, <1>4, Edited

LEMMA TableAddedSane ==
    ASSUME Sane(tables), AddTable
    PROVE  Sane(tables')
<1>1. tables' = Having(tables, "drafts", MigrationTable) /\ "drafts" \notin DOMAIN tables
  BY DEF AddTable
<1>2. /\ tables' = [name \in DOMAIN tables' |-> tables'[name]]
      /\ DOMAIN tables' = DOMAIN tables \cup {"drafts"}
      /\ \A name \in DOMAIN tables : tables'[name] = tables[name]
      /\ tables'["drafts"] = MigrationTable
  BY <1>1 DEF Having
<1>3. ASSUME NEW name \in DOMAIN tables
      PROVE  IsTable(tables'[name]) /\ \A index \in DOMAIN tables'[name].indexes :
                                            IndexKnown(tables', name, index)
  BY <1>2 DEF Sane, IndexKnown
<1>4. IsTable(MigrationTable) /\ DOMAIN MigrationTable.indexes = {}
  BY IndexesAssumption
<1> QED
  BY <1>2, <1>3, <1>4 DEF Sane

LEMMA DroppedSane ==
    ASSUME Sane(tables), NEW name \in DOMAIN tables, Drop(name)
    PROVE  Sane(tables')
<1>1. /\ tables' = [other \in DOMAIN tables' |-> tables'[other]]
      /\ DOMAIN tables' \subseteq DOMAIN tables
      /\ \A other \in DOMAIN tables' : tables'[other] = tables[other]
  BY DEF Drop
<1> QED
  BY <1>1 DEF Sane, IndexKnown

LEMMA Replaced ==
    ASSUME NEW S, NEW s \in Seq(S), NEW i \in DOMAIN s, NEW x \in S
    PROVE  [s EXCEPT ![i] = x] \in Seq(S) /\ Len([s EXCEPT ![i] = x]) = Len(s) /\ Len(s) \in Nat
  OBVIOUS

LEMMA DamagedSane ==
    ASSUME Sane(tables), NEW name \in DOMAIN tables, Damage(name)
    PROVE  Sane(tables')
<1>1. ASSUME NEW i \in DOMAIN tables[name].columns,
             tables' = [tables EXCEPT ![name].columns[i] = "changed"]
      PROVE  Sane(tables')
  <2> DEFINE old == tables[name].columns
             columns == [old EXCEPT ![i] = "changed"]
  <2>1. old \in Seq(Columns)
    BY DEF Sane, IsTable
  <2>2. columns \in Seq(Columns) /\ Len(columns) >= Len(old)
    <3>1. i \in DOMAIN old
      BY <1>1
    <3> HIDE DEF old
    <3>2. columns \in Seq(Columns) /\ Len(columns) = Len(old) /\ Len(old) \in Nat
      BY <2>1, <3>1, Replaced, ColumnsKnown
    <3> QED
      BY <3>2
  <2>3. tables' = [tables EXCEPT ![name].columns = columns]
    BY <1>1
  <2> HIDE DEF columns
  <2> QED
    BY <2>2, <2>3, Edited
<1>2. ASSUME NEW keys, tables' = [tables EXCEPT ![name].keys = keys]
      PROVE  Sane(tables')
  BY <1>2, Edited
<1>3. ASSUME NEW key \in tables[name].keys,
             \/ tables' = [tables EXCEPT ![name].keys = @ \ {key}]
             \/ tables' = [tables EXCEPT ![name].keys
                             = (@ \ {key}) \cup {[key EXCEPT !.delete = "none"]}]
      PROVE  Sane(tables')
  <2>1. CASE tables' = [tables EXCEPT ![name].keys = @ \ {key}]
    <3> DEFINE keys == tables[name].keys \ {key}
    <3>1. tables' = [tables EXCEPT ![name].keys = keys]
      BY <2>1
    <3> HIDE DEF keys
    <3> QED
      BY <1>2, <3>1
  <2>2. CASE tables' = [tables EXCEPT ![name].keys
                          = (@ \ {key}) \cup {[key EXCEPT !.delete = "none"]}]
    <3> DEFINE keys == (tables[name].keys \ {key}) \cup {[key EXCEPT !.delete = "none"]}
    <3>1. tables' = [tables EXCEPT ![name].keys = keys]
      BY <2>2
    <3> HIDE DEF keys
    <3> QED
      BY <1>2, <3>1
  <2> QED
    BY <1>3, <2>1, <2>2
<1>4. ASSUME tables' = [tables EXCEPT ![name].unique = {}]
      PROVE  Sane(tables')
  BY <1>4, Edited
<1>5. ASSUME NEW index \in DOMAIN tables[name].indexes,
             tables' = [tables EXCEPT ![name].indexes[index] = <<"changed">>]
      PROVE  Sane(tables')
  <2> DEFINE old == tables[name].indexes
             indexes == [old EXCEPT ![index] = <<"changed">>]
  <2>1. /\ indexes = [other \in DOMAIN indexes |-> indexes[other]]
        /\ DOMAIN indexes = DOMAIN old
        /\ \A other \in DOMAIN old : indexes[other] \in {<<"changed">>, old[other]}
    <3> HIDE DEF old
    <3> QED
      BY <1>5
  <2>2. tables' = [tables EXCEPT ![name].indexes = indexes]
    BY <1>5
  <2> HIDE DEF indexes
  <2> QED
    BY <2>1, <2>2, Edited
<1>6. ASSUME tables' = [tables EXCEPT ![name].auto = FALSE]
      PROVE  Sane(tables')
  BY <1>6, Edited
<1> QED
  BY <1>1, <1>3, <1>4, <1>5, <1>6 DEF Damage

LEMMA TakenSane ==
    ASSUME Sane(tables), NEW name \in DOMAIN tables, TakeName(name)
    PROVE  Sane(tables')
<1>1. PICK index \in LaterIndexes \cup {SlugIndex} :
        tables' = [tables EXCEPT ![name].indexes = Having(@, index, <<"changed">>)]
  BY DEF TakeName
<1> DEFINE old == tables[name].indexes
           indexes == Having(old, index, <<"changed">>)
<1>2. /\ indexes = [other \in DOMAIN indexes |-> indexes[other]]
      /\ \A other \in DOMAIN indexes :
            \/ other \in DOMAIN old /\ indexes[other] \in {<<"changed">>, old[other]}
            \/ other \in LaterIndexes \cup {SlugIndex} /\ indexes[other] = <<"changed">>
  <2> HIDE DEF old
  <2> QED
    BY DEF Having
<1>3. tables' = [tables EXCEPT ![name].indexes = indexes]
  BY <1>1
<1> HIDE DEF indexes
<1> QED
  BY <1>2, <1>3, Edited
-----------------------------------------------------------------------------
(***************************************************************************)
(* What is added to a served database leaves one that is served.           *)
(***************************************************************************)
LEMMA ServedIs ==
    ASSUME NEW t, NEW other
    PROVE  Served(t, other) <=>
             /\ Complete(t) /\ StateReadable(t)
             /\ SlugFollows(t["posts"].columns)
             /\ SlugIndex \in DOMAIN t["posts"].indexes
             /\ t["posts"].indexes[SlugIndex] = <<"unique", "slug">>
<1>1. "posts" \in Names
  BY SchemaAssumption DEF Names
<1>2. Complete(t) => DOMAIN t # {}
  BY <1>1 DEF Complete
<1>3. Inspect(t, other) = "v1" <=> Complete(t)
  BY <1>2, InspectIs
<1> QED
  BY <1>3 DEF Served, ValidSchema

LEMMA PrefixGrows ==
    ASSUME NEW S, NEW s \in Seq(S), NEW u \in Seq(S), IsPrefix(s, u), NEW x \in S
    PROVE  IsPrefix(s, Append(u, x)) /\ IsStrictPrefix(s, Append(u, x))
<1>1. Len(s) <= Len(u) /\ SubSeq(s, 1, Len(s)) = SubSeq(u, 1, Len(s))
  BY DEF IsPrefix
<1>2. Append(u, x) \in Seq(S) /\ Len(Append(u, x)) = Len(u) + 1
  OBVIOUS
<1>3. Len(s) \in Nat /\ Len(u) \in Nat
  OBVIOUS
<1>4. SubSeq(Append(u, x), 1, Len(s)) = SubSeq(u, 1, Len(s))
  BY <1>1, <1>3
<1>5. IsPrefix(s, Append(u, x))
  BY <1>1, <1>2, <1>3, <1>4 DEF IsPrefix
<1>6. s # Append(u, x)
  BY <1>1, <1>2, <1>3
<1> QED
  BY <1>5, <1>6 DEF IsStrictPrefix

LEMMA PrefixItself ==
    ASSUME NEW S, NEW s \in Seq(S)
    PROVE  IsPrefix(s, s)
  BY DEF IsPrefix

LEMMA ColumnAddedServed ==
    ASSUME NEW t, Sane(t), NEW other, Served(t, other), NEW name \in Names \cap DOMAIN t
    PROVE  Served([t EXCEPT ![name].columns = Append(t[name].columns, "extra")], other)
<1> DEFINE columns == Append(t[name].columns, "extra")
           u == [t EXCEPT ![name].columns = columns]
<1>1. /\ Complete(t) /\ StateReadable(t) /\ SlugFollows(t["posts"].columns)
      /\ SlugIndex \in DOMAIN t["posts"].indexes
      /\ t["posts"].indexes[SlugIndex] = <<"unique", "slug">>
  BY ServedIs
<1>2. /\ t = [table \in DOMAIN t |-> t[table]] /\ IsTable(t[name])
      /\ t[name].columns \in Seq(Columns)
  BY DEF Sane, IsTable
<1>3. /\ DOMAIN u = DOMAIN t /\ \A table \in DOMAIN t \ {name} : u[table] = t[table]
      /\ u[name].columns = columns /\ u[name].keys = t[name].keys
      /\ u[name].unique = t[name].unique /\ u[name].indexes = t[name].indexes
      /\ u[name].auto = t[name].auto
  BY <1>2 DEF IsTable
<1>4. /\ IsTable(Required[name]) /\ Required[name].columns \in Seq(Columns)
  BY RequiredKnown DEF IsTable
<1>5. "extra" \in Columns /\ "slug" \in Columns
  BY ColumnsKnown
<1>6. /\ Fits(t[name], Required[name], Required[name].columns, FALSE)
      /\ Required[name].auto => t[name].auto
  BY <1>1 DEF Complete
<1>7. ColumnsFit(columns, Required[name].columns, FALSE)
  <2>1. IsPrefix(Required[name].columns, t[name].columns)
    BY <1>4, <1>6, PrefixItself DEF Fits, ColumnsFit, IsStrictPrefix
  <2>2. IsStrictPrefix(Required[name].columns, columns)
    BY <1>2, <1>4, <1>5, <2>1, PrefixGrows
  <2> QED
    BY <2>2 DEF ColumnsFit
<1>8. SlugFollows(t["posts"].columns) /\ name = "posts" => SlugFollows(columns)
  <2>1. Append(Required[name].columns, "slug") \in Seq(Columns)
    BY <1>4, <1>5, Appended
  <2> QED
    BY <1>2, <1>5, <2>1, PrefixGrows DEF SlugFollows
<1> HIDE DEF u, columns
<1>9. Fits(u[name], Required[name], Required[name].columns, FALSE)
  BY <1>3, <1>6, <1>7 DEF Fits
<1>10. Complete(u)
  <2> SUFFICES ASSUME NEW table \in Names
               PROVE  /\ table \in DOMAIN u
                      /\ Fits(u[table], Required[table], Required[table].columns, FALSE)
                      /\ Required[table].auto => u[table].auto
    BY DEF Complete
  <2>1. CASE table = name
    BY <1>3, <1>6, <1>9, <2>1
  <2>2. CASE table # name
    BY <1>1, <1>3, <2>2 DEF Complete
  <2> QED
    BY <2>1, <2>2
<1>11. StateReadable(u)
  BY <1>1, <1>3, RequiredKnown DEF StateReadable
<1>12. "posts" \in DOMAIN t
  BY <1>1, SchemaAssumption DEF Complete, Names
<1>13. /\ SlugFollows(u["posts"].columns) /\ u["posts"].indexes = t["posts"].indexes
  <2>1. CASE name = "posts"
    BY <1>1, <1>3, <1>8, <2>1
  <2>2. CASE name # "posts"
    BY <1>1, <1>3, <1>12, <2>2
  <2> QED
    BY <2>1, <2>2
<1>14. Served(u, other)
  BY <1>1, <1>10, <1>11, <1>13, ServedIs
<1> QED
  BY <1>14 DEF u, columns

LEMMA TableAddedServed ==
    ASSUME NEW t, NEW other, Served(t, other), "drafts" \notin DOMAIN t
    PROVE  Served(Having(t, "drafts", MigrationTable), other)
<1> DEFINE u == Having(t, "drafts", MigrationTable)
<1>1. /\ Complete(t) /\ StateReadable(t) /\ SlugFollows(t["posts"].columns)
      /\ SlugIndex \in DOMAIN t["posts"].indexes
      /\ t["posts"].indexes[SlugIndex] = <<"unique", "slug">>
  BY ServedIs
<1>2. DOMAIN u = DOMAIN t \cup {"drafts"} /\ \A name \in DOMAIN t : u[name] = t[name]
  BY DEF Having
<1> HIDE DEF u
<1>3. "posts" \in DOMAIN t
  BY <1>1, SchemaAssumption DEF Complete, Names
<1>4. Complete(u) /\ u["posts"] = t["posts"]
  BY <1>1, <1>2, <1>3 DEF Complete
<1>5. StateReadable(u)
  BY <1>1, <1>2 DEF StateReadable
<1>6. Served(u, other)
  BY <1>1, <1>4, <1>5, ServedIs
<1> QED
  BY <1>6 DEF u
-----------------------------------------------------------------------------
\* A start on tables that both migrations made leaves them, or is refused.
LEMMA MigratedAgain ==
    ASSUME NEW t, NEW other
    PROVE  /\ Served(t, other) => Migrated(t, other, 2) = t
           /\ ~Served(t, other) => Migrated(t, other, 2) = Failed
  BY DEF Served, Migrated

LEMMA ServedNotFailed ==
    ASSUME NEW t, NEW other, Served(t, other)
    PROVE  t # Failed /\ Inspect(t, other) # "unsupported"
<1>1. Complete(t) /\ Inspect(t, other) # "unsupported"
  BY ServedIs DEF Served, ValidSchema
<1>2. "posts" \in DOMAIN t
  BY <1>1, SchemaAssumption DEF Complete, Names
<1> QED
  BY <1>1, <1>2, NotFailed

LEMMA SchemaInvInit == SchemaInit => SchemaInv
<1> SUFFICES ASSUME SchemaInit PROVE SchemaInv
  OBVIOUS
<1>1. tables \in Originals
  BY DEF SchemaInit, Originals
<1>2. Sane(tables)
  BY <1>1, OriginalsMigrate
<1>3. others = FALSE /\ additions = TRUE /\ version = 0 /\ phase = "off" /\ changes = 0
  BY DEF SchemaInit
<1>4. phase # "serving" /\ phase # "refused"
  BY <1>3
<1>5. version # 2 /\ version \in {0, 2} /\ changes \in Nat
  BY <1>3
<1>6. others \in BOOLEAN /\ additions \in BOOLEAN
  BY <1>3
<1> QED
  BY <1>1, <1>2, <1>3, <1>4, <1>5, <1>6 DEF SchemaInv

LEMMA StartKeepsSchema ==
    ASSUME SchemaInv, Start
    PROVE  SchemaInv'
<1> DEFINE final == Migrated(tables, others, version)
           refused == Inspect(tables, others) = "unsupported" \/ final = Failed
<1>1. /\ phase = "off" /\ others' = others /\ changes' = changes
      /\ additions' = (additions \/ phase' = "serving")
      /\ refused => phase' = "refused" /\ tables' = tables /\ version' = version
      /\ ~refused => phase' = "serving" /\ tables' = final /\ version' = 2
  BY DEF Start
<1>2. CASE refused
  <2>1. changes = 0 => version = 2
    <3> SUFFICES ASSUME changes = 0, version = 0 PROVE FALSE
      BY DEF SchemaInv
    <3>1. tables \in Originals /\ others = FALSE
      BY DEF SchemaInv
    <3> QED
      BY <1>2, <3>1, OriginalsMigrate
  <2>2. additions' = additions /\ phase' = "refused" /\ tables' = tables /\ version' = version
    BY <1>1, <1>2 DEF SchemaInv
  <2>3. Inspect(tables, others) = "unsupported" \/ Migrated(tables, others, version) = Failed
    BY <1>2
  <2> HIDE DEF final, refused
  <2> QED
    BY <1>1, <2>1, <2>2, <2>3 DEF SchemaInv
<1>3. CASE ~refused
  <2>1. Sane(final) /\ Served(final, others)
    <3>1. CASE version = 0
      BY <1>3, <3>1, MigratedSane DEF SchemaInv, Served
    <3>2. CASE version = 2
      BY <1>3, <3>2, MigratedAgain DEF SchemaInv
    <3> QED
      BY <3>1, <3>2 DEF SchemaInv
  <2>2. changes = 0 => IsFinal(final)
    <3>1. CASE version = 0
      <4> SUFFICES ASSUME changes = 0 PROVE IsFinal(final)
        OBVIOUS
      <4>1. tables \in Originals /\ others = FALSE
        BY <3>1 DEF SchemaInv
      <4>2. final = Migrated(tables, FALSE, 0)
        BY <3>1, <4>1
      <4> QED
        BY <4>1, <4>2 DEF IsFinal
    <3>2. CASE version = 2
      <4>1. final = tables
        BY <1>3, <3>2, MigratedAgain
      <4> HIDE DEF final
      <4> QED
        BY <3>2, <4>1 DEF SchemaInv
    <3> QED
      BY <3>1, <3>2 DEF SchemaInv
  <2>3. phase' = "serving" /\ tables' = final /\ version' = 2 /\ additions' = TRUE
    BY <1>1, <1>3
  <2> HIDE DEF final, refused
  <2> QED
    BY <1>1, <2>1, <2>2, <2>3 DEF SchemaInv, Served
<1> QED
  BY <1>2, <1>3

LEMMA StopKeepsSchema ==
    ASSUME SchemaInv, StopServing
    PROVE  SchemaInv'
<1>1. UNCHANGED <<tables, others, version, changes, additions>> /\ phase # "off" /\ phase' = "off"
  BY DEF StopServing
<1> QED
  BY <1>1 DEF SchemaInv

LEMMA AdditionKeepsSchema ==
    ASSUME SchemaInv, AddOutside
    PROVE  SchemaInv'
<1>1. /\ phase = "off" /\ phase' = "off" /\ changes' = changes + 1
      /\ additions' = (additions /\ TRUE) /\ version' = version
      /\ AddTable \/ AddObject \/ \E name \in Names \cap DOMAIN tables : AddColumn(name)
  BY DEF AddOutside, Changed
<1>2. Sane(tables) /\ changes \in Nat /\ others \in BOOLEAN /\ additions \in BOOLEAN
  BY DEF SchemaInv
<1>3. Sane(tables') /\ others' \in BOOLEAN /\ (Served(tables, others) => Served(tables', others'))
  <2>1. CASE AddTable
    BY <1>2, <2>1, TableAddedSane, TableAddedServed DEF AddTable
  <2>2. CASE AddObject
    <3>1. tables' = tables /\ others' = TRUE
      BY <2>2 DEF AddObject
    <3> QED
      BY <1>2, <3>1, ServedIs
  <2>3. ASSUME NEW name \in Names \cap DOMAIN tables, AddColumn(name)
        PROVE  /\ Sane(tables') /\ others' \in BOOLEAN
               /\ Served(tables, others) => Served(tables', others')
    <3>1. tables' = [tables EXCEPT ![name].columns = Append(tables[name].columns, "extra")]
          /\ others' = others
      BY <2>3 DEF AddColumn
    <3>2. Sane(tables')
      BY <1>2, <2>3, ColumnAddedSane
    <3>3. Served(tables, others) => Served(tables', others)
      BY <1>2, <3>1, ColumnAddedServed
    <3> QED
      BY <1>2, <3>1, <3>2, <3>3
  <2> QED
    BY <1>1, <2>1, <2>2, <2>3
<1>4. changes' # 0 /\ changes' \in Nat
  BY <1>1, <1>2
<1>5. additions' = additions
  BY <1>1, <1>2
<1> QED
  BY <1>1, <1>2, <1>3, <1>4, <1>5 DEF SchemaInv

LEMMA BreakKeepsSchema ==
    ASSUME SchemaInv, Break
    PROVE  SchemaInv'
<1>1. /\ phase' = "off" /\ changes' = changes + 1 /\ additions' = (additions /\ FALSE)
      /\ others' = others /\ version' \in {version, 0}
      /\ \E name \in DOMAIN tables : Drop(name) \/ Damage(name) \/ TakeName(name)
  BY DEF Break, Changed
<1>2. Sane(tables')
  BY <1>1, DroppedSane, DamagedSane, TakenSane DEF SchemaInv
<1>3. additions' = FALSE
  BY <1>1
<1>4. changes' \in Nat /\ changes' # 0
  BY <1>1 DEF SchemaInv
<1> QED
  BY <1>1, <1>2, <1>3, <1>4 DEF SchemaInv

(***************************************************************************)
(* What the invariant says of the properties.                              *)
(***************************************************************************)
LEMMA SchemaInvImplies ==
    ASSUME SchemaInv
    PROVE  SchemasAreKnown
<1>1. OneFinalSchema
  <2> SUFFICES ASSUME changes = 0
               PROVE  /\ phase # "refused"
                      /\ phase = "serving" =>
                            \A name \in DOMAIN Final :
                                \/ tables[name] = Final[name]
                                \/ [tables[name] EXCEPT !.keys = @ \cup {ParentKey}] = Final[name]
    BY DEF OneFinalSchema
  <2>1. CASE version = 0
    BY <2>1 DEF SchemaInv
  <2>2. CASE version = 2
    <3>1. Served(tables, others)
      BY <2>2 DEF SchemaInv
    <3>2. Migrated(tables, others, version) = tables
      BY <2>2, <3>1, MigratedAgain
    <3>3. phase # "refused"
      BY <3>1, <3>2, ServedNotFailed DEF SchemaInv
    <3>4. IsFinal(tables)
      BY <2>2 DEF SchemaInv
    <3>5. PICK t \in Originals : tables = Migrated(t, FALSE, 0)
      BY <3>4 DEF IsFinal
    <3> QED
      BY <3>3, <3>5, OriginalsFinal
  <2> QED
    BY <2>1, <2>2 DEF SchemaInv
<1>2. RecognisedIsMigrated
  <2> SUFFICES ASSUME phase = "refused", version = 0, Inspect(tables, others) # "unsupported",
                      StateReadable(tables), ~Obstructed(tables)
               PROVE  FALSE
    BY DEF RecognisedIsMigrated
  <2>1. Migrated(tables, others, 0) = Failed
    BY DEF SchemaInv
  <2> QED
    BY <2>1, Migrates DEF SchemaInv
<1>3. AdditionsAreServed
  <2> SUFFICES ASSUME version = 2, additions
               PROVE  phase # "refused"
    BY DEF AdditionsAreServed
  <2>1. Served(tables, others)
    BY DEF SchemaInv
  <2>2. Migrated(tables, others, version) = tables
    BY <2>1, MigratedAgain
  <2> QED
    BY <2>1, <2>2, ServedNotFailed DEF SchemaInv
<1>4. ServedIsComplete
  <2> SUFFICES ASSUME phase = "serving", NEW name \in Names
               PROVE  /\ IsPrefix(Required[name].columns, tables[name].columns)
                      /\ Required[name].unique \subseteq tables[name].unique
                      /\ DOMAIN Required[name].indexes \subseteq DOMAIN tables[name].indexes
                      /\ Required[name].keys \ {ParentKey} \subseteq tables[name].keys
                      /\ \A key \in tables[name].keys : key.from = ParentKey.from => key = ParentKey
    BY DEF ServedIsComplete
  <2>1. Inspect(tables, others) = "v1"
    BY DEF SchemaInv, ValidSchema
  <2>2. Complete(tables)
    BY <2>1, InspectIs
  <2>3. Fits(tables[name], Required[name], Required[name].columns, FALSE)
    BY <2>2 DEF Complete
  <2>4. Required[name].columns \in Seq(Columns)
    BY RequiredKnown DEF IsTable
  <2>5. IsPrefix(Required[name].columns, tables[name].columns)
    BY <2>3, <2>4, PrefixItself DEF Fits, ColumnsFit, IsStrictPrefix
  <2> QED
    BY <2>3, <2>5 DEF Fits
<1> QED
  BY <1>1, <1>2, <1>3, <1>4 DEF SchemasAreKnown

(***************************************************************************)
(* For any tables of the releases and any changes from outside: what Open  *)
(* recognises the migrations bring to one schema, unless the place of what *)
(* they add is taken; what was served is served after additions; and what  *)
(* is served has all that the program relies on (Inspect, applyBaseline,   *)
(* addPostSlugs, validateMigratedSchema).                                  *)
(***************************************************************************)
THEOREM SchemasHold == SchemaSpec => []SchemasAreKnown
<1>1. ASSUME SchemaInv, [SchemaNext]_schemaVars
      PROVE  SchemaInv'
  <2>1. CASE UNCHANGED schemaVars
    BY <1>1, <2>1 DEF schemaVars, SchemaInv
  <2> QED
    BY <1>1, <2>1, StartKeepsSchema, StopKeepsSchema, AdditionKeepsSchema, BreakKeepsSchema
       DEF SchemaNext
<1> QED
  BY SchemaInvInit, <1>1, SchemaInvImplies, PTL DEF SchemaSpec
=============================================================================
