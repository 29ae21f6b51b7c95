------------------------------- MODULE Backup -------------------------------
(***************************************************************************)
(* Uploads and the administrator's backup (backend/internal/httpapi:       *)
(* upload, serveUpload and backupHandler; backend/internal/backup: Create; *)
(* backend/internal/storage/sqlite: Snapshot, Audit).  Nothing holds the   *)
(* database and the upload directory still together: the backup copies one *)
(* after the other while files are uploaded and posts come and go.         *)
(***************************************************************************)
EXTENDS Naturals

CONSTANTS
    Files,       \* uploads, each under the random name of its own
    Admins,      \* clients that ask for a backup
    MaxCrashes,  \* bound: deaths of the server
    MaxBackups   \* bound: backups that the limiter lets pass

ASSUME BackupAssumption == MaxCrashes \in Nat /\ MaxBackups \in Nat

VARIABLES
    upload,       \* where the upload of each file is
    told,         \* history: the files whose address a client was given
    posts,        \* the files that posts of the database refer to
    active,       \* the mutex of the handler
    spent,        \* the limiter's minute is used up
    job,          \* the backup of each client
    directories,  \* the temporary directories on the disk
    crashes, backups

vars == <<upload, told, posts, active, spent, job, directories, crashes, backups>>

\* The file is in the directory under its final name, with all its content.
Stored(f) == upload[f] \in {"renamed", "answered", "lost"}

\* Its temporary file is in the directory.
Temporary(f) == upload[f] \in {"partial", "checked", "left"}

Idle == [step |-> "idle", db |-> {}, listed |-> {}, zip |-> {}]

Init ==
    /\ upload = [f \in Files |-> "none"]
    /\ told = {} /\ posts = {}
    /\ active = FALSE /\ spent = FALSE
    /\ job = [a \in Admins |-> Idle]
    /\ directories = 0 /\ crashes = 0 /\ backups = 0

-----------------------------------------------------------------------------
Move(f, from, to) ==
    /\ upload[f] = from
    /\ upload' = [upload EXCEPT ![f] = to]
    /\ told' = IF to = "answered" THEN told \cup {f} ELSE told
    /\ UNCHANGED <<posts, active, spent, job, directories, crashes, backups>>

\* upload: a hidden temporary file is created and filled, ...
Receive(f) == Move(f, "none", "partial")

\* ... all of it has come and Inspect accepts it, ...
Check(f) == Move(f, "partial", "checked")

\* ... it gets its name, and the client learns it.
Rename(f) == Move(f, "checked", "renamed")
AnswerUpload(f) == Move(f, "renamed", "answered")

\* Mutant: the temporary file is not removed.
RefuseUploadOnly(f) == Move(f, "partial", "left")

\* Too large, cut off, refused by Inspect, or not written: it is removed.
RefuseUpload(f) == Move(f, "partial", "removed") \/ Move(f, "checked", "removed")

\* A post is saved; nothing checks that the file it names is there.
Publish(f) ==
    /\ posts' = posts \cup {f}
    /\ UNCHANGED <<upload, told, active, spent, job, directories, crashes, backups>>

\* Mutant: the file goes with the post.
UnpublishWithFile(f) ==
    /\ posts' = posts \ {f}
    /\ upload' = [upload EXCEPT ![f] = IF Stored(f) THEN "removed" ELSE @]
    /\ UNCHANGED <<told, active, spent, job, directories, crashes, backups>>

\* A post is deleted; its files stay.
Unpublish(f) ==
    /\ posts' = posts \ {f}
    /\ UNCHANGED <<upload, told, active, spent, job, directories, crashes, backups>>

-----------------------------------------------------------------------------
Step(a, from, j) ==
    /\ job[a].step = from
    /\ job' = [job EXCEPT ![a] = j]

\* backupHandler: TryLock, then the limiter, then MkdirTemp.  One that finds
\* the mutex or the minute taken is refused and leaves both as they are.
Begin(a) ==
    /\ ~active /\ ~spent /\ backups < MaxBackups
    /\ Step(a, "idle", [Idle EXCEPT !.step = "snapshot"])
    /\ active' = TRUE /\ spent' = TRUE
    /\ directories' = directories + 1 /\ backups' = backups + 1
    /\ UNCHANGED <<upload, told, posts, crashes>>

\* The next minute: the limiter's window is over.
Minute ==
    /\ spent /\ spent' = FALSE
    /\ UNCHANGED <<upload, told, posts, active, job, directories, crashes, backups>>

\* Snapshot.
Snapshot(a) ==
    /\ Step(a, "snapshot", [job[a] EXCEPT !.step = "audit", !.db = posts])
    /\ UNCHANGED <<upload, told, posts, active, spent, directories, crashes, backups>>

\* The handler's deferred calls: RemoveAll and Unlock.
Return(a, from) ==
    /\ Step(a, from, Idle)
    /\ active' = FALSE /\ directories' = directories - 1
    /\ UNCHANGED <<upload, told, posts, spent, crashes, backups>>

\* Files of the snapshot that OpenRegular does not find; mutant: whatever is
\* in the directory counts.
MissingAnyFile(db) == {f \in db : ~Stored(f) /\ ~Temporary(f)}

Missing(db) == {f \in db : ~Stored(f)}

Audit(a) ==
    IF Missing(job[a].db) = {}
    THEN /\ Step(a, "audit", [job[a] EXCEPT !.step = "list"])
         /\ UNCHANGED <<upload, told, posts, active, spent, directories, crashes, backups>>
    ELSE Return(a, "audit")

\* Names that the walk takes; mutant: temporary files too.
WalkedAll(f) == Stored(f) \/ Temporary(f)

Walked(f) == Stored(f)

\* WalkDir reads the directory, ...
List(a) ==
    /\ Step(a, "list", [job[a] EXCEPT !.step = "copy", !.listed = {f \in Files : Walked(f)}])
    /\ UNCHANGED <<upload, told, posts, active, spent, directories, crashes, backups>>

\* ... and file after file is copied.
CopyFile(a) ==
    /\ \E f \in job[a].listed :
          Step(a, "copy", [job[a] EXCEPT !.listed = @ \ {f}, !.zip = @ \cup {f}])
    /\ UNCHANGED <<upload, told, posts, active, spent, directories, crashes, backups>>

\* The manifest is added and the archive sent.
Pack(a) ==
    /\ job[a].listed = {}
    /\ Step(a, "copy", [job[a] EXCEPT !.step = "sent"])
    /\ UNCHANGED <<upload, told, posts, active, spent, directories, crashes, backups>>

\* A step fails, the client leaves, or the fifteen minutes are over.
Fail(a) == \E from \in {"snapshot", "audit", "list", "copy"} : Return(a, from)

\* The archive is delivered, or the transfer ends early.
Finish(a) == Return(a, "sent")

\* The server dies; the locks and the limiter are memory, the files are not.
Crash ==
    /\ crashes < MaxCrashes /\ crashes' = crashes + 1
    /\ upload' = [f \in Files |->
          CASE upload[f] \in {"partial", "checked"} -> "left"
            [] upload[f] = "renamed" -> "lost"
            [] OTHER -> upload[f]]
    /\ job' = [a \in Admins |-> Idle]
    /\ active' = FALSE /\ spent' = FALSE
    /\ UNCHANGED <<told, posts, directories, backups>>

Proceed(a) == Snapshot(a) \/ Audit(a) \/ List(a) \/ CopyFile(a) \/ Pack(a) \/ Finish(a)

Next ==
    \/ \E f \in Files : \/ Receive(f) \/ Check(f) \/ Rename(f) \/ AnswerUpload(f)
                        \/ RefuseUpload(f) \/ Publish(f) \/ Unpublish(f)
    \/ \E a \in Admins : Begin(a) \/ Proceed(a) \/ Fail(a)
    \/ Minute \/ Crash

\* The handler goes on, and so does the clock.
Fairness == (\A a \in Admins : WF_vars(Proceed(a))) /\ WF_vars(Minute)

Spec == Init /\ [][Next]_vars /\ Fairness

-----------------------------------------------------------------------------
TypeOK ==
    /\ upload \in [Files -> {"none", "partial", "checked", "renamed", "answered",
                             "removed", "left", "lost"}]
    /\ told \subseteq Files /\ posts \subseteq Files
    /\ active \in BOOLEAN /\ spent \in BOOLEAN
    /\ job \in [Admins -> [step : {"idle", "snapshot", "audit", "list", "copy", "sent"},
                           db : SUBSET Files, listed : SUBSET Files, zip : SUBSET Files]]
    /\ active <=> \E a \in Admins : job[a].step # "idle"
    /\ \A a, b \in Admins : job[a].step # "idle" /\ job[b].step # "idle" => a = b
    /\ directories \in Nat /\ crashes \in Nat /\ backups \in Nat

(***************************************************************************)
(* An archive that is sent holds every file that its database refers to    *)
(* and only complete files, though uploads and posts went on between the   *)
(* copy of one and of the other (Create: the snapshot, its audit, the      *)
(* walk).                                                                  *)
(***************************************************************************)
ArchivesAreWhole ==
    \A a \in Admins : job[a].step = "sent" =>
        /\ job[a].db \subseteq job[a].zip
        /\ \A f \in job[a].zip : Stored(f)

(***************************************************************************)
(* A backup is refused for a missing file only when a post names a file    *)
(* whose address no client was given: a post written with uploaded files   *)
(* never stands in the way of a backup (upload answers after the rename,   *)
(* and nothing removes a stored file).                                     *)
(***************************************************************************)
RefusesOnlyUnknown ==
    \A a \in Admins : job[a].step = "audit" => Missing(job[a].db) \cap told = {}

(***************************************************************************)
(* What stays on the disk after requests have ended is the work of deaths  *)
(* of the server: a directory per death at most, and no temporary file     *)
(* without one (the deferred calls of Create, backupHandler and upload).   *)
(***************************************************************************)
NothingLeft ==
    /\ directories <= (IF active THEN 1 ELSE 0) + crashes
    /\ crashes = 0 => \A f \in Files : upload[f] # "left"

(***************************************************************************)
(* However a backup ends, the next one can begin (the deferred Unlock, and *)
(* the limiter's minute).                                                  *)
(***************************************************************************)
BackupPossible == []<>(~active /\ ~spent)
=============================================================================
