-------------------------- MODULE CommentSubmission --------------------------
(***************************************************************************)
(* A reader's comment, from the request to the stored row                  *)
(* (backend/internal/httpapi/comment_create.go), with the clock, the       *)
(* administrator and crashes interfering between any two of its steps.     *)
(*                                                                         *)
(* The handler runs one database statement or transaction after another,   *)
(* each committed on its own; between them other handlers run.  Each       *)
(* request is a process and each of its transactions one action.  The      *)
(* request limiter in front of the handler is FixedWindowLimiter.          *)
(***************************************************************************)
EXTENDS Antispam

CONSTANTS
    Requests,          \* the POST requests of a behaviour
    OldComments,       \* ids of comments stored before the behaviour starts
    Posts,
    Tokens,            \* challenge tokens
    Submissions,       \* what a request may carry, see SubmissionType
    Boards,            \* initial contents of the comments table
    None,              \* no parent, no challenge, no status
    Admin,             \* what the administrator does in this instance
    ParentKeys,        \* a set of Booleans: whether comments.parent_id may have and lack
                       \* its foreign key
    HandlingLimit,     \* longest time from VerifyChallenge to ConsumeChallenge
    ClockLimit         \* the largest clock reading explored

(***************************************************************************)
(* A comment's id: AUTOINCREMENT never reuses one and a request stores one *)
(* comment at most, so a new comment is named after its request.           *)
(***************************************************************************)
CommentIds == Requests \cup OldComments

IPs == {s.ip : s \in Submissions}

Forms ==
    {"valid", "bad_post_id", "honeypot", "bad_name", "bad_content", "bad_parent_id"}

\* A request: `form' is the first check of the text it would fail, `signals'
\* what its source and text add to the moderation score.
SubmissionType ==
    [ip : IPs, post : Posts, parent : CommentIds \cup {None},
     text : DOMAIN Fingerprint, token : Tokens, form : Forms, signals : Nat]

CommentType ==
    [id : CommentIds, post : Posts, parent : CommentIds \cup {None},
     status : {"visible", "pending", "rejected"}]

ASSUME SubmissionAssumption ==
    /\ Submissions \subseteq SubmissionType
    /\ Boards \subseteq SUBSET CommentType
    /\ Requests \cap OldComments = {} /\ None \notin CommentIds \cup Nat
    /\ Admin \subseteq {"issue", "set_status", "delete_comment", "delete_post", "unmute"}
    /\ ParentKeys \subseteq BOOLEAN
    /\ HandlingLimit \in Nat /\ ClockLimit \in Nat

\* What may be stored at first: threads on the post of their root.
ASSUME BoardAssumption ==
    \A board \in Boards : \A c \in board :
        /\ c.id \in OldComments /\ c.parent \in OldComments \cup {None}
        /\ \A d \in board : (c.id = d.id => c = d) /\ (c.parent = d.id => c.post = d.post)

(***************************************************************************)
(* HandlingLimit is what single use rests on: a request that has verified  *)
(* its challenge consumes it before another TTL has passed.                *)
(***************************************************************************)
ASSUME HandlingAssumption == HandlingLimit <= Comments.ChallengeTTL

VARIABLES
    clock,
    posts, comments, uses, attempts, mutes,  \* the database
    parentForeignKey,                        \* comments.parent_id has its foreign key
    lastCleanup,                             \* Service.lastAttemptCleanup
    challenge,  \* challenge[t]: the content of token t, None until issued
    pc,         \* where each request stands
    submission, \* what each request carries
    status,     \* the status its attempt is to be recorded with
    deadline,   \* by when it consumes the challenge it has verified
    createdAt,  \* history: when its comment was stored, None if never
    log,        \* history: every attempt row ever written
    earlier,    \* history: the rows already in the log when it arrived
    pardoned    \* history: when the administrator last lifted a mute of an ip

database == <<posts, comments, uses, attempts, mutes>>
request == <<submission, status, deadline, createdAt, earlier>>
vars == <<clock, database, parentForeignKey, lastCleanup, challenge, pc, request, log, pardoned>>

Never == -Comments.CleanupInterval

\* Each row's parent is there, as the foreign key demands.
Parented(rows) == \A c \in rows : c.parent # None => \E d \in rows : d.id = c.parent

Init ==
    /\ clock = 0
    /\ posts = Posts
    /\ comments \in Boards
    /\ parentForeignKey \in ParentKeys
    /\ parentForeignKey => Parented(comments)
    /\ uses = {} /\ attempts = {} /\ mutes = {}
    /\ lastCleanup = Never
    /\ challenge \in [Tokens -> {None} \cup {IssueChallenge(p, 0) : p \in Posts}]
    /\ pc = [r \in Requests |-> "idle"]
    /\ submission = [r \in Requests |-> None]
    /\ status = [r \in Requests |-> None]
    /\ deadline = [r \in Requests |-> None]
    /\ createdAt = [r \in Requests |-> None]
    /\ log = {}
    /\ earlier = [r \in Requests |-> {}]
    /\ pardoned = [ip \in IPs |-> Never]

-----------------------------------------------------------------------------
(***************************************************************************)
(* The handler.  At each step the code may return early, and a database    *)
(* error or a client that went away ends the request without an effect.    *)
(***************************************************************************)
Goto(r, label) == pc' = [pc EXCEPT ![r] = label]

\* r will record its attempt with status st and answer.
Conclude(r, st) == Goto(r, "record") /\ status' = [status EXCEPT ![r] = st]

Row(r, st) ==
    [req |-> r, ip |-> submission[r].ip, post |-> submission[r].post, status |-> st,
     text |-> submission[r].text, at |-> FormatTime(clock)]

\* cleanupAttempts, then the insertion of r's row: tables and history.
Insert(r, st) ==
    /\ attempts' = CleanAttempts(attempts, lastCleanup, clock) \cup {Row(r, st)}
    /\ lastCleanup' = IF CleanupDue(lastCleanup, clock) THEN clock ELSE lastCleanup
    /\ log' = log \cup {Row(r, st)}

\* The request passes the limiter and its body is read.
Arrive(r) ==
    /\ pc[r] = "idle"
    /\ \E s \in Submissions : submission' = [submission EXCEPT ![r] = s]
    /\ earlier' = [earlier EXCEPT ![r] = log]
    /\ Goto(r, "mute")
    /\ UNCHANGED <<clock, database, lastCleanup, challenge, status, deadline, createdAt, log, pardoned>>

CheckMute(r) ==
    /\ pc[r] = "mute"
    /\ mutes' = LiveMutes(mutes, clock)
    /\ IF IsMuted(mutes, submission[r].ip, clock)
       THEN Conclude(r, "muted")
       ELSE Goto(r, "screen") /\ UNCHANGED status
    /\ UNCHANGED <<clock, posts, comments, uses, attempts, lastCleanup, challenge,
                   submission, deadline, createdAt, log, earlier, pardoned>>

(***************************************************************************)
(* The checks without the database, in the handler's order: post id,       *)
(* challenge, honeypot, name, content, parent id.                          *)
(***************************************************************************)
Screen(r) ==
    LET s == submission[r]
        verified == /\ challenge[s.token] # None
                    /\ VerifyChallenge(challenge[s.token], s.post, clock)
    IN  /\ pc[r] = "screen"
        /\ \/ /\ s.form = "bad_post_id" \/ ~verified
              /\ Conclude(r, "rejected")
              /\ UNCHANGED deadline
           \/ /\ s.form = "honeypot" /\ verified
              /\ Goto(r, "honeypot")
              /\ UNCHANGED <<status, deadline>>
           \/ /\ s.form \in {"bad_name", "bad_content", "bad_parent_id"} /\ verified
              /\ Conclude(r, "rejected")
              /\ UNCHANGED deadline
           \/ /\ s.form = "valid" /\ verified
              /\ Goto(r, "post")
              /\ deadline' = [deadline EXCEPT ![r] = clock + HandlingLimit]
              /\ UNCHANGED status
        /\ UNCHANGED <<clock, database, lastCleanup, challenge, submission,
                       createdAt, log, earlier, pardoned>>

FindPost(r) ==
    /\ pc[r] = "post"
    /\ IF submission[r].post \in posts
       THEN /\ Goto(r, IF submission[r].parent = None THEN "consume" ELSE "parent")
            /\ UNCHANGED <<status, deadline>>
       ELSE /\ Conclude(r, "rejected")
            /\ deadline' = [deadline EXCEPT ![r] = None]
    /\ UNCHANGED <<clock, database, lastCleanup, challenge, submission,
                   createdAt, log, earlier, pardoned>>

\* The post of the parent is not compared.
ParentAnywhere(r) ==
    \E c \in comments : c.id = submission[r].parent /\ c.status = "visible"

\* ParentForPost: visible, and on the same post.
ParentForPost(r) ==
    \E c \in comments : /\ c.id = submission[r].parent
                        /\ c.status = "visible"
                        /\ c.post = submission[r].post

FindParent(r) ==
    /\ pc[r] = "parent"
    /\ IF ParentForPost(r)
       THEN Goto(r, "consume") /\ UNCHANGED <<status, deadline>>
       ELSE /\ Conclude(r, "rejected")
            /\ deadline' = [deadline EXCEPT ![r] = None]
    /\ UNCHANGED <<clock, database, lastCleanup, challenge, submission,
                   createdAt, log, earlier, pardoned>>

\* One immediate transaction; a replay rolls back the purge as well.
Consume(r) ==
    LET s == submission[r]
    IN  /\ pc[r] = "consume"
        /\ IF Replayed(uses, s.token, s.post, clock)
           THEN Conclude(r, "rejected") /\ UNCHANGED uses
           ELSE /\ Goto(r, "assess")
                /\ uses' = ConsumeChallenge(uses, s.token, s.post, clock)
                /\ UNCHANGED status
        /\ deadline' = [deadline EXCEPT ![r] = None]
        /\ UNCHANGED <<clock, posts, comments, attempts, mutes, lastCleanup, challenge,
                       submission, createdAt, log, earlier, pardoned>>

\* AttemptStats with its cleanup, RateLimit and Moderate.
Assess(r) ==
    LET kept == CleanAttempts(attempts, lastCleanup, clock)
        stats == AttemptStats(kept, submission[r], clock)
    IN  /\ pc[r] = "assess"
        /\ attempts' = kept
        /\ lastCleanup' = IF CleanupDue(lastCleanup, clock) THEN clock ELSE lastCleanup
        /\ IF RateLimit(stats, clock)
           THEN Goto(r, "limited") /\ UNCHANGED status
           ELSE /\ Goto(r, "create")
                /\ status' = [status EXCEPT ![r] = Moderate(submission[r].signals, stats)]
        /\ UNCHANGED <<clock, posts, comments, uses, mutes, challenge, submission,
                       deadline, createdAt, log, earlier, pardoned>>

(***************************************************************************)
(* RecordHoneypot and RecordRateRejection: insert, count, perhaps mute, in *)
(* one immediate transaction; a muted client is then told for how long.    *)
(***************************************************************************)
Penalise(r, st, muting) ==
    LET ip == submission[r].ip
    IN  /\ Insert(r, st)
        /\ IF muting
           THEN mutes' = UpsertMute(mutes, ip, clock) /\ Goto(r, "retry_after")
           ELSE UNCHANGED mutes /\ Goto(r, "done")
        /\ UNCHANGED <<clock, posts, comments, uses, challenge, request, pardoned>>

Honeypot(r) ==
    /\ pc[r] = "honeypot"
    /\ Penalise(r, "honeypot", HoneypotMutes(attempts', submission[r].ip, clock))

Limited(r) ==
    /\ pc[r] = "limited"
    /\ Penalise(r, "limited", RejectionMutes(attempts', submission[r].ip, clock))

\* ActiveMute once more, for the Retry-After; it deletes old mutes again.
RetryAfter(r) ==
    /\ pc[r] = "retry_after"
    /\ mutes' = LiveMutes(mutes, clock)
    /\ Goto(r, "done")
    /\ UNCHANGED <<clock, posts, comments, uses, attempts, lastCleanup, challenge,
                   request, log, pardoned>>

\* Only the post's foreign key.
PostKeyHolds(c) == c.post \in posts

\* The row satisfies the foreign keys the table has.
KeysHold(c) ==
    /\ c.post \in posts
    /\ parentForeignKey /\ c.parent # None => \E d \in comments : d.id = c.parent

NewComment(r) ==
    [id |-> r, post |-> submission[r].post, parent |-> submission[r].parent,
     status |-> status[r]]

Create(r) ==
    /\ pc[r] = "create"
    /\ IF KeysHold(NewComment(r))
       THEN /\ comments' = comments \cup {NewComment(r)}
            /\ createdAt' = [createdAt EXCEPT ![r] = clock]
            /\ Goto(r, "record")
       ELSE Goto(r, "done") /\ UNCHANGED <<comments, createdAt>>
    /\ UNCHANGED <<clock, posts, uses, attempts, mutes, lastCleanup, challenge,
                   submission, status, deadline, log, earlier, pardoned>>

RecordAttempt(r) ==
    /\ pc[r] = "record"
    /\ Insert(r, status[r])
    /\ Goto(r, "done")
    /\ UNCHANGED <<clock, posts, comments, uses, mutes, challenge, request, pardoned>>

(***************************************************************************)
(* A statement fails: 500, or the failure to record is ignored.  A cleanup *)
(* that went before the failing statement stays.                           *)
(***************************************************************************)
Fail(r) ==
    /\ pc[r] \notin {"idle", "screen", "done"}
    /\ Goto(r, "done")
    /\ deadline' = [deadline EXCEPT ![r] = None]
    /\ \/ UNCHANGED <<attempts, lastCleanup>>
       \/ /\ pc[r] \in {"assess", "honeypot", "limited", "record"}
          /\ CleanupDue(lastCleanup, clock)
          /\ attempts' = CleanAttempts(attempts, lastCleanup, clock)
          /\ lastCleanup' = clock
    /\ UNCHANGED <<clock, posts, comments, uses, mutes, challenge, submission, status,
                   createdAt, log, earlier, pardoned>>

-----------------------------------------------------------------------------
(***************************************************************************)
(* Everything else that moves: time, challenges being issued, the          *)
(* administrator, and the death of the process.                            *)
(***************************************************************************)
Tick ==
    /\ clock < ClockLimit
    /\ \A r \in Requests : deadline[r] # None => clock < deadline[r]
    /\ clock' = clock + 1
    /\ UNCHANGED <<database, lastCleanup, challenge, pc, request, log, pardoned>>

Issue(t) ==
    /\ "issue" \in Admin
    /\ challenge[t] = None
    /\ \E p \in posts : challenge' = [challenge EXCEPT ![t] = IssueChallenge(p, clock)]
    /\ UNCHANGED <<clock, database, lastCleanup, pc, request, log, pardoned>>

SetStatus(c, st) ==
    /\ "set_status" \in Admin
    /\ comments' = (comments \ {c}) \cup {[c EXCEPT !.status = st]}
    /\ UNCHANGED <<clock, posts, uses, attempts, mutes, lastCleanup, challenge, pc,
                   request, log, pardoned>>

\* The deletion leaves the cascade to the foreign key.
CommentAlone(c) == {c}

\* The reply tree below and including c.
Thread(c) ==
    {d \in comments :
        \A S \in SUBSET comments :
            (/\ c \in S
             /\ \A e \in comments : (\E f \in S : e.parent = f.id) => e \in S)
            => d \in S}

DeleteComment(c) ==
    /\ "delete_comment" \in Admin
    /\ comments' = comments \ Thread(c)
    /\ UNCHANGED <<clock, posts, uses, attempts, mutes, lastCleanup, challenge, pc,
                   request, log, pardoned>>

\* Replies are on their parent's post: the cascade along post_id takes all.
DeletePost(p) ==
    /\ "delete_post" \in Admin
    /\ posts' = posts \ {p}
    /\ comments' = {c \in comments : c.post # p}
    /\ UNCHANGED <<clock, uses, attempts, mutes, lastCleanup, challenge, pc,
                   request, log, pardoned>>

Unmute(ip) ==
    /\ "unmute" \in Admin
    /\ \E m \in mutes : m.ip = ip
    /\ mutes' = {m \in mutes : m.ip # ip}
    /\ pardoned' = [pardoned EXCEPT ![ip] = clock]
    /\ UNCHANGED <<clock, posts, comments, uses, attempts, lastCleanup, challenge, pc,
                   request, log>>

\* Requests in flight are lost and the service starts with a fresh memory.
Restart ==
    /\ pc' = [r \in Requests |-> IF pc[r] = "idle" THEN "idle" ELSE "done"]
    /\ deadline' = [r \in Requests |-> None]
    /\ lastCleanup' = Never
    /\ UNCHANGED <<clock, database, challenge, submission, status, createdAt, log,
                   earlier, pardoned>>

Handle(r) ==
    \/ CheckMute(r) \/ Screen(r) \/ FindPost(r) \/ FindParent(r) \/ Consume(r)
    \/ Assess(r) \/ Honeypot(r) \/ Limited(r) \/ RetryAfter(r) \/ Create(r)
    \/ RecordAttempt(r)

Administer ==
    \/ \E c \in comments, st \in {"visible", "rejected"} : SetStatus(c, st)
    \/ \E c \in comments : DeleteComment(c)
    \/ \E p \in posts : DeletePost(p)
    \/ \E ip \in IPs : Unmute(ip)

Step ==
    \/ \E r \in Requests : Arrive(r) \/ Handle(r) \/ Fail(r)
    \/ \E t \in Tokens : Issue(t)
    \/ Administer
    \/ Tick
    \/ Restart

\* The schema is what it was when the server started.
Next == Step /\ UNCHANGED parentForeignKey

Spec == Init /\ [][Next]_vars

-----------------------------------------------------------------------------
Stages ==
    {"idle", "mute", "screen", "honeypot", "post", "parent", "consume", "assess",
     "limited", "retry_after", "create", "record", "done"}

RowType ==
    [req : Requests, ip : IPs, post : Posts, status : Accepted \cup Refused,
     text : DOMAIN Fingerprint, at : Nat]

\* Every variable has its type, and what a request has still to record or
\* to consume is known.
TypeOK ==
    /\ clock \in Nat
    /\ posts \subseteq Posts
    /\ parentForeignKey \in ParentKeys
    /\ comments \subseteq CommentType
    /\ uses \subseteq [token : Tokens, post : Posts, at : Nat]
    /\ attempts \subseteq log /\ log \subseteq RowType
    /\ mutes \subseteq [ip : IPs, until : Nat]
    /\ lastCleanup \in Nat \cup {Never}
    /\ challenge \in [Tokens -> [post : Posts, issuedAt : Nat] \cup {None}]
    /\ pc \in [Requests -> Stages]
    /\ submission \in [Requests -> Submissions \cup {None}]
    /\ \A r \in Requests : pc[r] # "idle" => submission[r] \in Submissions
    /\ status \in [Requests -> {"visible", "pending", "rejected", "muted", None}]
    /\ \A r \in Requests :
          /\ pc[r] = "create" => status[r] \in Accepted
          /\ pc[r] = "record" => status[r] \in Accepted \cup {"rejected", "muted"}
    /\ deadline \in [Requests -> Nat \cup {None}]
    /\ createdAt \in [Requests -> Nat \cup {None}]
    /\ earlier \in [Requests -> SUBSET log]
    /\ pardoned \in [IPs -> Nat \cup {Never}]

(***************************************************************************)
(* A challenge admits one comment: no two stored comments came with one    *)
(* token, however their requests interleave, although the record of a use  *)
(* is purged and stored times lose their fraction.                         *)
(***************************************************************************)
TokenAdmitsOneComment ==
    \A q, r \in Requests :
        /\ createdAt[q] # None /\ createdAt[r] # None
        /\ submission[q].token = submission[r].token
        => q = r

(***************************************************************************)
(* The rate limits hold for a client that awaits its answers.  Attempts    *)
(* recorded before a request arrived are never forgotten when it is        *)
(* assessed, whatever cleanups and restarts came between: no comment is    *)
(* stored within Cooldown of one of its ip, ...                            *)
(***************************************************************************)
CooldownKept ==
    Comments.Cooldown <= Retention =>
        \A r \in Requests : createdAt[r] # None =>
            \A a \in earlier[r] :
                a.ip = submission[r].ip => createdAt[r] - a.at >= Comments.Cooldown

\* ... nor when they exhaust a quota of its ip, its post or the site, ...
QuotasKept ==
    \A r \in Requests : createdAt[r] # None =>
        LET mine == {a \in earlier[r] : a.ip = submission[r].ip}
            accepted == {a \in earlier[r] : a.status \in Accepted}
            onPost == {a \in accepted : a.post = submission[r].post}
            Count(rows, window) == Cardinality(Since(rows, window, createdAt[r]))
        IN  /\ Count(mine, Comments.BurstWindow) < Comments.BurstMax
            /\ Count(onPost, Comments.PostRateLimitWindow) < Comments.PostRateLimitMax
            /\ Count(accepted, Comments.GlobalRateLimitWindow) < Comments.GlobalRateLimitMax

\* ... nor when it repeats a text of its ip on its post within DuplicateWindow.
NoRepeatedText ==
    \A r \in Requests : createdAt[r] # None =>
        \A a \in Since(earlier[r], Comments.DuplicateWindow, createdAt[r]) :
            ~ /\ a.ip = submission[r].ip /\ a.post = submission[r].post
              /\ a.text = submission[r].text /\ a.status \in Accepted

(***************************************************************************)
(* A comment that only resembles an accepted one of its ip on its post     *)
(* scores three points for it: with two of its own it waits for approval.  *)
(***************************************************************************)
SimilarTextsWait ==
    \A r \in Requests : createdAt[r] # None /\ status[r] = "visible" =>
        \A a \in Since(earlier[r], Comments.DuplicateWindow, createdAt[r]) :
            /\ a.ip = submission[r].ip /\ a.post = submission[r].post
            /\ Fingerprint[a.text] = Fingerprint[submission[r].text]
            /\ a.status \in Accepted
            => submission[r].signals < 2

(***************************************************************************)
(* Mutes.  An attempt is an offence when the rows of its ip make it reach  *)
(* a threshold.  A request that arrives after an offence stores no comment *)
(* until MuteDuration after it has passed, unless the administrator lifted *)
(* the mute: later offences, cleanups and restarts never shorten it.       *)
(***************************************************************************)
Offence(rows, a) ==
    LET mine == {b \in Since(rows, Comments.BurstWindow, a.at) : b.ip = a.ip}
        traps == {b \in mine : b.status = "honeypot" /\ b.at <= a.at}
        refused == {b \in mine : /\ b.status \in Refused
                                 /\ b.at < a.at \/ (b.at = a.at /\ b.status = "limited")}
    IN  \/ a.status = "honeypot" /\ Cardinality(traps) >= Comments.HoneypotMuteThreshold
        \/ a.status = "limited" /\ Cardinality(refused) >= Comments.RejectedMuteThreshold

MutesHold ==
    \A r \in Requests : createdAt[r] # None =>
        \A a \in earlier[r] :
            /\ a.ip = submission[r].ip /\ Offence(earlier[r], a)
            /\ pardoned[a.ip] < a.at
            => createdAt[r] >= a.at + Comments.MuteDuration

(***************************************************************************)
(* Threads.  The parent is looked up before the comment is stored, and may *)
(* be deleted in between; still a stored reply is never on another post    *)
(* than its parent, ...                                                    *)
(***************************************************************************)
RepliesStayOnTheirPost ==
    \A c, d \in comments : c.parent = d.id => c.post = d.post

\* ... it has a parent, where the database enforces the foreign key, ...
NoOrphans == parentForeignKey => Parented(comments)

\* ... and, on a legacy database too, it never outlives a parent it had.
ThreadsGoWhole ==
    [][\A c, d \in comments :
          /\ d.parent = c.id
          /\ \A e \in comments' : e.id # c.id
          => \A e \in comments' : e.id # d.id]_vars
=============================================================================
