# Verification of stereoblog

TLA+ models of the program under `src/`, the TLC instances that check them and
the theorems TLAPS proves about them.  Paths are relative to the repository;
`internal/` stands for `src/backend/internal/`.

## 1. The system

Stereoblog is a blog with comments, likes and uploaded media: an HTTP API in Go
(Gin, `database/sql`) over one SQLite file and an uploads directory, and a Nuxt
frontend. One process serves all requests, each in a goroutine of its own. The
state that outlives a request is the database, the uploads directory and a few
structures in memory: rate limiters, the time of the last anti-spam cleanup and
the mutex of the backup. A handler runs a sequence of database statements and
transactions; each commits on its own, and any other handler may run in between.
Pages keep state of their own in the browser, and meet the server only through
requests whose answers may be late or lost.

| component | state | operations | what is hard | what makes it correct |
|---|---|---|---|---|
| request limiter `internal/httpapi/limiter.go` | map of windows per client, time of the next sweep | `allow` | boundaries of time and count, the sweep | a bounded number of requests in any window, an exact Retry-After, a bounded map |
| anti-spam `internal/antispam` | tables of used challenges, attempts and mutes; time of the last cleanup | issue, verify and consume a challenge; statistics; record; mute | records removed by age, lost fractions of seconds, memory lost in restarts | a challenge admits one comment; limits and mutes are not forgotten early |
| comment text `internal/antispam/content.go` | none | validate, fingerprint | counters over neighbours, replacements in an order | runs are found wherever they stand; a variation of a text has its fingerprint |
| comment submission `internal/httpapi/comment_create.go` | comments | ten steps from the mute check to the record of the attempt | other requests, deletions, failures and restarts between any two steps | replies stay in their threads; nothing is stored against a limit that was exhausted before |
| moderation `internal/admin/moderation.go` | comments, mutes | approve, reject, delete a thread, unmute | races with submissions; databases without the foreign key of `parent_id` | threads go as a whole |
| likes `internal/posts/likes.go`, `internal/comments/likes.go` | event rows, counters | like | the clock is read before the lock is held; events removed by age | one like per cooldown, exact counters |
| sessions `internal/admin/session.go` | session rows | login, authorise, logout | authorised first, used later; expiry; a clock set back | a session that is over admits nothing new |
| posts `internal/posts/write.go` | posts with unique slugs | create, update, delete, read back | two creations of one slug; several statements to a request | slugs are unique and never change; refusals are true |
| slugs `internal/storage/sqlite/slug.go` | none | derive, backfill | numbered slugs that are the plain slugs of other titles | unique, accepted when sent back, independent of later posts |
| feed `internal/posts/posts.go`, `src/frontend/app/pages/index.vue` | the reader's pages | next page | posts come and go between pages; answers of an earlier visit | nothing that stays is skipped or repeated |
| post content `internal/content` | none | parse, write back, serve, sum up | read strictly from a request and leniently from the database | what was accepted is read back as it was checked |
| uploads and backup `internal/httpapi/uploads.go`, `internal/backup` | files, temporary files, the backup mutex | upload, back up | the archive combines a snapshot with a later walk over the files | an archive has every file its database refers to, complete |
| opening and migration `internal/storage/sqlite` | the schema and its recorded version | inspect, back up, migrate | crashes and second processes between the steps; variants of the schema | after a crash a start finishes the work and loses nothing |
| connection pool `internal/storage/sqlite/sqlite.go` | four connections, the file's locks | every statement | waiting for a connection while holding a lock | nobody waits for ever |
| comment form `src/frontend/app/components/PostComments.vue` | challenge, text | prepare, submit | late answers, expiry while writing | no challenge is spent twice, no text is lost |
| composer `src/frontend/app/components/admin/Composer.vue` | draft, timer, stored copy | edit, persist, publish, leave | the answer of a publication after the page has gone on | a draft is stored or the page says that it is not |
| audio player `src/frontend/app/plugins/audio.ts` | track, button, media element | play, pause, close | promises and events of earlier tracks | the player shows what happened to its track |

Configuration, routing and presentation are sequential and keep no state; they
enter the models as constants or inputs, or not at all.

## 2. Modules

| module | what it is |
|---|---|
| `WindowQuota` | abstract: what a fixed-window limiter promises a client |
| `FixedWindowLimiter` | `limiter.go`, with its map and its sweep; implements `WindowQuota` |
| `Timestamps` | times as the database stores them, in whole seconds |
| `Antispam` | what the anti-spam operations read from and make of their tables |
| `CommentSubmission` | the handler of a new comment, the issuing of challenges, the administrator, restarts |
| `Likes` | likes of posts and comments |
| `Sessions` | the administrator's sessions |
| `Posts` | the administrator's requests on posts, readers' links |
| `Slugs` | how a title becomes a slug, and old posts get theirs |
| `FeedPaging` | the server's pages and the client that appends them |
| `TextAnalysis` | verdict and fingerprint of a comment's text |
| `PostContent` | the blocks of a post, read, written and summed up |
| `Backup` | uploads, posts that refer to them, backups |
| `SchemaUpgrade` | abstract: what a start of the server does to a database |
| `Migrate` | the start, step by step; implements `SchemaUpgrade` |
| `SchemaInspection` | which databases the server recognises and what it makes of them |
| `DatabasePool` | connections, locks and the cleanup mutex |
| `CommentForm`, `Composer`, `AudioPlayer` | the stateful parts of the pages |
| `MCCommentSubmission`, `MCLikes`, `MCSessions` | instances: policies, submissions, initial boards, symmetry |
| `MCCommentText`, `MCFingerprints`, `MCPostContent`, `MCSlugs`, `MCSchemaInspection` | the inputs over which the algorithms are checked |
| `MCRequests`, `MCPosts`, `MCStorage`, `MCFrontend`, `MCAlgorithms` | one instance for several components |
| `RequestsProofs`, `CommentSubmissionProofs`, `LikesProofs`, `SessionsProofs`, `PostsProofs`, `StorageProofs`, `FrontendProofs`, `AlgorithmsProofs` | theorems (section 4) |

The last five instances put components side by side that share no state a
property is about. A variable `part` says which of them a behaviour is of; the
others rest in a state in which a behaviour of theirs may end, so that their
properties and their fairness ask nothing of it.

Definitions that begin with "Mutant:" stand beside a definition they would
replace (`PurgeUsesEarly`, `WalkedAll`, `FreshToTheEnd`, ...); no specification
uses them. Each is a plausible mistake in the code; put in place of its
original, TLC finds a property violated, one at least for every property of
section 3.

### FixedWindowLimiter

`entries` is the map of `fixedWindowLimiter`, `nextCleanup` its field, `limit`
its `max`. `allow` holds one mutex throughout, so a call is one action, one
for each outcome: `OpenWindow`, `CountHit`, `Refuse`. All of them sweep first,
as the code does. A missing entry reads as Go's zero value, whose reset time is
past at every clock reading; the two are one value here. A limit that is not
positive lets every request through and touches nothing: no action is enabled
then but the clock's. `grants` and `refusals` are history.

### Antispam and CommentSubmission

`Antispam` has no state: its operators take the tables and return them. Each
corresponds to a method of `antispam.Service` or to a query in one, and keeps
the comparison the code makes, on stored times where the code compares stored
times (`FormatTime` cuts to the second).

In `CommentSubmission` a request is a process. `pc[r]` says which transaction
comes next:

    idle -Arrive-> mute -CheckMute-> screen -Screen-> post -FindPost-> parent -FindParent-> consume
      consume -Consume-> assess -Assess-> create -Create-> record -RecordAttempt-> done
      screen -> honeypot -Honeypot-> retry_after or done
      assess -> limited -Limited-> retry_after or done
      every rejection -> record

`Screen` is the part of the handler without database access, with the outcome
of the first check that fails. `Fail` ends a request at any statement: a
database error, a client that went away. `Restart` loses the requests in flight
and the time of the last cleanup. Between any two steps `Tick` moves the clock,
`Issue` issues a challenge, and the administrator approves, rejects, deletes or
unmutes. Abstractions, each a decision that a reader should know of:

- A statement or transaction together with the clock reading it uses is one
  action. The time a statement waits for the write lock after `now` was read is
  not modelled here (it is in `Likes`, where the reading is far from the lock).
- `cleanupAttempts` and the statement after it are one action: the cleanup only
  removes rows that no window counts, which `CooldownKept`, `NoRepeatedText`
  and `SimilarTextsWait` depend on and check.
- `ActiveMute` deletes and selects in two statements, here in one; `RateLimit`
  reads the clock once more, a moment after `AttemptStats`, here once.
- A token is a challenge's identity: the HMAC is taken to be unforgeable, and
  the hash the database stores to be one per token.
- `Fingerprint` maps a text to its fingerprint, as `TextAnalysis` computes it;
  `signals` is the sum of the scores of the request's source and its text.
- Rows of the honeypot and of a rate limit are `rejected` in the code and told
  apart by their reason; here they have statuses of their own. Both count as
  rejected wherever the code counts rejections.
- Whether the database has the foreign key of `parent_id` is chosen at the
  start (`parentForeignKey`): the code supports legacy databases without it.
- `comment_attempts` has no foreign key: its rows survive the post.
- Comment ids come from AUTOINCREMENT and are never used twice; a request
  stores one comment at most, so a new comment bears the name of its request.

`createdAt`, `log`, `earlier` and `pardoned` are history: no action's guard or
effect on the program's state depends on them.

### Likes

`Arrive` is the handler up to `time.Now()`; `Like` is the immediate transaction
with the time read before it waited. Between them at most `LockWait` passes.
Posts and comments are both items, with event tables of their own (`Clean`
removes rows of the item's table only); a comment that is not visible is not
found. `log` and `refusals` are history.

### Sessions

A login is three statements (the sweep of expired rows, the insert, the answer
with the cookie); every other request selects its row, reads the clock after
that, and goes on to the check of the CSRF token, to a logout, or to the
deletion of a row whose times are not valid. `SetBack` sets the wall clock back,
`Restart` loses the requests in flight. A session is named by the login that
made it: tokens are random and never repeat. `granted`, `ended` and
`endedBefore` are history.

### Posts and Slugs

A slug is a pair of base and number, number 0 for the base alone, so that
`Candidate` is the expression of `Create`'s loop. `request[c]` holds the
statement that comes next: `Insert` (again and again while the slug is taken),
`Update` with `Lookup` when no row was changed, `Delete`, and `ReadBack`, the
`AdminByID` after a write. `Learn` gives a reader the slug a post has, by the
feed or by the redirect of a legacy link. `Slugs` has the algorithms themselves,
over titles as sequences of characters: `Slugify` scans a title as the code
does, `Backfilled` and `AddPostSlugs` are the migration's backfill, and
`AcceptedSlug` is the test of a slug that a client sends.

### FeedPaging

A page is one statement (`Feed`): `LIMIT + 1` rows older than the cursor. The
client is `loadMore` with its guards, `loadedCursors` and the `finally`;
`Settle` is the continuation after the await, which an aborted request reaches
too. Posts are created in the clock's second, which may be set back, and
unpublished. `since` is history: what was there at the first page.

### TextAnalysis and PostContent

Pure operators. A loop of the code is a recursive function from the length of
what was read to the loop's variables: `Through` in `TextAnalysis`, `SummedUp` in
`PostContent`, `Scanned` and `AddPostSlugs` in `Slugs`. Thresholds are constants,
those of `config.go` and those that `content.go` has in the code. A hash is the
text it is a hash of.

A text is a sequence of graphemes of eight classes, which have no grapheme in
common (`TextAssumption`). Some classes have members that one function treats on
their own: the letters of the Latin alphabet (`likelyRandomToken` looks for `a` to
`z` and `A` to `Z`), the connectors `_` and `-`, `<` and `>`, which a fingerprint keeps
as it keeps all numbers (`Angles`, `Numbers`), and U+0085, which counts as a
grapheme but is no token (`Unprinted`, `Invisible`). Left out are

- graphemes of several runes or UTF-16 units (most emoji, a letter with a
  combining mark), which count once in some of the code's checks and several
  times in others;
- lower case that depends on the context, takes several characters or is that of
  another class (the Greek final sigma, the dotted capital I, Roman numerals,
  circled letters);
- texts in which letters and marks spell the marker of a link. The marker is one
  grapheme here, so that a text with links is shorter than it is in the code;
  `MCCommentText` therefore types no links, and verdicts are judged on texts
  without them. In a fingerprint a link is one unit, which matters only for
  where a long fingerprint is cut.

A document is a sequence of records whose fields are JSON values, since strict
and lenient reading differ in what they make of values of the wrong kind.

### Backup

`upload[f]` follows a file from its temporary name over the check to its final
name and the answer. A backup takes the mutex, a place of the limiter, a
temporary directory, the snapshot, the audit, the walk over the files, and
answers with the archive; each is a step, and every failure runs the deferred
calls. `Crash` runs none of them: what it leaves on the disk stays. Posts refer
to files without the server checking that they are there, and no file is ever
removed with its post.

### SchemaUpgrade, Migrate and SchemaInspection

`SchemaUpgrade` is the promise of `doc/docs/DATA_COMPATIBILITY.md`: old or new,
never between. `Migrate` cuts a start into `Open`, `ReadState`, `Validate`, the
reservation and the filling of a backup directory, and the immediate
transaction, in which the work is on a copy (`work`) until it commits, one post
after another given its slug. Any step may fail, a process may die in each and be started again, and two run on one
file. `SchemaInspection` takes such a start as one step and looks at columns,
keys and indexes instead, which earlier releases and the owner's hand change
between two starts.

### DatabasePool

A request is the sequence of its waits and releases (`Program`): connections,
the shared and reserved locks of SQLite's rollback journal
(`sqlite_test.go:99-103` requires that WAL stays off), and `cleanupMu`, which is
held while a statement waits for both. What the statements do is in the other
modules.

### CommentForm, Composer and AudioPlayer

Each `await` of the components cuts a function in two actions; between them the
reader goes on and answers arrive in any order or not at all. `CommentForm` has
the server's side of a challenge (issued in whole seconds, aged with fractions,
consumed once). `Composer` follows a draft over several openings of the editor;
`AudioPlayer` follows one media element, whose behaviour is the browser's and is
modelled from how the plugin uses it: its promises settle and its events come
later than what caused them.

## 3. What TLC checks

| run | instance | properties |
|---|---|---|
| `requests` | two clients, window 3, limits 0 to 2, clock to 6; or three requests of six kinds, two connections, two hours | `AtMostTwiceTheLimit`, `RetryAfterIsExact`, `SweepForgetsIdleKeys`, `LocksKept`, refinement `ImplementsQuota`, liveness `EveryRequestEnds` |
| `comment_tokens` | two requests, one token, two posts, seconds of two ticks, TTL 4, clock to 9 | `TokenAdmitsOneComment` |
| `comment_rates` | two requests, two clients, posts and texts that resemble one another, a cleanup due every tick, clock to 4 | `CooldownKept`, `NoRepeatedText`, `SimilarTextsWait` |
| `comment_limits` | three requests under quotas of two; either two clients, a challenge each, to clock 2, or one client that springs the trap, is rejected or valid, with unmuting, to clock 3 | `QuotasKept`, `MutesHold` |
| `comment_threads` | two requests that may reply to one another and to a stored thread, two posts, full administrator, with and without the foreign key | `RepliesStayOnTheirPost`, `NoOrphans`, `ThreadsGoWhole` |
| `likes` | three requests, two clients, a post and its comment, seconds of two ticks, clock to 7 | `LikesApart`, `LikesAreCounted`, `RetryAfterSuffices` |
| `sessions` | three requests, lifetime 3, skew 1, seconds of two ticks, clock to 5, set back once | `EndedForGood`, `WithinLifetime` |
| `posts` | two clients, a reader, three posts, three requests, two titles; or a feed of five posts, pages of two, one leave, one failure, one step of the clock back | `LinksLead`, `RefusalsAreTrue`, `FeedContinues`, liveness `Answered`, `ReachesEnd` |
| `storage` | two processes on a production database, two faults, one use; or two files, two clients, three backups, two crashes | `StartsSafely`, `ArchivesAreWhole`, `RefusesOnlyUnknown`, `NothingLeft`, refinement `Upgrades`, liveness `StorageRecovers` |
| `frontend` | a form with three instants to a second, challenges of two seconds, three of them and two texts; or a composer with three edits, three openings, two publications; or a player with two tracks and five calls | `FormIsSound`, `DraftsAreKept`, `PlayerShowsTheTrack`, liveness `SendingEnds`, `ButtonFollows` |
| `recovered_draft` | the composer | `RecoveredIsUnpublished`, violated (section 6) |
| `algorithms` | titles of six characters or three of five together; texts of six graphemes; comments of three pieces and their variations; documents of three blocks; three tables and three changes from outside | `SlugsHold`, `CommentsAreJudged`, `ContentIsKept`, `SchemasAreKnown` |

Several invariants are conjunctions whose parts have names and comments of
their own: `LocksKept` of `WaitsInOrder`, `NothingHeldAfterwards` and
`OnceAnHour`; `FeedContinues` of `PagesContinue` and `NothingSkipped`;
`StartsSafely` of `BackupBeforeChange` and `ServesUpgraded`; `FormIsSound` of
`ChallengesAreSpentOnce`, `ExpiresOnlyOnTheWay` and `CommentsAreNotLost`;
`DraftsAreKept` of `SavedIsStored`, `NothingUnsaved` and `PublishedIsGone`;
`PlayerShowsTheTrack` of `FailuresAreOfTheTrack` and `RetriesLoad`; the four of
`algorithms` likewise. A type invariant is one of the parts where TLAPS does not
prove it as a theorem of its own.

Why the bounds are enough to be interesting.

- `requests`: two windows and the sweep between them fit, and a client can spend
  one limit at the end of a window and one at the start of the next. Three
  requests on two connections: one of them waits, while another may hold the
  mutex, and the third the file's lock.
- `comment_tokens`: within nine ticks a token expires (4, with a skew of 2), is
  verified at the last moment and waits the longest admissible time, while a
  cleanup looks for uses to purge. The clock ends before a cleanup may remove
  one, so the run shows that none is removed too early (the mutant
  `PurgeUsesEarly` removes it and admits a second comment); histories in which
  purges do remove uses are covered by the theorem `SingleUse`.
- `comment_rates`: the windows are 2 and 3 and the retention is the longer, so a
  row outlives some windows and is removed while the second request is under way.
- `comment_limits`: the third request meets quotas that two before it
  exhausted, in every split between clients; a mute lasts two ticks, so a second
  offence extends a mute in force and a third request finds it lifted, expired
  or extended. The constraint `LimitScenes` lets no mute but a honeypot's precede
  a stored comment: in the other scene all requests are valid, and in this one
  they share one challenge. Mutes for rejections before a stored comment are
  covered by the theorem of `MutesHold`.
- `comment_threads`: a stored chain of comments, any link of which may be cut
  between the lookup of the parent and the insert. There is one token, which adds
  one reply at most; chains that grow in the run are covered by the theorem
  `RepliesGoAlong`.
- `likes`: two cooldowns fit, and one request may be overtaken by another while
  it waits.
- `sessions`: a login, and two requests with its cookie that race with its
  logout, its expiry, or the sweep of the second login.
- `posts`: two creations with one title, a third request that edits or deletes
  what they made; named slugs include the one a creation derives with its
  suffix. Five posts in pages of two are three pages, and two of the posts may
  have one second.
- `storage`: the second process may start between any two steps of the first,
  and each may die and start again. Two files, so that one may be walked over
  and the other not yet, and a third backup after two crashes.
- `frontend`: the second text and third challenge follow a lost answer and an
  expired challenge; the third opening of the editor follows a publication
  whose answer comes after the second; five calls bring back a track whose
  first `play()` has not settled.
- `algorithms`: thresholds are scaled down to the lengths explored (runs of two
  and three, a variety rule from six graphemes), so every check is met from both
  sides; a fingerprint of three pieces is longer and shorter than the cut of
  five; three titles are the fewest in which a numbered slug meets a plain one.

Symmetry is declared between requests, tokens and clients that no constant of
the instance tells apart, and only in runs without liveness properties.
Deadlock is checked in the runs of comments, likes and sessions; elsewhere the
bounds of the instance end a behaviour, or the system may stop: a limiter that
is switched off has no step, a start that is refused is over.

### Fairness

Weak fairness only, and only of what the program goes on with by itself; no
specification assumes that a user does anything, or that nothing fails.

- `Posts`, `Migrate`: the handler of a request goes on (`Steps(c)`), and so does
  a start of the server, which its supervisor repeats after a failure
  (`Steps(p)`); failures are bounded.
- `Backup`: a backup goes on (`Proceed(a)`), bounded by the handler's deadline
  of fifteen minutes, and the limiter's minute passes (`Minute`).
- `DatabasePool`: some request that can go on does, one condition for all of
  them: SQLite promises no order among waiters, and none is needed. No timeout
  is fair, so that the absence of deadlocks does not lean on them.
- `FeedPaging`: a reader who reads on, one condition for all of `Reading`.
- `CommentForm`: requests are answered or fail and the code after an await runs.
- `AudioPlayer`: promises settle and events are delivered, as the browser's
  event loop does.

### Easily misread

- `CooldownKept`, `QuotasKept`, `NoRepeatedText` and `SimilarTextsWait` speak of
  attempts recorded before the request arrived. Requests in flight together do
  not see each other: `AttemptStats`, `Create` and `RecordAttempt` are separate
  transactions, and the code promises no more. `CooldownKept` also needs
  `Cooldown <= Retention`: `config.go` checks each duration by itself, and a
  cooldown beyond every other window would outlive the rows it looks for.
- `TokenAdmitsOneComment` has no such reservation. It rests on
  `HandlingAssumption`: between verifying a challenge and consuming it a request
  spends at most one TTL. The TTL is half an hour by default; in between lie two
  reads, each bounded by the busy timeout of five seconds.
- `MutesHold` speaks of requests that arrive after the offence was recorded; one
  that had passed the mute check may still store its comment.
- `LikesApart` rests on `WaitAssumption`: events are kept for the cooldown and
  the longest wait together (fourteen days against ten seconds and the busy
  timeout, by default).
- `EndedForGood` speaks of requests that arrive after a session ended; one that
  was authorised before goes on, as in the code.
- `RefusalsAreTrue` says what was true at some moment of the request, not at its
  answer: another window may act in between.
- A post may name a file that was never uploaded; a backup is then refused.
  `RefusesOnlyUnknown` says that it is refused for no other file: not for one
  whose address a client was given.
- `DifferentWordsPass`, a part of `CommentsAreJudged`, is stated for texts below
  the length at which the variety rule begins (section 6).

## 4. What TLAPS proves

For all values of the constants that satisfy the named assumptions, with no
bound on clients, requests, tokens or time (`ClockLimit` is any number):

- `RequestsProofs`: `TypeCorrect`, `SlidingBound` (`AtMostTwiceTheLimit`),
  `RetryAfterExact`, `IdleKeysForgotten` and `LimiterImplementsQuota`. The
  invariant says of every request let through in which window it was counted and
  as which; two windows of one client do not overlap, so an interval of one
  window's length meets two of them at most, and numbering their requests maps
  them one to one into `1..2*limit`. The refinement needs the invariant only to
  know that a swept entry had expired. `LocksAreKept` (`LocksKept`), for any
  number of requests and connections: a request's place in its program says what
  it holds. `PoolInv` follows the program from one instruction to the one that
  may follow it (`Chain` over `Follows`), so that what is left of it releases
  what is held and asks for nothing out of order; whoever is about to note a
  cleanup looked after the last one.
- `CommentSubmissionProofs`: `TypeCorrect` and `SingleUse`
  (`TokenAdmitsOneComment`). The property alone is not inductive: that a second
  request is refused follows from the stored use of the token, which is purged
  by age. `TokenInv` therefore adds that a challenge was issued in the past
  (`IssuedInThePast`), that a comment was stored after its request consumed its
  token (`CreatedOnce`), that a request on its way to consume does so within two
  TTL of the issue (`ConsumedInTime`), and that a token that was spent is in
  `uses` or so old that nobody is on the way with it any more (`SpentOnce`).
  The arithmetic of the purge, which compares times cut to the second, is in
  `FormatTimeMonotone` and `ConsumeInv`.
  Threads: `RepliesOnTheirPost` (`RepliesStayOnTheirPost`), `ParentsPresent`
  (`NoOrphans`) and `RepliesGoAlong` (`ThreadsGoWhole`). Between
  the lookup of a parent and the insert the parent may go; `ThreadInv` says that
  whoever has found its parent finds it on its own post if it finds it at all,
  and that nothing is stored under the id of a request that has not stored its
  comment. `Thread(c)` is closed under replies, so what a deletion takes away
  leaves no reply behind.
  Rates: `CooldownHolds`, `QuotasHold`, `RepeatsRefused` and `SimilarHeld`. The
  invariant `RateInv` says that a recorded row is in the
  table or older than the retention (`Remembered`: no cleanup, restart or
  failure loses one that a window counts), that no row is dated in the future,
  and that a request about to store its comment is within the limits at this
  clock reading, not only at the reading of `Assess` (`AdmittedInv`): windows
  only shrink as time passes. For the cooldown, which the code tests on the
  latest row only, a latest row must exist (`GreatestExists`).
  Mutes: `MutesUpheld` (`MutesHold`). `MuteInv` adds to `RateInv` that an offence
  that nobody pardoned has a mute in the table which ends a whole mute after it,
  or is so old that it would be over (`OffencesMute`: an upsert never moves an
  end forward in time, a purge takes only what has run out), and that whoever
  passed the mute check answers for nothing (`PassedClean`). Mutes last whole
  seconds, which survive the cut of `FormatTime` (`WholeSeconds`).
- `LikesProofs`: `TypeCorrect`, `OneLikePerCooldown` (`LikesApart`),
  `CountersExact` (`LikesAreCounted`) and `WaitSuffices`
  (`RetryAfterSuffices`). The invariant adds that a waiting request read the
  clock at most `LockWait` ago, that an event is forgotten only when it is older
  than the retention (`Remembered`), hence past the cooldown of whoever still
  waits, and that a refusal names a time by which every event it knew of has
  cooled (`RefusalsJustified`). A like that commits after one requested later
  than itself is covered: stored times are less than a second, and so less than
  a cooldown, behind.
- `SessionsProofs`: `SessionTypes`, `EndForGood` (`EndedForGood`) and
  `GrantsWithinLifetime` (`WithinLifetime`). An ended session is gone from the
  table and no login brings it back (`EndedAreGone`, with `RowsOfLogins`: a row
  bears the name of a login that inserted it once); what a handler read is what
  the row was when inserted, for rows never change (`Known`), so that a row read
  before a deletion can admit only whoever arrived before it.
- `StorageProofs`: `BackupTypes`, `ArchivesWhole` (`ArchivesAreWhole`),
  `RefusalsOnlyUnknown` (`RefusesOnlyUnknown`) and `NothingIsLeft`
  (`NothingLeft`). A file whose address was told is stored (`ToldAreStored`), and a stored
  file stays, so that the audit's verdict still holds at the walk, later than
  it; `Packing` says what a listing and an archive under way contain;
  `OneDirectory` ties the temporary directories to the mutex and to crashes.
  `ServersStartSafely` (`StartsSafely`) and the refinement `StartsUpgrade`
  (`Upgrades`), for any number of processes, faults and posts: the database is
  the original one until it is upgraded (`DatabaseInv`), whoever is past the
  backup has a copy of the original (`CopyMade`, `Filling`), and the copy in a
  transaction is the database, that with its first posts given slugs
  (`HalfUpgraded`) or the upgraded one (`WorkInv`). A commit is then the one step
  of `SchemaUpgrade` or a stutter, and every other step a stutter.
  `SchemasHold` (`SchemasAreKnown`), for any tables, columns,
  keys and indexes of the releases and any number of changes from outside. The
  prover sees every original database through its migration: `OriginalsFinal`
  compares what becomes of each, table by table, with a new one's; `Migrates`
  shows that what `Inspect` recognises passes `validateMigratedSchema` after the
  ALTERs and CREATEs, unless a name or a place they need is taken, for which
  `Sane` says what an index may be whoever touched it. `SchemaInv` carries this
  over starts and changes: what was served and only added to still passes every
  check (`Served`), and a database nobody changed is original or final.
- `PostsProofs`: `PostsTypes`, `LinksKeepLeading` (`LinksLead`) and
  `RefusalsStayTrue` (`RefusalsAreTrue`). `Table` says that no two posts have
  one slug and that ids are handed out in order, which makes a post that is gone
  stay away; `Promised` says what a request carries from one statement to the
  next, and which refusals it justifies. `FeedIsContinued` (`FeedContinues`), for
  every page size and any number of posts and visits: the reader has what is
  newer than the cursor (`Skipless`) in the order of the feed (`ShownInv`), and
  an answer on its way lies between its cursor and the next and leaves nothing
  out (`PageFits`), whatever was published or removed since it was read.
- `FrontendProofs`: `TheFormIsSound` (`FormIsSound`), `TheDraftsAreKept`
  (`DraftsAreKept`) and `TheTrackIsShown` (`PlayerShowsTheTrack`). `FormInv` says
  that a challenge in an answer is the latest and that nobody has sent it
  (`OnItsWay`), and how old the one in a request may be (`Carried`);
  `ComposerInv`, that the instance on the page still holds what it sent and that
  no other waits for an answer unless one was opened over a publication
  (`Sent`); `PlayerInv`, that a settled promise of the present generation is
  about the present track.

- `AlgorithmsProofs`: what the pure algorithms compute of inputs of any length.
  The library's induction theorems take an operator, which the provers cannot
  instantiate; here the induction is over the least element of a set
  (`StrongInduction`, from the well-foundedness of `Nat`), and `Recursion` shows
  that a recursive function over an initial interval exists and is determined by
  its steps. Each loop then has one lemma that gives its value and its step
  (`TokensEndIs` for the tokens).
  `SlugsAreSound` (`SlugsHold`): the scan of a title yields a slug or nothing,
  truncating a slug leaves one, two numbers have two numerals, so that among
  finitely many used slugs a candidate is free; each post is given a slug that no
  post before it has, and those before keep theirs.
  `ContentIsSound` (`ContentIsKept`): a block that was read is trimmed and within
  its limits, so that writing it and reading it again finds the same fields;
  the feed's summary holds the first paragraph of what was read so far and the
  best medium of it (`TextStands`, `MediumStands`), step by step.
  `CommentsAreSound` (`CommentsAreJudged`) has four parts. A counter at an element is
  the length of the run that ends there, so a refusal names a run that is too
  long and a run that is too long is refused (`RunsAreFound`). The tokens without
  their borders are the visible text in lower case (`TextIsKept`), U+0085 being as
  invisible as whitespace. In a text of
  different words the tokens are the words, and no share that
  `TextAssumption` permits is reached by one word or by no symbol
  (`DifferentWordsAreFine`). For fingerprints, the
  four passes are fused into one state per grapheme (`Weighed`, equal to the
  passes one after another by `FingerprintIs`); `VariationsWeigh` is the
  invariant: no link is open at the end of a piece, both texts weigh the same
  while only case, digits, noise, whitespace or links differ, and once a sign
  (`Signs`: a letter, a number other than a digit, `<` or `>`) differs the signs in
  the weights differ and stay so, as `Sign` appends different ones to equal
  weights and every piece appends equal ones afterwards.

The assumptions are the named `ASSUME`s of the modules, which TLC evaluates in
every run: ranges that `config.go` enforces, `HandlingAssumption`,
`WaitAssumption`, and that the values standing for "none" are not values of
another kind. Type invariants that are proved are not checked again by runs.

Some of them are there for the proofs and say what the code has by construction:
that durations are whole seconds (`PolicyAssumption`), that the early columns and
those the ALTERs add are together the columns of version 1, and that the name of
an index belongs to one table (`ColumnsAssumption`, `IndexesAssumption`), that a
grapheme is of one class and that what a fingerprint is written with (`0`, a blank,
the word for a link) is no other grapheme
(`TextAssumption`), what the characters of slugs are (`CharactersAssumption`), and
which JSON values stand for text and that no empty address is accepted
(`ContentAssumption`; addresses may hold blanks). `TypedAssumption` and
`EditsAssumption` say what TLC's texts are made of, markers of links not among
those whose repetition is judged; their lengths are arbitrary in the theorems.

Every safety invariant and action property that a run checks has a theorem.
Only model-checked are the liveness properties, since fairness and ENABLED are
beyond the prover: `EveryRequestEnds`, `Answered`, `ReachesEnd`,
`StorageRecovers`, `SendingEnds` and `ButtonFollows`. `LocksKept`, on which
`EveryRequestEnds` leans, is a theorem. The violation of `recovered_draft` is a
run's as well.

## 5. What is next

1. `CommentBoard`, an abstract comment board that `CommentSubmission` implements.
2. The scores for links, capitals and promotional words, as constants' tables, so
   that `TextAnalysis` computes the number `signals` that `CommentSubmission` takes.

## 6. Observations

A violated run, and what else a reader of the code may want to know. None of the
latter contradicts a document of the repository, so that no property states it.

- `recovered_draft`: when the server stores a post and its answer is lost, or
  the page is closed before it, the draft stays in the browser and is recovered
  later with the message "Changes are not published yet." (`i18n.ts:225`),
  although it may be published already (`Composer.vue:44`). Publishing it again
  makes a second post.
- `SavedIsStored` and `PublishedIsGone` except an overlap the code permits:
  logging out while publishing and opening the editor again lets the late
  `removeItem` delete a newer stored draft (`overlapped`). Two tabs share the
  key as well; one tab is modelled.
- A backup directory left incomplete by a crash cannot be told from a complete
  one by its name, and each start that fails after its backup leaves another.
- A version 1 database with a column added to `posts` passes `Inspect`, but the
  check of migration 2 refuses it (`migrate.go:296-299`): the additions that
  `AdditionsAreServed` speaks of are those made to a database of version 2.
- An update of an id that is not created yet, racing with its creation, can be
  answered `slug_immutable`: the second statement finds a post that the first
  did not.
- The share of different characters is compared with 0.08 from 120 characters on
  at any length (`content.go:126`): a text of more than 325 lower-case Latin
  letters has too few letters of the alphabet to reach it and is refused as
  repetitive.
- A challenge is issued in whole seconds and aged with fractions; the margin of
  one second in the form compensates exactly that (`ExpiresOnlyOnTheWay`).
- Submitting a comment passes a signal of its own, so that the timeout of
  fifteen seconds in `utils/api.ts:43` does not apply to it.
- After a failed load the media element is not paused, so that `sync` may show
  the button of a playing track; `ButtonFollows` excepts unavailable tracks.
- `SECURITY.md:40` recommends to clean expired sessions periodically; the code
  does so at a login and at the use of the session itself.
- A legacy title of more than 200 characters gets a slug longer than `Validate`
  accepts (`write.go:39`) when it is sent back. The length of slugs is not
  modelled.

## 7. What is not modelled

- The character rules of `safeMediaSource` and `safeLink` (two constants of
  `PostContent`), reading minutes and the preview's media.
- The scores for promotional words, links and capitals: a table of wordings,
  which enters `CommentSubmission` as `signals`.
- The media types that `media.Inspect` recognises: its verdict is a choice.
- Reading the environment in `config.go`; the ranges it enforces are
  assumptions.
- The router, the client's address behind proxies, RSS, HTTP formatting and the
  serving of files, which keep no state.
- Volume and position of the audio player, the text editor inside the composer,
  layout and wording.
