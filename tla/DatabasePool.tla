---------------------------- MODULE DatabasePool ----------------------------
(***************************************************************************)
(* What the requests wait for: the four connections of Open                *)
(* (backend/internal/storage/sqlite), the locks of the database file, and  *)
(* the mutex of cleanupAttempts (backend/internal/antispam), which is held *)
(* while a statement waits for both others.  A request is the sequence of  *)
(* its waits and releases; what its statements do is in other modules.     *)
(*                                                                         *)
(* The file has a rollback journal (sqlite_test.go: WAL must remain        *)
(* disabled): readers share it with the one writer that reserved it until  *)
(* that writer commits, who lets no reader in and waits for the last one   *)
(* to leave.  The busy timeout and a cancelled context end a wait with an  *)
(* error, except the wait for the mutex.                                   *)
(***************************************************************************)
EXTENDS Naturals, Sequences, FiniteSets

CONSTANTS
    Requests,     \* the requests that are served at the same time
    Kinds,        \* what they ask for: names of Program
    Connections,  \* maxOpenConnections
    MaxHours      \* bound: hours that pass

Nobody == "none"

ASSUME DatabasePoolAssumption ==
    /\ Connections \in Nat \ {0} /\ MaxHours \in Nat \ {0}
    /\ Kinds \subseteq {"snapshot", "feed", "overview", "like", "attempt", "penalty"}
    /\ Nobody \notin Requests

VARIABLES
    rest,        \* what each request still does, the wait it is in first
    conns,       \* the connections in use: each request's are numbered
    reading,     \* the requests with rows open, each with a shared lock
    writer,      \* the request that reserved the database, or Nobody
    committing,  \* the writer commits: no shared lock is given out
    mutex,       \* the request that holds cleanupMu, or Nobody
    hour,        \* the clock
    lastAttemptCleanup,
    looked,      \* the time at which the mutex' holder looked at the clock
    cleanups     \* history: how often old attempts were deleted

locks == <<conns, reading, writer, committing>>
times == <<mutex, hour, lastAttemptCleanup, looked, cleanups>>
poolVars == <<rest, locks, times>>

-----------------------------------------------------------------------------
\* QueryContext and QueryRowContext, until the rows are closed; VACUUM INTO.
Query == <<"acquire", "share", "close", "release">>

\* As with BEGIN alone, which reads first and writes later.
ImmediateDeferred == <<"acquire", "share", "reserve", "close", "pend", "commit", "release">>
\* A statement that writes, or BEGIN IMMEDIATE up to COMMIT.
Immediate == <<"acquire", "reserve", "pend", "commit", "release">>

\* The comment previews are read while the rows of the posts are open.
FeedRowsNested == <<"acquire", "share">> \o Query \o <<"close", "release">>
\* Feed: the rows of the posts are closed before addCommentPreviews.
FeedRows == Query \o Query

\* Overview: three tables, one after the other.
Overview == Query \o Query \o Query

\* RecordAttempt, whose clean-up Lock adds when it is due.
RecordAttempt == <<"lock", "unlock">> \o Immediate

\* RecordHoneypot and RecordRateRejection, with the mute read back by ActiveMute.
RecordPenalty == <<"lock", "unlock">> \o Immediate \o Immediate \o Query

Program(kind) ==
    CASE kind = "snapshot" -> Query
      [] kind = "feed"     -> FeedRows
      [] kind = "overview" -> Overview
      [] kind = "like"     -> Immediate
      [] kind = "attempt"  -> RecordAttempt
      [] kind = "penalty"  -> RecordPenalty

PoolInit ==
    /\ \E asked \in [Requests -> Kinds] : rest = [r \in Requests |-> Program(asked[r])]
    /\ conns = {}
    /\ reading = {} /\ writer = Nobody /\ committing = FALSE
    /\ mutex = Nobody
    /\ hour = 1 /\ lastAttemptCleanup = 0 /\ looked = 0 /\ cleanups = 0

-----------------------------------------------------------------------------
Held(r) == {c \in conns : c[1] = r}

At(r, instruction) == rest[r] # <<>> /\ Head(rest[r]) = instruction

Advance(r) == rest' = [rest EXCEPT ![r] = Tail(@)]

Acquire(r) ==
    /\ At(r, "acquire") /\ Cardinality(conns) < Connections
    /\ conns' = conns \cup {<<r, Cardinality(Held(r)) + 1>>}
    /\ Advance(r)
    /\ UNCHANGED <<reading, writer, committing, times>>

Release(r) ==
    /\ At(r, "release")
    /\ conns' = conns \ {<<r, Cardinality(Held(r))>>}
    /\ Advance(r)
    /\ UNCHANGED <<reading, writer, committing, times>>

Share(r) ==
    /\ At(r, "share") /\ ~committing
    /\ reading' = reading \cup {r}
    /\ Advance(r)
    /\ UNCHANGED <<conns, writer, committing, times>>

CloseRows(r) ==
    /\ At(r, "close")
    /\ reading' = reading \ {r}
    /\ Advance(r)
    /\ UNCHANGED <<conns, writer, committing, times>>

ReserveLock(r) ==
    /\ At(r, "reserve") /\ writer = Nobody
    /\ writer' = r
    /\ Advance(r)
    /\ UNCHANGED <<conns, reading, committing, times>>

Pend(r) ==
    /\ At(r, "pend")
    /\ committing' = TRUE
    /\ Advance(r)
    /\ UNCHANGED <<conns, reading, writer, times>>

Commit(r) ==
    /\ At(r, "commit") /\ reading = {}
    /\ writer' = Nobody /\ committing' = FALSE
    /\ Advance(r)
    /\ UNCHANGED <<conns, reading, times>>

\* cleanupAttempts reads the clock and whether an hour has passed since the
\* last clean-up; if so it deletes the old attempts and notes the time.
LookAtClock(r) ==
    /\ looked' = hour
    /\ rest' = [rest EXCEPT ![r] =
        (IF lastAttemptCleanup < hour THEN Immediate \o <<"note">> ELSE <<>>) \o Tail(@)]
    /\ UNCHANGED <<locks, hour, lastAttemptCleanup, cleanups>>
Lock(r) == At(r, "lock") /\ mutex = Nobody /\ mutex' = r /\ LookAtClock(r)

Note(r) ==
    /\ At(r, "note")
    /\ lastAttemptCleanup' = looked
    /\ cleanups' = cleanups + 1
    /\ Advance(r)
    /\ UNCHANGED <<locks, mutex, hour, looked>>

Unlock(r) ==
    /\ At(r, "unlock")
    /\ mutex' = Nobody
    /\ Advance(r)
    /\ UNCHANGED <<locks, hour, lastAttemptCleanup, looked, cleanups>>

\* A statement or a wait may fail; the deferred calls end the request.
Abandon(r) ==
    /\ \E step \in {"acquire", "share", "close", "reserve", "pend", "commit"} : At(r, step)
    /\ rest' = [rest EXCEPT ![r] = <<>>]
    /\ conns' = conns \ Held(r)
    /\ reading' = reading \ {r}
    /\ UNCHANGED <<hour, lastAttemptCleanup, looked, cleanups>>
RollBack(r) == writer' = (IF writer = r THEN Nobody ELSE writer) /\ committing' = (committing /\ writer # r)
UnlockMutex(r) == mutex' = IF mutex = r THEN Nobody ELSE mutex
\* The busy timeout, a cancelled context, an error of the database.
FailStatement(r) == Abandon(r) /\ RollBack(r) /\ UnlockMutex(r)

Hour ==
    /\ hour < MaxHours
    /\ hour' = hour + 1
    /\ UNCHANGED <<rest, locks, mutex, lastAttemptCleanup, looked, cleanups>>

Statements(r) ==
    \/ Acquire(r) \/ Release(r)
    \/ Share(r) \/ CloseRows(r)
    \/ ReserveLock(r) \/ Pend(r) \/ Commit(r)
    \/ Lock(r) \/ Note(r) \/ Unlock(r)

PoolNext == Hour \/ \E r \in Requests : Statements(r) \/ FailStatement(r)

\* Some request goes on when what it waits for is free; as no request goes on
\* for ever, every one of them does.  Nothing is assumed of the timeouts: they
\* may never come.
PoolFairness == WF_poolVars(\E r \in Requests : Statements(r))

PoolSpec == PoolInit /\ [][PoolNext]_poolVars /\ PoolFairness

-----------------------------------------------------------------------------
PoolTypeOK ==
    /\ conns \subseteq Requests \X (1 .. Connections)
    /\ Cardinality(conns) <= Connections
    /\ reading \subseteq Requests
    /\ writer \in Requests \cup {Nobody} /\ mutex \in Requests \cup {Nobody}
    /\ committing => writer # Nobody
    /\ \A r \in Requests : (r \in reading \/ writer = r) => Held(r) # {}
    /\ looked <= hour /\ lastAttemptCleanup <= looked

(***************************************************************************)
(* Requests wait in one order, so that none waits for itself around a      *)
(* circle: who waits for the mutex holds nothing, who waits for a          *)
(* connection has none and no lock of the database, and who waits to write *)
(* has no rows open (Feed, Overview, withImmediate, cleanupAttempts).      *)
(***************************************************************************)
WaitsInOrder ==
    \A r \in Requests :
        /\ At(r, "lock") => mutex # r
        /\ At(r, "lock") \/ At(r, "acquire") => Held(r) = {} /\ r \notin reading /\ writer # r
        /\ At(r, "reserve") => r \notin reading

(***************************************************************************)
(* What a request held is free when it ends, with or without an error (the *)
(* deferred Close, ROLLBACK and Unlock).                                   *)
(***************************************************************************)
NothingHeldAfterwards ==
    \A r \in Requests : rest[r] = <<>> =>
        Held(r) = {} /\ r \notin reading /\ writer # r /\ mutex # r

(***************************************************************************)
(* The old attempts are deleted once in an hour at most, however many      *)
(* requests find the clean-up due (cleanupAttempts).                       *)
(***************************************************************************)
OnceAnHour == cleanups <= hour

(***************************************************************************)
(* Connections, locks and the mutex are taken in one order, never more of  *)
(* them than there are, given back with or without an error, and the mutex *)
(* keeps the clean-up from running twice in an hour.                       *)
(***************************************************************************)
LocksKept == PoolTypeOK /\ WaitsInOrder /\ NothingHeldAfterwards /\ OnceAnHour

(***************************************************************************)
(* Every request ends although they wait for connections, locks and the    *)
(* mutex of each other, and would if no timeout helped.                    *)
(***************************************************************************)
EveryRequestEnds == <>(\A r \in Requests : rest[r] = <<>>)
=============================================================================
