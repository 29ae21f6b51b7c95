------------------------- MODULE FixedWindowLimiter -------------------------
(***************************************************************************)
(* The in-memory rate limiter of the HTTP layer                            *)
(* (backend/internal/httpapi/limiter.go): one map entry per client key,    *)
(* a fixed window that opens with the first request, and a sweep of the    *)
(* expired entries at most once per window.  allow() runs under one mutex, *)
(* so each of its outcomes is one action; a limiter whose max is not       *)
(* positive lets every request through and touches nothing.                *)
(*                                                                         *)
(* A missing map entry reads as Go's zero value, whose reset time lies     *)
(* before every clock reading, so "missing" and "zero" are one value here. *)
(***************************************************************************)
EXTENDS Integers, FiniteSets

CONSTANTS
    Keys,       \* the client keys that call the limiter (IP addresses)
    Window,     \* fixedWindowLimiter.window, in clock units
    Limits,     \* the values of fixedWindowLimiter.max considered
    ClockLimit  \* the largest clock reading explored

ASSUME LimiterAssumption ==
    /\ Window \in Nat \ {0}
    /\ Limits \subseteq Int
    /\ ClockLimit \in Nat

VARIABLES
    limit,        \* fixedWindowLimiter.max of this instance
    clock,        \* what l.now() returns
    entries,      \* the map: key -> [count, reset]
    nextCleanup,  \* no sweep before this time
    grants,       \* history: every counted request that was let through
    refusals      \* history: the latest refusal of each key, if any

vars == <<limit, clock, entries, nextCleanup, grants, refusals>>

Zero == [count |-> 0, reset |-> 0]

\* A window that is still open at its own reset time.
ExpiredLate(entry) == clock > entry.reset

Expired(entry) == clock >= entry.reset

\* One request more than the limit.
FullLate(entry) == entry.count > limit

Full(entry) == entry.count >= limit

RetryAfter(entry) == entry.reset - clock

(***************************************************************************)
(* The map as a call finds it after its sweep: when a sweep is due every   *)
(* expired entry is deleted.                                               *)
(***************************************************************************)
SweepDue == clock >= nextCleanup

\* A due sweep deletes the open windows as well.
SweptOfAll == [k \in Keys |-> IF SweepDue THEN Zero ELSE entries[k]]

\* A due sweep deletes nothing.
SweptOfNone == entries

Swept ==
    [k \in Keys |-> IF SweepDue /\ Expired(entries[k]) THEN Zero ELSE entries[k]]

Sweep == nextCleanup' = IF SweepDue THEN clock + Window ELSE nextCleanup

Init ==
    /\ limit \in Limits
    /\ clock = 0
    /\ entries = [k \in Keys |-> Zero]
    /\ nextCleanup = 0
    /\ grants = {}
    /\ refusals = [k \in Keys |-> {}]

Tick ==
    /\ clock < ClockLimit
    /\ clock' = clock + 1
    /\ UNCHANGED <<limit, entries, nextCleanup, grants, refusals>>

\* The entry now stored for k, and the record of the request it let through.
Count(k, entry) ==
    /\ entries' = [Swept EXCEPT ![k] = entry]
    /\ grants' = grants \cup {[key |-> k, opened |-> entry.reset - Window,
                               nth |-> entry.count, at |-> clock]}

OpenWindow(k) ==
    /\ limit > 0
    /\ Sweep
    /\ Expired(Swept[k])
    /\ Count(k, [count |-> 1, reset |-> clock + Window])
    /\ UNCHANGED <<limit, clock, refusals>>

CountHit(k) ==
    /\ limit > 0
    /\ Sweep
    /\ ~Expired(Swept[k])
    /\ ~Full(Swept[k])
    /\ Count(k, [Swept[k] EXCEPT !.count = @ + 1])
    /\ UNCHANGED <<limit, clock, refusals>>

Refuse(k) ==
    /\ limit > 0
    /\ Sweep
    /\ ~Expired(Swept[k])
    /\ Full(Swept[k])
    /\ entries' = Swept
    /\ refusals' = [refusals EXCEPT ![k] =
                       {[at |-> clock, retryAfter |-> RetryAfter(Swept[k])]}]
    /\ UNCHANGED <<limit, clock, grants>>

Next ==
    \/ Tick
    \/ \E k \in Keys : OpenWindow(k) \/ CountHit(k) \/ Refuse(k)

Spec == Init /\ [][Next]_vars

-----------------------------------------------------------------------------

\* Every variable has its type; a refusal never gives a negative wait.
TypeOK ==
    /\ limit \in Limits
    /\ clock \in 0..ClockLimit
    /\ entries \in [Keys -> [count : Nat, reset : Nat]]
    /\ nextCleanup \in Nat
    /\ grants \subseteq [key : Keys, opened : Nat, nth : Nat, at : Nat]
    /\ refusals \in [Keys -> SUBSET [at : Nat, retryAfter : Nat]]

\* The requests of key k let through at or after time t and less than one
\* window later.
GrantedWithin(k, t) ==
    {g \in grants : g.key = k /\ t <= g.at /\ g.at < t + Window}

(***************************************************************************)
(* However a client times its requests against the window boundary and     *)
(* against the sweep, no interval as long as the window lets more than     *)
(* twice the limit through: allow() starts a new count only when the old   *)
(* window is over.                                                         *)
(***************************************************************************)
AtMostTwiceTheLimit ==
    \A k \in Keys : \A t \in 0..ClockLimit :
        limit > 0 => Cardinality(GrantedWithin(k, t)) <= 2 * limit

(***************************************************************************)
(* The Retry-After a refused client is given is exact: until then the key  *)
(* stays refused, and from then on its old window is gone.                 *)
(***************************************************************************)
RetryAfterIsExact ==
    \A k \in Keys : \A r \in refusals[k] :
        LET due == r.at + r.retryAfter
        IN  /\ r.retryAfter \in 1..Window
            /\ clock < due => entries[k] = [count |-> limit, reset |-> due]
            /\ clock >= due => \/ Expired(entries[k])
                               \/ entries[k].reset >= due + Window

(***************************************************************************)
(* The map does not keep the keys of clients that went away: an entry that *)
(* is still stored was live when the last sweep ran, so after any call it  *)
(* has expired less than one window ago.                                   *)
(***************************************************************************)
SweepForgetsIdleKeys ==
    \A k \in Keys : entries[k] # Zero => entries[k].reset > nextCleanup - Window

(***************************************************************************)
(* The sweep is invisible: every call answers as the limiter that keeps an *)
(* entry exactly while its window is open and forgets nothing early.       *)
(***************************************************************************)
LiveEntries == [k \in Keys |-> IF Expired(entries[k]) THEN Zero ELSE entries[k]]

Quota == INSTANCE WindowQuota WITH quota <- LiveEntries

ImplementsQuota == Quota!Spec
=============================================================================
