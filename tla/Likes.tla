------------------------------- MODULE Likes -------------------------------
(***************************************************************************)
(* Likes of posts and of comments (backend/internal/posts/likes.go,        *)
(* backend/internal/comments/likes.go and their handlers).  A handler      *)
(* reads the clock, then waits for the database's write lock and does the  *)
(* rest in one immediate transaction, with the time it read before it      *)
(* waited.  A like is remembered by an event row, removed by age, and      *)
(* counted on the item; both kinds of item work alike, each with an event  *)
(* table of its own, but a comment must be visible.                        *)
(*                                                                         *)
(* The limiter that both handlers share is FixedWindowLimiter.             *)
(***************************************************************************)
EXTENDS Timestamps, FiniteSets

CONSTANTS
    Requests,            \* the POST requests of a behaviour
    Clients,             \* ip hashes
    Posts, Comments,     \* the items
    Below,               \* Below[i]: the items that are deleted along with i
    Cooldown,            \* LIKE_COOLDOWN_SECONDS
    LikeEventRetention,  \* likeEventRetention, fourteen days
    LockWait,            \* longest time from the clock reading to the commit
    ClockLimit,          \* the largest clock reading explored
    None                 \* no reading, no refusal

Items == Posts \cup Comments

ASSUME LikesAssumption ==
    /\ Posts \cap Comments = {}
    /\ Below \in [Items -> SUBSET Comments]
    /\ Cooldown \in Nat \ {0} /\ Cooldown % Second = 0
    /\ LikeEventRetention \in Nat /\ LockWait \in Nat /\ ClockLimit \in Nat
    /\ None \notin Nat \cup [client : Clients, item : Items]

Retention == IF Cooldown > LikeEventRetention THEN Cooldown ELSE LikeEventRetention

(***************************************************************************)
(* What the cooldown rests on: the event of a like outlives the cooldown   *)
(* by the time a request may wait between reading the clock and looking.   *)
(***************************************************************************)
ASSUME WaitAssumption == Cooldown + LockWait <= Retention

VARIABLES
    clock,
    stored,    \* the posts and comments in the database
    hidden,    \* the comments that are not visible
    likes,     \* likes[i]: the column likes_count
    events,    \* like_events and comment_like_events
    pc,        \* "idle", "like" or "done"
    request,   \* the client and the item of each request
    now,       \* now[r]: the time its handler read
    log,       \* history: every event ever inserted
    refusals   \* history: the cooldown each request was refused for

vars == <<clock, stored, hidden, likes, events, pc, request, now, log, refusals>>

Init ==
    /\ clock = 0
    /\ stored = Items
    /\ hidden \in SUBSET Comments
    /\ likes = [i \in Items |-> 0]
    /\ events = {} /\ log = {}
    /\ pc = [r \in Requests |-> "idle"]
    /\ request = [r \in Requests |-> None]
    /\ now = [r \in Requests |-> None]
    /\ refusals = [r \in Requests |-> None]

-----------------------------------------------------------------------------
Finish(r) == pc' = [pc EXCEPT ![r] = "done"]

\* The request passes the checks before the database; time.Now() is read.
Arrive(r) ==
    /\ pc[r] = "idle"
    /\ \E c \in Clients, i \in Items :
          request' = [request EXCEPT ![r] = [client |-> c, item |-> i]]
    /\ now' = [now EXCEPT ![r] = clock]
    /\ pc' = [pc EXCEPT ![r] = "like"]
    /\ UNCHANGED <<clock, stored, hidden, likes, events, log, refusals>>

\* The events of a request's client on its item.
Own(rows, r) == {e \in rows : e.client = request[r].client /\ e.item = request[r].item}

Found(r) == request[r].item \in stored \ hidden

(***************************************************************************)
(* The latest of the client's events on the item is less than Cooldown     *)
(* old, which is to say that one of them is.                               *)
(***************************************************************************)
CoolingEvents(r) == {e \in Own(events, r) : now[r] < e.at + Cooldown}

Event(r) ==
    [req |-> r, client |-> request[r].client, item |-> request[r].item,
     now |-> now[r], at |-> FormatTime(now[r])]

\* Events are kept for the cooldown only, and not at its very end.
CleanByCooldown(rows, r) ==
    LET table == IF request[r].item \in Posts THEN Posts ELSE Comments
    IN  {e \in rows : e.item \in table => e.at > FormatTime(now[r] - Cooldown)}

\* A like removes the old events of its own table, of all clients and items.
Clean(rows, r) ==
    LET table == IF request[r].item \in Posts THEN Posts ELSE Comments
    IN  {e \in rows : e.item \in table => e.at >= FormatTime(now[r] - Retention)}

\* The counter is incremented before the cooldown is looked at.
CountFirst(r) == Found(r)

Counts(r) == Found(r) /\ CoolingEvents(r) = {}

Latest(r) ==
    CHOOSE e \in CoolingEvents(r) : \A f \in CoolingEvents(r) : f.at <= e.at

\* setRetryAfter rounds down.
RetryAfterFloor(r) == FormatTime(Latest(r).at + Cooldown - now[r])

\* CooldownError.RetryAfter, rounded up to whole seconds by setRetryAfter.
RetryAfter(r) == FormatTime(Latest(r).at + Cooldown - now[r] + Second - 1)

(***************************************************************************)
(* The transaction: the item is missing, the client must wait, or the like *)
(* is recorded, counted, and old events are removed.                       *)
(***************************************************************************)
Like(r) ==
    /\ pc[r] = "like"
    /\ Finish(r)
    /\ likes' = IF Counts(r) THEN [likes EXCEPT ![request[r].item] = @ + 1] ELSE likes
    /\ \/ /\ ~Found(r)
          /\ UNCHANGED <<events, log, refusals>>
       \/ /\ Found(r) /\ CoolingEvents(r) # {}
          /\ refusals' = [refusals EXCEPT ![r] =
                             [due |-> now[r] + RetryAfter(r), seen |-> Own(log, r)]]
          /\ UNCHANGED <<events, log>>
       \/ /\ Found(r) /\ CoolingEvents(r) = {}
          /\ events' = Clean(events \cup {Event(r)}, r)
          /\ log' = log \cup {Event(r)}
          /\ UNCHANGED refusals
    /\ UNCHANGED <<clock, stored, hidden, request, now>>

\* The lock is not obtained in time, a statement fails or the client leaves:
\* the transaction rolls back.
Fail(r) ==
    /\ pc[r] = "like"
    /\ Finish(r)
    /\ UNCHANGED <<clock, stored, hidden, likes, events, request, now, log, refusals>>

-----------------------------------------------------------------------------
Tick ==
    /\ clock < ClockLimit
    /\ \A r \in Requests : pc[r] = "like" => clock < now[r] + LockWait
    /\ clock' = clock + 1
    /\ UNCHANGED <<stored, hidden, likes, events, pc, request, now, log, refusals>>

\* Comments are approved and rejected; deletions cascade to the events.
SetStatus(c) ==
    /\ c \in stored
    /\ hidden' \in {hidden \cup {c}, hidden \ {c}}
    /\ UNCHANGED <<clock, stored, likes, events, pc, request, now, log, refusals>>

Delete(i) ==
    /\ i \in stored
    /\ stored' = stored \ ({i} \cup Below[i])
    /\ events' = {e \in events : e.item \in stored'}
    /\ UNCHANGED <<clock, hidden, likes, pc, request, now, log, refusals>>

\* A restart loses the requests that wait; everything else is stored.
Restart ==
    /\ pc' = [r \in Requests |-> IF pc[r] = "idle" THEN "idle" ELSE "done"]
    /\ UNCHANGED <<clock, stored, hidden, likes, events, request, now, log, refusals>>

Next ==
    \/ \E r \in Requests : Arrive(r) \/ Like(r) \/ Fail(r)
    \/ \E c \in Comments : SetStatus(c)
    \/ \E i \in Items : Delete(i)
    \/ Tick
    \/ Restart

Spec == Init /\ [][Next]_vars

-----------------------------------------------------------------------------
\* Every variable has its type.
TypeOK ==
    /\ clock \in Nat
    /\ stored \subseteq Items /\ hidden \subseteq Comments
    /\ likes \in [Items -> Nat]
    /\ events \subseteq log
    /\ log \subseteq [req : Requests, client : Clients, item : Items, now : Nat, at : Nat]
    /\ pc \in [Requests -> {"idle", "like", "done"}]
    /\ request \in [Requests -> [client : Clients, item : Items] \cup {None}]
    /\ now \in [Requests -> Nat \cup {None}]
    /\ \A r \in Requests : pc[r] = "like" => request[r] # None /\ now[r] # None
    /\ refusals \in [Requests -> [due : Nat, seen : SUBSET log] \cup {None}]

(***************************************************************************)
(* No client likes an item twice within the cooldown, although the time of *)
(* a like is read before the lock is held, loses its fraction when stored  *)
(* and is forgotten by age: the later of two likes was requested Cooldown  *)
(* after the second in which the earlier was.                              *)
(***************************************************************************)
LikesApart ==
    \A e, f \in log :
        /\ e # f /\ e.client = f.client /\ e.item = f.item
        /\ e.now <= f.now
        => f.now >= e.at + Cooldown

(***************************************************************************)
(* The counter of an item is the number of likes ever accepted: none is    *)
(* lost when two are counted together, none is counted that was refused or *)
(* rolled back.                                                            *)
(***************************************************************************)
LikesAreCounted ==
    \A i \in Items : likes[i] = Cardinality({e \in log : e.item = i})

(***************************************************************************)
(* A client told to wait need not wait again: when its request made after  *)
(* the Retry-After is refused as well, another like of it went in between. *)
(***************************************************************************)
RetryAfterSuffices ==
    \A p, q \in Requests :
        /\ refusals[p] # None /\ refusals[q] # None
        /\ request[p] = request[q]
        /\ now[q] >= refusals[p].due
        => refusals[q].seen \ refusals[p].seen # {}
=============================================================================
