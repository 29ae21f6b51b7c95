------------------------------ MODULE Sessions ------------------------------
(***************************************************************************)
(* The administrator's sessions (backend/internal/admin/session.go and     *)
(* backend/internal/httpapi/admin.go).  A login inserts a row under the    *)
(* hash of a fresh random token; every request of the administrator looks  *)
(* its row up and reads the clock after that; a row found expired, or      *)
(* created in the clock's future, is deleted and its request refused.      *)
(* Statements commit one at a time, requests interleave between them, the  *)
(* process may die, and the wall clock may be set back.                    *)
(*                                                                         *)
(* A session is named by the login that made it: tokens are unguessable    *)
(* and never repeat.  The limiter in front of a login is                   *)
(* FixedWindowLimiter.                                                     *)
(***************************************************************************)
EXTENDS Timestamps, FiniteSets

CONSTANTS
    Requests,          \* the requests of a behaviour, logins included
    SessionTTL,        \* ADMIN_SESSION_TTL
    SessionClockSkew,  \* how far in the future a session may have been created
    ClockLimit,        \* the largest clock reading explored
    MaxSetbacks,       \* how often the wall clock is set back
    None               \* no cookie, no row, no reading

ASSUME SessionsAssumption ==
    /\ SessionTTL \in Nat \ {0} /\ SessionClockSkew \in Nat
    /\ ClockLimit \in Nat /\ MaxSetbacks \in Nat
    /\ None \notin Requests \cup Nat

ASSUME RowAssumption == None \notin [created : Nat, expires : Nat]

Kinds == {"login", "session", "read", "write", "logout"}

VARIABLES
    clock,
    setbacks,    \* how often the clock has been set back
    sessions,    \* admin_sessions: the row of each session, or None
    issued,      \* the sessions whose login was answered with the cookie
    pc,          \* where the handler of each request is
    request,     \* kind, cookie, and the session of the X-CSRF-Token header
    found,       \* the row that Sessions.Get read
    now,         \* the time the handler read
    granted,     \* history: requests that were authorised
    ended,       \* history: sessions logged out or refused for their times
    endedBefore  \* history: the sessions that had ended when a request arrived

vars == <<clock, setbacks, sessions, issued, pc, request, found, now,
          granted, ended, endedBefore>>

Init ==
    /\ clock = 0 /\ setbacks = 0
    /\ sessions = [s \in Requests |-> None]
    /\ issued = {} /\ granted = {} /\ ended = {}
    /\ pc = [r \in Requests |-> "idle"]
    /\ request = [r \in Requests |-> None]
    /\ found = [r \in Requests |-> None]
    /\ now = [r \in Requests |-> None]
    /\ endedBefore = [r \in Requests |-> {}]

-----------------------------------------------------------------------------
Goto(r, step) == pc' = [pc EXCEPT ![r] = step]

\* A request arrives, with any cookie and CSRF token ever handed out.
Arrive(r) ==
    /\ pc[r] = "idle"
    /\ \E kind \in Kinds, cookie, csrf \in issued \cup {None} :
          /\ kind = "login" => cookie = None
          /\ kind \in {"login", "session", "read"} => csrf = None
          /\ request' = [request EXCEPT ![r] = [kind |-> kind, cookie |-> cookie, csrf |-> csrf]]
          /\ Goto(r, IF kind = "login" THEN "sweep" ELSE "select")
          /\ now' = [now EXCEPT ![r] = IF kind = "login" THEN clock ELSE @]
    /\ endedBefore' = [endedBefore EXCEPT ![r] = ended]
    /\ UNCHANGED <<clock, setbacks, sessions, issued, found, granted, ended>>

\* Sessions.Create removes the expired sessions ...
Sweep(r) ==
    /\ pc[r] = "sweep"
    /\ sessions' = [s \in Requests |->
                       IF sessions[s] # None /\ sessions[s].expires <= FormatTime(now[r])
                       THEN None ELSE sessions[s]]
    /\ Goto(r, "insert")
    /\ UNCHANGED <<clock, setbacks, issued, request, found, now, granted, ended, endedBefore>>

NewSession(t) == [created |-> FormatTime(t), expires |-> FormatTime(t + SessionTTL)]

\* ... and inserts the new one in a statement of its own.
Insert(r) ==
    /\ pc[r] = "insert"
    /\ sessions' = [sessions EXCEPT ![r] = NewSession(now[r])]
    /\ Goto(r, "answer")
    /\ UNCHANGED <<clock, setbacks, issued, request, found, now, granted, ended, endedBefore>>

\* The answer with the cookie reaches the browser.
Answer(r) ==
    /\ pc[r] = "answer"
    /\ issued' = issued \cup {r}
    /\ Goto(r, "done")
    /\ UNCHANGED <<clock, setbacks, sessions, request, found, now, granted, ended, endedBefore>>

-----------------------------------------------------------------------------
\* Sessions.Get: the row, and only then the clock.
Select(r) ==
    /\ pc[r] = "select"
    /\ LET cookie == request[r].cookie
           row    == IF cookie = None THEN None ELSE sessions[cookie]
       IN  /\ found' = [found EXCEPT ![r] = row]
           /\ Goto(r, IF row = None THEN "done" ELSE "judge")
    /\ UNCHANGED <<clock, setbacks, sessions, issued, request, now, granted, ended, endedBefore>>

\* The skew is not looked at.
ValidWhenUnexpired(row, t) == row.expires > t

Valid(row, t) ==
    /\ row.expires > t
    /\ row.created <= t + SessionClockSkew

Mutates(kind) == kind \in {"write", "logout"}

(***************************************************************************)
(* The row is valid and, for a request that changes something, the CSRF    *)
(* token is the one derived from this session.                             *)
(***************************************************************************)
Authorise(r) ==
    /\ pc[r] = "judge"
    /\ Valid(found[r], clock)
    /\ now' = [now EXCEPT ![r] = clock]
    /\ IF Mutates(request[r].kind) /\ request[r].csrf # request[r].cookie
       THEN Goto(r, "done") /\ UNCHANGED granted
       ELSE /\ granted' = granted \cup {r}
            /\ Goto(r, IF request[r].kind = "logout" THEN "logout" ELSE "done")
    /\ UNCHANGED <<clock, setbacks, sessions, issued, request, found, ended, endedBefore>>

\* A session out of its times is to be deleted, and the request refused.
Refuse(r) ==
    /\ pc[r] = "judge"
    /\ ~Valid(found[r], clock)
    /\ now' = [now EXCEPT ![r] = clock]
    /\ Goto(r, "delete")
    /\ UNCHANGED <<clock, setbacks, sessions, issued, request, found, granted, ended, endedBefore>>

\* The request is refused and the row stays.
Kept(rows, r) == rows

\* Sessions.Delete.
Removed(rows, r) == [rows EXCEPT ![request[r].cookie] = None]

Delete(r) ==
    /\ pc[r] \in {"delete", "logout"}
    /\ sessions' = Removed(sessions, r)
    /\ ended' = ended \cup {request[r].cookie}
    /\ Goto(r, "done")
    /\ UNCHANGED <<clock, setbacks, issued, request, found, now, granted, endedBefore>>

\* A statement fails, the connection breaks or the answer is lost.
Fail(r) ==
    /\ pc[r] \notin {"idle", "done"}
    /\ Goto(r, "done")
    /\ UNCHANGED <<clock, setbacks, sessions, issued, request, found, now, granted, ended, endedBefore>>

-----------------------------------------------------------------------------
Tick ==
    /\ clock < ClockLimit
    /\ clock' = clock + 1
    /\ UNCHANGED <<setbacks, sessions, issued, pc, request, found, now, granted, ended, endedBefore>>

SetBack ==
    /\ setbacks < MaxSetbacks
    /\ clock' \in 0 .. clock - 1
    /\ setbacks' = setbacks + 1
    /\ UNCHANGED <<sessions, issued, pc, request, found, now, granted, ended, endedBefore>>

\* A restart loses the requests in flight; sessions are in the database.
Restart ==
    /\ pc' = [r \in Requests |-> IF pc[r] = "idle" THEN "idle" ELSE "done"]
    /\ UNCHANGED <<clock, setbacks, sessions, issued, request, found, now, granted, ended, endedBefore>>

Next ==
    \/ \E r \in Requests :
          \/ Arrive(r) \/ Sweep(r) \/ Insert(r) \/ Answer(r)
          \/ Select(r) \/ Authorise(r) \/ Refuse(r) \/ Delete(r) \/ Fail(r)
    \/ Tick \/ SetBack \/ Restart

Spec == Init /\ [][Next]_vars

-----------------------------------------------------------------------------
Row == [created : Nat, expires : Nat]

\* Every variable has its type.
TypeOK ==
    /\ clock \in Nat /\ setbacks \in Nat
    /\ sessions \in [Requests -> Row \cup {None}]
    /\ issued \subseteq Requests /\ granted \subseteq Requests /\ ended \subseteq Requests
    /\ pc \in [Requests -> {"idle", "sweep", "insert", "answer", "select", "judge",
                            "delete", "logout", "done"}]
    /\ request \in [Requests -> [kind : Kinds, cookie : Requests \cup {None},
                                 csrf : Requests \cup {None}] \cup {None}]
    /\ found \in [Requests -> Row \cup {None}]
    /\ now \in [Requests -> Nat \cup {None}]
    /\ \A r \in Requests : pc[r] \in {"judge", "delete", "logout"} => found[r] # None
    /\ endedBefore \in [Requests -> SUBSET Requests]

(***************************************************************************)
(* A session ends for good: once it is logged out, or once a request with  *)
(* it was refused for its times, no request that arrives later is          *)
(* authorised with it, although the clock may have been set back since, or *)
(* the server restarted.                                                   *)
(***************************************************************************)
EndedForGood ==
    \A r \in granted : request[r].cookie \notin endedBefore[r]

(***************************************************************************)
(* A request is authorised only from SessionClockSkew before the second of *)
(* the login until SessionTTL after it, by the server's clock, which is    *)
(* read after the row and may have been set back meanwhile.                *)
(***************************************************************************)
WithinLifetime ==
    \A r \in granted :
        LET login == now[request[r].cookie]
        IN  /\ now[r] < login + SessionTTL
            /\ now[r] + SessionClockSkew >= FormatTime(login)
=============================================================================
