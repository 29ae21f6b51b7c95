--------------------------- MODULE SessionsProofs ---------------------------
(***************************************************************************)
(* What Sessions promises for every number of requests, every lifetime and *)
(* skew, and a clock that is set back as often and as far as it may be.    *)
(***************************************************************************)
EXTENDS Sessions, TLAPS

\* The steps of requests, and the ones of a login before its answer.
Places == {"idle", "sweep", "insert", "answer", "select", "judge", "delete", "logout", "done"}
Asked == [kind : Kinds, cookie : Requests \cup {None}, csrf : Requests \cup {None}]

\* A session in the table, or one that has left it, was inserted by its login.
Inserted == \A s \in Requests : sessions[s] # None \/ s \in issued \cup ended => pc[s] \in {"answer", "done"}

\* A row holds the times of its login.
RowsOfLogins == \A s \in Requests : sessions[s] # None => now[s] \in Nat /\ sessions[s] = NewSession(now[s])

\* What a request that goes on with a session knows of it.
Knows(r) ==
    LET cookie == request[r].cookie
    IN  /\ request[r] \in Asked
        /\ cookie \in Requests => cookie \in issued
        /\ pc[r] \in {"judge", "delete", "logout"} => cookie \in Requests
        /\ pc[r] = "judge" => /\ found[r] = NewSession(now[cookie]) /\ now[cookie] \in Nat
                              /\ cookie \notin endedBefore[r]

Known == \A r \in Requests : pc[r] \in {"select", "judge", "delete", "logout"} => Knows(r)

\* A login that has not inserted its row read the clock when it came.
Logins == \A r \in Requests : pc[r] \in {"sweep", "insert"} => now[r] \in Nat

\* A session that ended has no row, and will not get one again.
EndedAreGone ==
    /\ \A s \in ended : sessions[s] = None
    /\ \A r \in Requests : endedBefore[r] \subseteq ended

\* A request was granted for a session, in its lifetime, before it ended.
Granted(r) ==
    LET cookie == request[r].cookie
    IN  /\ pc[r] \in {"logout", "done"}
        /\ cookie \in issued /\ cookie \notin endedBefore[r]
        /\ now[cookie] \in Nat /\ now[r] \in Nat
        /\ Valid(NewSession(now[cookie]), now[r])

IInv ==
    /\ TypeOK
    /\ Inserted /\ RowsOfLogins /\ Known /\ Logins /\ EndedAreGone
    /\ \A r \in granted : Granted(r)

-----------------------------------------------------------------------------
LEMMA FormatTimeBounds ==
    ASSUME NEW t \in Nat
    PROVE  FormatTime(t) \in Nat /\ FormatTime(t) <= t
BY SecondAssumption DEF FormatTime

LEMMA NewSessionType ==
    ASSUME NEW t \in Nat
    PROVE  /\ NewSession(t) \in Row /\ NewSession(t) # None
           /\ NewSession(t).created = FormatTime(t)
           /\ NewSession(t).expires = FormatTime(t + SessionTTL)
<1>1. t + SessionTTL \in Nat
  BY SessionsAssumption
<1>2. QED
  BY <1>1, FormatTimeBounds, RowAssumption DEF NewSession, Row

LEMMA InitInv == Init => IInv
<1> SUFFICES ASSUME Init PROVE IInv
  OBVIOUS
<1>1. TypeOK
  BY DEF Init, TypeOK
<1>2. Inserted /\ RowsOfLogins /\ Known /\ Logins /\ EndedAreGone
  BY DEF Init, Inserted, RowsOfLogins, Known, Logins, EndedAreGone
<1>3. \A r \in granted : Granted(r)
  BY DEF Init
<1>4. QED
  BY <1>1, <1>2, <1>3 DEF IInv

LEMMA ArriveInv ==
    ASSUME IInv, NEW r \in Requests, Arrive(r)
    PROVE  IInv'
<1> USE DEF IInv
<1>1. PICK kind \in Kinds, cookie \in issued \cup {None}, csrf \in issued \cup {None} :
        /\ request' = [request EXCEPT ![r] = [kind |-> kind, cookie |-> cookie, csrf |-> csrf]]
        /\ pc' = [pc EXCEPT ![r] = IF kind = "login" THEN "sweep" ELSE "select"]
        /\ now' = [now EXCEPT ![r] = IF kind = "login" THEN clock ELSE @]
        /\ endedBefore' = [endedBefore EXCEPT ![r] = ended]
        /\ UNCHANGED <<clock, setbacks, sessions, issued, found, granted, ended>>
  BY DEF Arrive, Goto
<1>2. pc[r] = "idle"
  BY DEF Arrive
<1>3. TypeOK'
  BY <1>1, <1>2 DEF TypeOK, Asked
<1>4. sessions[r] = None /\ r \notin issued /\ r \notin ended
  BY <1>2 DEF Inserted
<1>5. request'[r] \in Asked /\ (request'[r].cookie \in Requests => request'[r].cookie \in issued)
  BY <1>1, SessionsAssumption DEF TypeOK, Asked
<1>6. Inserted' /\ RowsOfLogins' /\ Logins'
  BY <1>1, <1>4 DEF Inserted, RowsOfLogins, Logins, TypeOK, NewSession
<1>7. EndedAreGone'
  BY <1>1 DEF EndedAreGone, TypeOK
<1>8. Known'
  <2> SUFFICES ASSUME NEW s \in Requests, pc'[s] \in {"select", "judge", "delete", "logout"}
               PROVE  Knows(s)'
    BY DEF Known
  <2>1. CASE s = r
    BY <1>1, <1>5, <2>1 DEF Knows, TypeOK
  <2>2. CASE s # r
    BY <1>1, <1>4, <2>2 DEF Known, Knows, TypeOK, NewSession
  <2>3. QED
    BY <2>1, <2>2
<1>9. ASSUME NEW s \in granted' PROVE Granted(s)'
  BY <1>1, <1>2, <1>4 DEF Granted, TypeOK, NewSession, Valid
<1>10. QED
  BY <1>3, <1>6, <1>7, <1>8, <1>9

\* A request that is over, answered or not, and leaves the rest as it is.
LEMMA LeaveInv ==
    ASSUME IInv, NEW r \in Requests, pc[r] # "idle",
           pc' = [pc EXCEPT ![r] = "done"], issued' \in {issued, issued \cup {r}},
           issued' # issued => pc[r] = "answer",
           UNCHANGED <<clock, setbacks, sessions, request, found, now, granted, ended, endedBefore>>
    PROVE  IInv'
<1> USE DEF IInv
<1>1. TypeOK'
  BY DEF TypeOK
<1>2. Inserted' /\ RowsOfLogins' /\ Logins' /\ EndedAreGone'
  BY DEF Inserted, RowsOfLogins, Logins, EndedAreGone, TypeOK, NewSession
<1>3. Known'
  BY DEF Known, Knows, TypeOK, NewSession
<1>4. ASSUME NEW s \in granted' PROVE Granted(s)'
  BY DEF Granted, TypeOK, NewSession, Valid
<1>5. QED
  BY <1>1, <1>2, <1>3, <1>4

LEMMA SweepInv ==
    ASSUME IInv, NEW r \in Requests, Sweep(r)
    PROVE  IInv'
<1> USE DEF IInv
<1>1. /\ pc[r] = "sweep" /\ pc' = [pc EXCEPT ![r] = "insert"]
      /\ UNCHANGED <<clock, setbacks, issued, request, found, now, granted, ended, endedBefore>>
  BY DEF Sweep, Goto
<1>2. /\ sessions' \in [Requests -> Row \cup {None}]
      /\ \A s \in Requests : sessions'[s] \in {sessions[s], None}
  BY DEF Sweep, TypeOK
<1>3. TypeOK'
  BY <1>1, <1>2 DEF TypeOK
<1>4. Inserted' /\ RowsOfLogins' /\ Logins' /\ EndedAreGone'
  BY <1>1, <1>2 DEF Inserted, RowsOfLogins, Logins, EndedAreGone, TypeOK, NewSession
<1>5. Known'
  BY <1>1 DEF Known, Knows, TypeOK, NewSession
<1>6. ASSUME NEW s \in granted' PROVE Granted(s)'
  BY <1>1 DEF Granted, TypeOK, NewSession, Valid
<1>7. QED
  BY <1>3, <1>4, <1>5, <1>6

LEMMA InsertInv ==
    ASSUME IInv, NEW r \in Requests, Insert(r)
    PROVE  IInv'
<1> USE DEF IInv
<1>1. /\ pc[r] = "insert" /\ pc' = [pc EXCEPT ![r] = "answer"]
      /\ sessions' = [sessions EXCEPT ![r] = NewSession(now[r])]
      /\ UNCHANGED <<clock, setbacks, issued, request, found, now, granted, ended, endedBefore>>
  BY DEF Insert, Goto
<1>2. now[r] \in Nat /\ NewSession(now[r]) \in Row
  BY <1>1, NewSessionType DEF Logins
<1>3. r \notin ended
  BY <1>1 DEF Inserted
<1>4. TypeOK'
  BY <1>1, <1>2 DEF TypeOK
<1>5. Inserted' /\ RowsOfLogins' /\ Logins' /\ EndedAreGone'
  BY <1>1, <1>2, <1>3 DEF Inserted, RowsOfLogins, Logins, EndedAreGone, TypeOK, NewSession
<1>6. Known'
  BY <1>1 DEF Known, Knows, TypeOK, NewSession
<1>7. ASSUME NEW s \in granted' PROVE Granted(s)'
  BY <1>1 DEF Granted, TypeOK, NewSession, Valid
<1>8. QED
  BY <1>4, <1>5, <1>6, <1>7

LEMMA SelectInv ==
    ASSUME IInv, NEW r \in Requests, Select(r)
    PROVE  IInv'
<1> USE DEF IInv
<1> DEFINE cookie == request[r].cookie
           row    == IF cookie = None THEN None ELSE sessions[cookie]
<1>1. /\ pc[r] = "select" /\ pc' = [pc EXCEPT ![r] = IF row = None THEN "done" ELSE "judge"]
      /\ found' = [found EXCEPT ![r] = row]
      /\ UNCHANGED <<clock, setbacks, sessions, issued, request, now, granted, ended, endedBefore>>
  BY DEF Select, Goto
<1>2. Knows(r)
  BY <1>1 DEF Known
<1>3. row \in Row \cup {None}
  BY <1>2 DEF Knows, Asked, TypeOK
<1>4. row # None => /\ cookie \in Requests /\ row = NewSession(now[cookie])
                    /\ now[cookie] \in Nat /\ cookie \notin endedBefore[r]
  BY <1>2 DEF Knows, Asked, RowsOfLogins, EndedAreGone, TypeOK
<1>5. TypeOK'
  BY <1>1, <1>3 DEF TypeOK
<1>6. Inserted' /\ RowsOfLogins' /\ Logins' /\ EndedAreGone'
  BY <1>1 DEF Inserted, RowsOfLogins, Logins, EndedAreGone, TypeOK, NewSession
<1>7. Known'
  <2> SUFFICES ASSUME NEW s \in Requests, pc'[s] \in {"select", "judge", "delete", "logout"}
               PROVE  Knows(s)'
    BY DEF Known
  <2>1. CASE s = r
    BY <1>1, <1>2, <1>4, <2>1 DEF Knows, TypeOK, NewSession
  <2>2. CASE s # r
    BY <1>1, <2>2 DEF Known, Knows, TypeOK, NewSession
  <2>3. QED
    BY <2>1, <2>2
<1>8. ASSUME NEW s \in granted' PROVE Granted(s)'
  BY <1>1 DEF Granted, TypeOK, NewSession, Valid
<1>9. QED
  BY <1>5, <1>6, <1>7, <1>8

\* Authorise and Refuse: the clock is read, and the session of the cookie was
\* inserted by another request than the one that judges.
LEMMA JudgeInv ==
    ASSUME IInv, NEW r \in Requests, NEW place \in {"delete", "logout", "done"},
           pc[r] = "judge", pc' = [pc EXCEPT ![r] = place],
           now' = [now EXCEPT ![r] = clock],
           granted' = granted \/ (/\ granted' = granted \cup {r}
                                  /\ place \in {"logout", "done"} /\ Valid(found[r], clock)),
           UNCHANGED <<clock, setbacks, sessions, issued, request, found, ended, endedBefore>>
    PROVE  IInv'
<1> USE DEF IInv
<1>1. Knows(r) /\ request[r].cookie \in issued /\ request[r].cookie # r
  BY DEF Known, Knows, Inserted
<1>2. sessions[r] = None /\ r \notin issued
  BY DEF Inserted
<1>3. \A s \in Requests \ {r} : now'[s] = now[s] /\ pc'[s] = pc[s]
  BY DEF TypeOK
<1>4. TypeOK'
  BY DEF TypeOK
<1>5. Inserted' /\ RowsOfLogins' /\ Logins' /\ EndedAreGone'
  BY <1>2, <1>3 DEF Inserted, RowsOfLogins, Logins, EndedAreGone, TypeOK, NewSession
<1>6. Known'
  <2> SUFFICES ASSUME NEW s \in Requests, pc'[s] \in {"select", "judge", "delete", "logout"}
               PROVE  Knows(s)'
    BY DEF Known
  <2>1. CASE s = r
    BY <1>1, <1>3, <2>1 DEF Knows, TypeOK
  <2>2. CASE s # r
    <3>1. Knows(s) /\ pc'[s] = pc[s]
      BY <1>3, <2>2 DEF Known
    <3>2. request[s].cookie # r
      BY <1>2, <3>1, SessionsAssumption DEF Knows, Asked
    <3>3. QED
      BY <1>3, <3>1, <3>2 DEF Knows, TypeOK, NewSession, Asked
  <2>3. QED
    BY <2>1, <2>2
<1>7. ASSUME NEW s \in granted' PROVE Granted(s)'
  <2>1. CASE s \in granted /\ s # r
    BY <1>2, <1>3, <2>1 DEF Granted, TypeOK, NewSession, Valid
  <2>2. CASE s \in granted /\ s = r
    BY <2>2 DEF Granted
  <2>3. CASE s \notin granted
    <3>1. /\ s = r /\ Valid(found[r], clock) /\ place \in {"logout", "done"}
          /\ clock \in Nat
      BY <1>7, <2>3 DEF TypeOK
    <3>2. found[r] = NewSession(now[request[r].cookie]) /\ now[request[r].cookie] \in Nat
      BY <1>1 DEF Knows
    <3>3. now'[r] = clock /\ now'[request[r].cookie] = now[request[r].cookie]
      BY <1>1, <1>3 DEF TypeOK
    <3>4. QED
      BY <1>1, <3>1, <3>2, <3>3 DEF Granted, Knows, Valid, NewSession, TypeOK
  <2>4. QED
    BY <2>1, <2>2, <2>3
<1>8. QED
  BY <1>4, <1>5, <1>6, <1>7

LEMMA DeleteInv ==
    ASSUME IInv, NEW r \in Requests, Delete(r)
    PROVE  IInv'
<1> USE DEF IInv
<1> DEFINE cookie == request[r].cookie
<1>1. /\ pc[r] \in {"delete", "logout"} /\ pc' = [pc EXCEPT ![r] = "done"]
      /\ sessions' = [sessions EXCEPT ![cookie] = None]
      /\ ended' = ended \cup {cookie}
      /\ UNCHANGED <<clock, setbacks, issued, request, found, now, granted, endedBefore>>
  BY DEF Delete, Removed, Goto
<1>2. cookie \in Requests /\ cookie \in issued
  BY <1>1 DEF Known, Knows
<1>3. TypeOK'
  BY <1>1, <1>2 DEF TypeOK
<1>4. Inserted' /\ RowsOfLogins' /\ Logins'
  BY <1>1, <1>2 DEF Inserted, RowsOfLogins, Logins, TypeOK, NewSession
<1>5. EndedAreGone'
  BY <1>1, <1>2 DEF EndedAreGone, TypeOK
<1>6. Known'
  BY <1>1 DEF Known, Knows, TypeOK, NewSession
<1>7. ASSUME NEW s \in granted' PROVE Granted(s)'
  BY <1>1 DEF Granted, TypeOK, NewSession, Valid
<1>8. QED
  BY <1>3, <1>4, <1>5, <1>6, <1>7

\* The clock goes on or is set back.
LEMMA ClockInv ==
    ASSUME IInv, clock' \in Nat, setbacks' \in Nat,
           UNCHANGED <<sessions, issued, pc, request, found, now, granted, ended, endedBefore>>
    PROVE  IInv'
BY DEF IInv, TypeOK, Inserted, RowsOfLogins, Logins, EndedAreGone, Known, Knows,
       Granted, NewSession, Valid

LEMMA RestartInv ==
    ASSUME IInv, Restart
    PROVE  IInv'
<1> USE DEF IInv
<1>1. /\ pc' \in [Requests -> {"idle", "done"}]
      /\ \A r \in Requests : pc[r] # "idle" => pc'[r] = "done"
      /\ UNCHANGED <<clock, setbacks, sessions, issued, request, found, now, granted, ended, endedBefore>>
  BY DEF Restart
<1>2. TypeOK'
  BY <1>1 DEF TypeOK
<1>3. Inserted' /\ RowsOfLogins' /\ Logins' /\ EndedAreGone' /\ Known'
  BY <1>1 DEF Inserted, RowsOfLogins, Logins, EndedAreGone, Known, NewSession
<1>4. ASSUME NEW s \in granted' PROVE Granted(s)'
  BY <1>1 DEF Granted, TypeOK, NewSession, Valid
<1>5. QED
  BY <1>2, <1>3, <1>4

LEMMA StepInv == IInv /\ [Next]_vars => IInv'
<1> SUFFICES ASSUME IInv, [Next]_vars PROVE IInv'
  OBVIOUS
<1>1. ASSUME NEW r \in Requests, Answer(r) \/ Fail(r) PROVE IInv'
  BY <1>1, LeaveInv DEF Answer, Fail, Goto
<1>2. ASSUME NEW r \in Requests, Authorise(r) PROVE IInv'
  BY <1>2, JudgeInv DEF Authorise, Goto
<1>3. ASSUME NEW r \in Requests, Refuse(r) PROVE IInv'
  BY <1>3, JudgeInv DEF Refuse, Goto
<1>4. CASE Tick \/ SetBack \/ UNCHANGED vars
  <2>1. clock \in Nat /\ setbacks \in Nat
    BY DEF IInv, TypeOK
  <2>2. QED
    BY <1>4, <2>1, ClockInv DEF Tick, SetBack, vars
<1>5. QED
  BY <1>1, <1>2, <1>3, <1>4, ArriveInv, SweepInv, InsertInv, SelectInv, DeleteInv, RestartInv
  DEF Next

-----------------------------------------------------------------------------
LEMMA Invariance == Spec => []IInv
BY InitInv, StepInv, PTL DEF Spec

\* Every variable has its type.
THEOREM SessionTypes == Spec => []TypeOK
BY Invariance, PTL DEF IInv

(***************************************************************************)
(* A session that ended stays ended (Sessions.Get, Sessions.Delete): its   *)
(* row is gone, and only its login, which is over, could insert it; so no  *)
(* request that came later finds a row, whatever the clock says.           *)
(***************************************************************************)
THEOREM EndForGood == Spec => []EndedForGood
<1>1. IInv => EndedForGood
  BY DEF IInv, Granted, EndedForGood
<1>2. QED
  BY <1>1, Invariance, PTL

\* A session is good for its lifetime, seen from its login's clock.
THEOREM GrantsWithinLifetime == Spec => []WithinLifetime
<1>1. IInv => WithinLifetime
  <2> SUFFICES ASSUME IInv, NEW r \in granted, NEW login, login = now[request[r].cookie]
               PROVE  /\ now[r] < login + SessionTTL
                      /\ now[r] + SessionClockSkew >= FormatTime(login)
    BY DEF WithinLifetime
  <2>1. login \in Nat /\ now[r] \in Nat /\ Valid(NewSession(login), now[r])
    BY DEF IInv, Granted
  <2>2. FormatTime(login + SessionTTL) > now[r] /\ FormatTime(login) <= now[r] + SessionClockSkew
    BY <2>1, NewSessionType DEF Valid
  <2>3. login + SessionTTL \in Nat /\ SessionClockSkew \in Nat
    BY <2>1, SessionsAssumption
  <2>4. FormatTime(login + SessionTTL) <= login + SessionTTL
        /\ FormatTime(login + SessionTTL) \in Nat /\ FormatTime(login) \in Nat
    BY <2>1, <2>3, FormatTimeBounds
  <2>5. QED
    BY <2>1, <2>2, <2>3, <2>4
<1>2. QED
  BY <1>1, Invariance, PTL
=============================================================================
