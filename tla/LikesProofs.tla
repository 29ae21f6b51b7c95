---------------------------- MODULE LikesProofs ----------------------------
(***************************************************************************)
(* What Likes promises for every number of clients and items, every        *)
(* cooldown and every resolution of the clock.                             *)
(***************************************************************************)
EXTENDS Likes, FiniteSetTheorems, WellFoundedInduction, TLAPS

\* A request that waits read the clock at most LockWait ago.
Waiting ==
    \A r \in Requests :
        pc[r] = "like" => now[r] <= clock /\ clock <= now[r] + LockWait

\* Every event was inserted once, by a request that is done, with the time
\* of its request as it is stored.
EventsOnce ==
    \A e \in log :
        /\ pc[e.req] = "done"
        /\ e.now <= clock /\ e.at = FormatTime(e.now)

\* An event of a stored item is forgotten only when no request that waits
\* can still be within its cooldown.
Remembered ==
    \A e \in log : e.item \in stored => e \in events \/ e.at + Retention < clock

\* A refusal names a time by which every event it knew of has cooled, and
\* knew of one that had not when it was made.
RefusalsJustified ==
    \A r \in Requests : refusals[r] # None =>
        /\ pc[r] = "done" /\ now[r] # None
        /\ \A e \in refusals[r].seen : e.at + Cooldown <= refusals[r].due
        /\ \E e \in refusals[r].seen : now[r] < e.at + Cooldown

IInv ==
    /\ TypeOK
    /\ IsFiniteSet(log)
    /\ Waiting
    /\ EventsOnce
    /\ Remembered
    /\ RefusalsJustified
    /\ LikesApart
    /\ LikesAreCounted

-----------------------------------------------------------------------------
\* A stored time is at most one second behind the time it was made from.
LEMMA FormatTimeBounds ==
    ASSUME NEW t \in Int
    PROVE  /\ FormatTime(t) \in Int
           /\ FormatTime(t) <= t /\ t < FormatTime(t) + Second
           /\ t >= 0 => FormatTime(t) >= 0
BY SecondAssumption DEF FormatTime

\* Whole seconds are stored as they are.
LEMMA FormatTimeWhole ==
    ASSUME NEW t \in Nat, t > 0, t % Second = 0
    PROVE  t >= Second
BY SecondAssumption

\* Events are kept for Cooldown + LockWait at least.
LEMMA RetentionLong == Retention \in Nat /\ Cooldown + LockWait <= Retention
BY LikesAssumption, WaitAssumption DEF Retention

\* A set of naturals with an upper bound has a greatest element.
LEMMA GreatestExists ==
    ASSUME NEW T \in SUBSET Nat, T # {}, NEW n \in Nat, \A t \in T : t <= n
    PROVE  \E t \in T : \A u \in T : u <= t
<1> DEFINE D == {n - t : t \in T}
<1>1. D \subseteq Nat /\ D # {}
  <2>1. ASSUME NEW t \in T PROVE n - t \in Nat
    OBVIOUS
  <2>2. QED
    BY <2>1
<1>2. PICK d \in D : \A e \in D : <<e, d>> \notin OpToRel(<, Nat)
  BY <1>1, WFMin, NatLessThanWellFounded
<1>3. \A e \in D : ~(e < d)
  BY <1>1, <1>2 DEF OpToRel
<1>4. PICK t \in T : d = n - t
  BY DEF D
<1>5. \A u \in T : u <= t
  <2>1. SUFFICES ASSUME NEW u \in T PROVE u <= t
    OBVIOUS
  <2>2. n - u \in D /\ ~(n - u < n - t)
    BY <1>3, <1>4
  <2>3. QED
    BY <2>2
<1>6. QED
  BY <1>5

\* The latest of the events that cool a request is one of them.
LEMMA LatestIsLatest ==
    ASSUME TypeOK, EventsOnce, NEW r \in Requests, CoolingEvents(r) # {}
    PROVE  /\ Latest(r) \in CoolingEvents(r)
           /\ \A f \in CoolingEvents(r) : f.at <= Latest(r).at
<1> DEFINE T == {e.at : e \in CoolingEvents(r)}
<1>1. \A e \in CoolingEvents(r) : e.at \in Nat /\ e.now \in Nat /\ e.at <= clock
  BY FormatTimeBounds DEF TypeOK, EventsOnce, CoolingEvents, Own
<1>2. T \in SUBSET Nat /\ T # {} /\ \A t \in T : t <= clock
  BY <1>1
<1>3. PICK t \in T : \A u \in T : u <= t
  BY <1>2, GreatestExists DEF TypeOK
<1>4. PICK e \in CoolingEvents(r) : e.at = t
  BY DEF T
<1>5. \A f \in CoolingEvents(r) : f.at <= e.at
  BY <1>3, <1>4
<1>6. QED
  BY <1>5 DEF Latest

\* A refusal's Retry-After reaches to the end of the latest cooldown.
LEMMA RetryAfterLong ==
    ASSUME TypeOK, EventsOnce, NEW r \in Requests, pc[r] = "like", CoolingEvents(r) # {}
    PROVE  /\ now[r] \in Nat /\ RetryAfter(r) \in Nat
           /\ \A e \in CoolingEvents(r) : e.at + Cooldown <= now[r] + RetryAfter(r)
<1>1. /\ Latest(r) \in CoolingEvents(r)
      /\ \A f \in CoolingEvents(r) : f.at <= Latest(r).at
  BY LatestIsLatest
<1>2. now[r] \in Nat /\ \A e \in CoolingEvents(r) : e.at \in Nat /\ now[r] < e.at + Cooldown
  BY DEF TypeOK, CoolingEvents, Own
<1> DEFINE wait == Latest(r).at + Cooldown - now[r]
<1>3. wait \in Nat /\ wait > 0
  BY <1>1, <1>2, LikesAssumption
<1>4. /\ FormatTime(wait + Second - 1) \in Nat
      /\ FormatTime(wait + Second - 1) >= wait
  <2>1. wait + Second - 1 \in Int /\ wait + Second - 1 >= 0 /\ Second \in Nat
    BY <1>3, SecondAssumption
  <2>2. QED
    BY <1>3, <2>1, FormatTimeBounds
<1>5. RetryAfter(r) \in Nat /\ RetryAfter(r) >= wait
  BY <1>4 DEF RetryAfter
<1>6. QED
  BY <1>1, <1>2, <1>5, LikesAssumption

\* An event of a stored item that a waiting request does not find cooling
\* has cooled when the request was made.
LEMMA CooledUnlessCooling ==
    ASSUME IInv, NEW r \in Requests, pc[r] = "like", Found(r), NEW e \in Own(log, r),
           e \notin CoolingEvents(r)
    PROVE  e.at + Cooldown <= now[r]
<1>1. now[r] \in Nat /\ e.at \in Nat /\ clock \in Nat /\ clock <= now[r] + LockWait
  BY DEF IInv, TypeOK, Waiting, Own
<1>2. CASE e \in events
  BY <1>1, <1>2, LikesAssumption DEF CoolingEvents, Own
<1>3. CASE e \notin events
  <2>1. e.at + Retention < clock
    BY <1>3 DEF IInv, Remembered, Own, Found
  <2>2. QED
    BY <1>1, <2>1, RetentionLong, LikesAssumption
<1>4. QED
  BY <1>2, <1>3

-----------------------------------------------------------------------------
\* The invariant holds at first.
LEMMA InitIInv == Init => IInv
BY FS_EmptySet, LikesAssumption
DEF Init, IInv, TypeOK, Waiting, EventsOnce, Remembered, RefusalsJustified, LikesApart,
    LikesAreCounted

\* A refusal keeps it: every event the request knew of cools in time.
LEMMA RefuseIInv ==
    ASSUME IInv, NEW r \in Requests, Like(r), Found(r), CoolingEvents(r) # {}
    PROVE  IInv'
<1>1. /\ pc[r] = "like" /\ pc' = [pc EXCEPT ![r] = "done"]
      /\ refusals' = [refusals EXCEPT ![r] =
                         [due |-> now[r] + RetryAfter(r), seen |-> Own(log, r)]]
      /\ UNCHANGED <<clock, stored, hidden, likes, events, request, now, log>>
  BY DEF Like, Finish, Counts
<1>2. /\ now[r] \in Nat /\ RetryAfter(r) \in Nat
      /\ \A e \in CoolingEvents(r) : e.at + Cooldown <= now[r] + RetryAfter(r)
  BY <1>1, RetryAfterLong DEF IInv
<1>3. TypeOK'
  BY <1>1, <1>2 DEF IInv, TypeOK, Own
<1>4. (IsFiniteSet(log) /\ LikesApart /\ LikesAreCounted)'
  BY <1>1 DEF IInv, LikesApart, LikesAreCounted
<1>5. (Waiting /\ EventsOnce /\ Remembered)'
  BY <1>1 DEF IInv, TypeOK, Waiting, EventsOnce, Remembered
<1>6. \A e \in Own(log, r) : e.at + Cooldown <= now[r] + RetryAfter(r)
  <2>1. SUFFICES ASSUME NEW e \in Own(log, r), e \notin CoolingEvents(r)
                 PROVE  e.at + Cooldown <= now[r] + RetryAfter(r)
    BY <1>2
  <2>2. e.at + Cooldown <= now[r] /\ e.at \in Nat
    BY <1>1, <2>1, CooledUnlessCooling DEF IInv, TypeOK, Own
  <2>3. QED
    BY <1>2, <2>2, LikesAssumption
<1>7. \E e \in Own(log, r) : now[r] < e.at + Cooldown
  BY DEF IInv, TypeOK, CoolingEvents, Own
<1>8. RefusalsJustified'
  BY <1>1, <1>6, <1>7 DEF IInv, TypeOK, RefusalsJustified
<1>9. QED
  BY <1>3, <1>4, <1>5, <1>8 DEF IInv

\* A like that is accepted keeps it: what it forgets is past every cooldown,
\* and every like of the client on the item has cooled.
LEMMA AcceptIInv ==
    ASSUME IInv, NEW r \in Requests, Like(r), Found(r), CoolingEvents(r) = {}
    PROVE  IInv'
<1>1. /\ pc[r] = "like" /\ pc' = [pc EXCEPT ![r] = "done"]
      /\ likes' = [likes EXCEPT ![request[r].item] = @ + 1]
      /\ events' = Clean(events \cup {Event(r)}, r)
      /\ log' = log \cup {Event(r)}
      /\ UNCHANGED <<clock, stored, hidden, request, now, refusals>>
  BY DEF Like, Finish, Counts
<1>2. /\ now[r] \in Nat /\ clock \in Nat /\ now[r] <= clock /\ clock <= now[r] + LockWait
      /\ request[r] \in [client : Clients, item : Items]
  BY <1>1 DEF IInv, TypeOK, Waiting
<1>3. /\ FormatTime(now[r]) \in Nat /\ FormatTime(now[r]) <= now[r]
      /\ now[r] < FormatTime(now[r]) + Second
  BY <1>2, FormatTimeBounds
<1>4. /\ Event(r) \in [req : Requests, client : Clients, item : Items, now : Nat, at : Nat]
      /\ Event(r).req = r /\ Event(r).now = now[r] /\ Event(r).at = FormatTime(now[r])
      /\ Event(r).item = request[r].item /\ Event(r).client = request[r].client
  BY <1>2, <1>3 DEF Event
<1>5. Event(r) \notin log
  BY <1>1, <1>4 DEF IInv, EventsOnce
<1>6. events' \subseteq events \cup {Event(r)}
  BY <1>1 DEF Clean
<1>7. TypeOK'
  <2>1. likes' \in [Items -> Nat] /\ pc' \in [Requests -> {"idle", "like", "done"}]
    BY <1>1, <1>2 DEF IInv, TypeOK
  <2>2. (events \subseteq log)' /\ log \subseteq log'
    BY <1>1, <1>6 DEF IInv, TypeOK
  <2>3. log' \subseteq [req : Requests, client : Clients, item : Items, now : Nat, at : Nat]
    BY <1>1, <1>4 DEF IInv, TypeOK
  <2>4. refusals' \in [Requests -> [due : Nat, seen : SUBSET log'] \cup {None}]
    BY <1>1, <2>2 DEF IInv, TypeOK
  <2>5. QED
    BY <1>1, <2>1, <2>2, <2>3, <2>4 DEF IInv, TypeOK
<1>8. IsFiniteSet(log)'
  BY <1>1, FS_AddElement DEF IInv
<1>9. (Waiting /\ EventsOnce /\ RefusalsJustified)'
  BY <1>1, <1>2, <1>4 DEF IInv, TypeOK, Waiting, EventsOnce, RefusalsJustified
<1>10. Remembered'
  <2>1. SUFFICES ASSUME NEW e \in log', e.item \in stored, e \notin events'
                 PROVE  e.at + Retention < clock
    BY <1>1 DEF Remembered
  <2>2. e.at \in Nat
    BY <1>7 DEF TypeOK
  <2>3. CASE e \in events \cup {Event(r)}
    <3>1. e.at < FormatTime(now[r] - Retention)
      <4>1. ~(e.at >= FormatTime(now[r] - Retention))
        BY <1>1, <2>1, <2>3 DEF Clean
      <4>2. FormatTime(now[r] - Retention) \in Int
        BY <1>2, RetentionLong, FormatTimeBounds
      <4>3. QED
        BY <2>2, <4>1, <4>2
    <3>2. FormatTime(now[r] - Retention) <= now[r] - Retention
          /\ FormatTime(now[r] - Retention) \in Int
      BY <1>2, RetentionLong, FormatTimeBounds
    <3>3. QED
      BY <1>2, <2>2, <3>1, <3>2, RetentionLong
  <2>4. CASE e \notin events \cup {Event(r)}
    BY <1>1, <2>1, <2>4 DEF IInv, Remembered
  <2>5. QED
    BY <2>3, <2>4
<1>11. LikesApart'
  <2>1. ASSUME NEW e \in log, e.client = Event(r).client, e.item = Event(r).item
        PROVE  e.at + Cooldown <= now[r] /\ e.at \in Nat /\ e.now \in Nat
               /\ e.now < e.at + Cooldown
    <3>1. e \in Own(log, r)
      BY <1>4, <2>1 DEF Own
    <3>2. e.at + Cooldown <= now[r]
      BY <1>1, <3>1, CooledUnlessCooling
    <3>3. e.at \in Nat /\ e.now \in Nat /\ e.at = FormatTime(e.now)
      BY DEF IInv, TypeOK, EventsOnce
    <3>4. e.now < e.at + Second /\ Second <= Cooldown
      BY <3>3, FormatTimeBounds, FormatTimeWhole, LikesAssumption
    <3>5. QED
      BY <3>2, <3>3, <3>4, LikesAssumption, SecondAssumption
  <2>2. SUFFICES ASSUME NEW e \in log', NEW f \in log', e # f, e.client = f.client,
                        e.item = f.item, e.now <= f.now
                 PROVE  f.now >= e.at + Cooldown
    BY DEF LikesApart
  <2>3. CASE e \in log /\ f \in log
    BY <2>2, <2>3 DEF IInv, LikesApart
  <2>4. CASE e \in log /\ f = Event(r)
    BY <1>2, <1>4, <2>1, <2>2, <2>4, LikesAssumption
  <2>5. CASE e = Event(r) /\ f \in log
    <3>1. f.at + Cooldown <= now[r] /\ f.at \in Nat /\ f.now \in Nat
          /\ f.now < f.at + Cooldown
      BY <2>1, <2>2, <2>5
    <3>2. QED
      BY <1>2, <1>4, <2>2, <2>5, <3>1, LikesAssumption
  <2>6. QED
    BY <1>1, <2>2, <2>3, <2>4, <2>5
<1>12. LikesAreCounted'
  <2>1. SUFFICES ASSUME NEW i \in Items
                 PROVE  likes'[i] = Cardinality({e \in log' : e.item = i})
    BY DEF LikesAreCounted
  <2> DEFINE old == {e \in log : e.item = i}
  <2>2. likes[i] = Cardinality(old) /\ IsFiniteSet(old) /\ likes[i] \in Nat
    BY FS_Subset DEF IInv, TypeOK, LikesAreCounted
  <2>3. CASE i = request[r].item
    <3>1. {e \in log' : e.item = i} = old \cup {Event(r)} /\ Event(r) \notin old
      BY <1>1, <1>4, <1>5, <2>3
    <3>2. likes'[i] = likes[i] + 1
      BY <1>1, <2>3 DEF IInv, TypeOK
    <3>3. QED
      BY <2>2, <3>1, <3>2, FS_AddElement
  <2>4. CASE i # request[r].item
    <3>1. {e \in log' : e.item = i} = old
      BY <1>1, <1>4, <2>4
    <3>2. likes'[i] = likes[i]
      BY <1>1, <2>4 DEF IInv, TypeOK
    <3>3. QED
      BY <2>2, <3>1, <3>2
  <2>5. QED
    BY <2>3, <2>4
<1>13. QED
  BY <1>7, <1>8, <1>9, <1>10, <1>11, <1>12 DEF IInv

\* Everything else that moves keeps it: no step but a like touches the log.
LEMMA OtherIInv ==
    ASSUME IInv,
           \/ \E r \in Requests : Arrive(r) \/ Fail(r) \/ (Like(r) /\ ~Found(r))
           \/ \E c \in Comments : SetStatus(c)
           \/ \E i \in Items : Delete(i)
           \/ Tick \/ Restart \/ UNCHANGED vars
    PROVE  IInv'
<1>1. UNCHANGED <<likes, log, refusals>>
  BY DEF Arrive, Fail, Like, Counts, SetStatus, Delete, Tick, Restart, vars
<1>2. (IsFiniteSet(log) /\ LikesApart /\ LikesAreCounted)'
  BY <1>1 DEF IInv, LikesApart, LikesAreCounted
<1>3. CASE \E r \in Requests : Arrive(r)
  <2>1. PICK r \in Requests : Arrive(r)
    BY <1>3
  <2>2. TypeOK'
    BY <1>1, <2>1, LikesAssumption DEF IInv, TypeOK, Arrive
  <2>3. (Waiting /\ EventsOnce /\ Remembered /\ RefusalsJustified)'
    BY <1>1, <2>1, LikesAssumption
    DEF IInv, TypeOK, Waiting, EventsOnce, Remembered, RefusalsJustified, Arrive
  <2>4. QED
    BY <1>2, <2>2, <2>3 DEF IInv
<1>4. CASE \E r \in Requests : Fail(r) \/ (Like(r) /\ ~Found(r))
  <2>1. PICK r \in Requests :
            /\ pc' = [pc EXCEPT ![r] = "done"]
            /\ UNCHANGED <<clock, stored, hidden, events, request, now>>
    BY <1>4 DEF Fail, Like, Finish
  <2>2. TypeOK'
    BY <1>1, <2>1 DEF IInv, TypeOK
  <2>3. (Waiting /\ EventsOnce /\ Remembered /\ RefusalsJustified)'
    BY <1>1, <2>1 DEF IInv, TypeOK, Waiting, EventsOnce, Remembered, RefusalsJustified
  <2>4. QED
    BY <1>2, <2>2, <2>3 DEF IInv
<1>5. CASE \E c \in Comments : SetStatus(c)
  <2>1. TypeOK'
    BY <1>1, <1>5 DEF IInv, TypeOK, SetStatus
  <2>2. (Waiting /\ EventsOnce /\ Remembered /\ RefusalsJustified)'
    BY <1>1, <1>5 DEF IInv, Waiting, EventsOnce, Remembered, RefusalsJustified, SetStatus
  <2>3. QED
    BY <1>2, <2>1, <2>2 DEF IInv
<1>6. CASE \E i \in Items : Delete(i)
  <2>1. TypeOK'
    BY <1>1, <1>6 DEF IInv, TypeOK, Delete
  <2>2. (Waiting /\ EventsOnce /\ Remembered /\ RefusalsJustified)'
    BY <1>1, <1>6 DEF IInv, Waiting, EventsOnce, Remembered, RefusalsJustified, Delete
  <2>3. QED
    BY <1>2, <2>1, <2>2 DEF IInv
<1>7. CASE Tick
  <2>1. TypeOK'
    BY <1>1, <1>7 DEF IInv, TypeOK, Tick
  <2>2. Waiting'
    BY <1>7, LikesAssumption DEF IInv, TypeOK, Waiting, Tick
  <2>3. EventsOnce'
    BY <1>1, <1>7 DEF IInv, TypeOK, EventsOnce, Tick
  <2>4. Remembered'
    BY <1>1, <1>7, RetentionLong DEF IInv, TypeOK, Remembered, Tick
  <2>5. RefusalsJustified'
    BY <1>1, <1>7 DEF IInv, RefusalsJustified, Tick
  <2>6. QED
    BY <1>2, <2>1, <2>2, <2>3, <2>4, <2>5 DEF IInv
<1>8. CASE Restart
  <2>1. TypeOK'
    BY <1>1, <1>8 DEF IInv, TypeOK, Restart
  <2>2. (Waiting /\ EventsOnce /\ Remembered /\ RefusalsJustified)'
    BY <1>1, <1>8 DEF IInv, TypeOK, Waiting, EventsOnce, Remembered, RefusalsJustified, Restart
  <2>3. QED
    BY <1>2, <2>1, <2>2 DEF IInv
<1>9. CASE UNCHANGED vars
  <2>1. TypeOK'
    BY <1>1, <1>9 DEF IInv, TypeOK, vars
  <2>2. (Waiting /\ EventsOnce /\ Remembered /\ RefusalsJustified)'
    BY <1>1, <1>9 DEF IInv, Waiting, EventsOnce, Remembered, RefusalsJustified, vars
  <2>3. QED
    BY <1>2, <2>1, <2>2 DEF IInv
<1>10. QED
  BY <1>3, <1>4, <1>5, <1>6, <1>7, <1>8, <1>9

\* The invariant is inductive.
THEOREM Invariance == Spec => []IInv
<1>1. ASSUME IInv, [Next]_vars PROVE IInv'
  <2>1. CASE \E r \in Requests : Like(r) /\ Found(r) /\ CoolingEvents(r) = {}
    BY <1>1, <2>1, AcceptIInv
  <2>2. CASE \E r \in Requests : Like(r) /\ Found(r) /\ CoolingEvents(r) # {}
    BY <1>1, <2>2, RefuseIInv
  <2>3. CASE ~\E r \in Requests : Like(r) /\ Found(r)
    <3>1. CASE \E r \in Requests : Arrive(r) \/ Like(r) \/ Fail(r)
      <4>1. PICK r \in Requests : Arrive(r) \/ Like(r) \/ Fail(r)
        BY <3>1
      <4>2. Arrive(r) \/ Fail(r) \/ (Like(r) /\ ~Found(r))
        BY <2>3, <4>1
      <4>3. QED
        BY <1>1, <4>2, OtherIInv
    <3>2. CASE ~\E r \in Requests : Arrive(r) \/ Like(r) \/ Fail(r)
      BY <1>1, <3>2, OtherIInv DEF Next
    <3>3. QED
      BY <3>1, <3>2
  <2>4. QED
    BY <2>1, <2>2, <2>3
<1>2. QED
  BY InitIInv, <1>1, PTL DEF Spec

\* Every variable keeps its type; a counter is never negative.
THEOREM TypeCorrect == Spec => []TypeOK
BY Invariance, PTL DEF IInv

(***************************************************************************)
(* No client likes an item twice within the cooldown, for all clients,     *)
(* items and times a request may wait for the write lock, as long as       *)
(* events outlive the cooldown by that time.                               *)
(***************************************************************************)
THEOREM OneLikePerCooldown == Spec => []LikesApart
BY Invariance, PTL DEF IInv

\* The counters of posts and comments count every accepted like once.
THEOREM CountersExact == Spec => []LikesAreCounted
BY Invariance, PTL DEF IInv

(***************************************************************************)
(* Waiting for the Retry-After suffices: every event a refusal knew of has *)
(* cooled by then, so a later refusal knew of another.                     *)
(***************************************************************************)
THEOREM WaitSuffices == Spec => []RetryAfterSuffices
<1>1. IInv => RetryAfterSuffices
  <2>1. SUFFICES ASSUME IInv, NEW p \in Requests, NEW q \in Requests,
                        refusals[p] # None, refusals[q] # None,
                        now[q] >= refusals[p].due
                 PROVE  refusals[q].seen \ refusals[p].seen # {}
    BY DEF RetryAfterSuffices
  <2>2. PICK e \in refusals[q].seen : now[q] < e.at + Cooldown
    BY <2>1 DEF IInv, RefusalsJustified
  <2>3. refusals[q].seen \subseteq log /\ refusals[p].due \in Nat
    BY <2>1 DEF IInv, TypeOK
  <2>4. CASE e \in refusals[p].seen
    <3>1. e.at + Cooldown <= refusals[p].due
      BY <2>1, <2>4 DEF IInv, RefusalsJustified
    <3>2. now[q] \in Nat
      BY <2>1 DEF IInv, TypeOK, RefusalsJustified
    <3>3. QED
      BY <2>1, <2>2, <2>3, <3>1, <3>2, LikesAssumption DEF IInv, TypeOK
  <2>5. QED
    BY <2>2, <2>4
<1>2. QED
  BY Invariance, <1>1, PTL
=============================================================================
