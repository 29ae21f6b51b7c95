-------------------------- MODULE RequestsProofs --------------------------
(***************************************************************************)
(* What stands in the way of a request: the limiter's properties for every *)
(* set of keys, window and limit, and the order in which requests take     *)
(* connections, locks and the mutex, for any number of each.               *)
(***************************************************************************)
EXTENDS FixedWindowLimiter, DatabasePool, FiniteSetTheorems, FunctionTheorems, TLAPS

USE LimiterAssumption

(***************************************************************************)
(* The inductive invariant.  A stored entry counts between one and `limit' *)
(* requests of a window that opened in the past; a grant belongs to the    *)
(* stored window of its key, as its nth request, or to one that was over   *)
(* when that window opened.                                                *)
(***************************************************************************)
EntriesOK ==
    \A k \in Keys : entries[k] # Zero =>
        /\ entries[k].count \in 1..limit
        /\ Window <= entries[k].reset
        /\ entries[k].reset <= clock + Window

SweepOK == nextCleanup <= clock + Window

GrantsOK ==
    \A g \in grants :
        /\ g.nth \in 1..limit
        /\ g.opened <= g.at
        /\ g.at < g.opened + Window
        /\ IF entries[g.key] = Zero
           THEN g.opened + Window <= clock
           ELSE \/ g.opened + Window <= entries[g.key].reset - Window
                \/ /\ g.opened + Window = entries[g.key].reset
                   /\ g.nth <= entries[g.key].count

WindowsApart ==
    \A g, h \in grants : g.key = h.key =>
        \/ g.opened + Window <= h.opened
        \/ h.opened + Window <= g.opened
        \/ g.opened = h.opened /\ (g.nth = h.nth => g = h)

Inv ==
    /\ TypeOK
    /\ EntriesOK
    /\ SweepOK
    /\ GrantsOK
    /\ WindowsApart
    /\ RetryAfterIsExact
    /\ SweepForgetsIdleKeys

\* What a sweep leaves of an entry, and the type of the map it leaves.
LEMMA SweptEntries ==
    ASSUME TypeOK
    PROVE  /\ Swept \in [Keys -> [count : Nat, reset : Nat]]
           /\ \A k \in Keys : \/ Swept[k] = entries[k]
                              \/ Expired(entries[k]) /\ Swept[k] = Zero
           /\ SweepDue => \A k \in Keys : Swept[k] # Zero => ~Expired(entries[k])
           /\ Expired(Zero)
BY DEF TypeOK, Swept, Zero, Expired

\* The invariant holds when the limiter is made, ...
LEMMA InitInv == Init => Inv
BY DEF Init, Inv, TypeOK, EntriesOK, SweepOK, GrantsOK, WindowsApart,
       RetryAfterIsExact, SweepForgetsIdleKeys, Zero

\* ... while time passes, ...
LEMMA TickInv == Inv /\ Tick => Inv'
<1> SUFFICES ASSUME Inv, Tick PROVE Inv'
  OBVIOUS
<1> USE DEF Inv, Tick
<1>1. TypeOK'
  BY DEF TypeOK
<1>2. EntriesOK' /\ SweepOK' /\ SweepForgetsIdleKeys'
  BY DEF TypeOK, EntriesOK, SweepOK, SweepForgetsIdleKeys, Zero
<1>3. GrantsOK' /\ WindowsApart'
  BY DEF TypeOK, GrantsOK, WindowsApart, Zero
<1>4. RetryAfterIsExact'
  BY DEF TypeOK, RetryAfterIsExact, Expired
<1>5. QED
  BY <1>1, <1>2, <1>3, <1>4

\* ... when a call opens a window: the key's older windows are over, ...
LEMMA OpenWindowInv == ASSUME Inv, NEW k \in Keys, OpenWindow(k) PROVE Inv'
<1> DEFINE entry == [count |-> 1, reset |-> clock + Window]
           new == [key |-> k, opened |-> clock, nth |-> 1, at |-> clock]
<1> USE DEF Inv
<1>1. /\ entries' = [Swept EXCEPT ![k] = entry]
      /\ grants' = grants \cup {new}
      /\ limit > 0 /\ limit \in Int
      /\ clock \in Nat
      /\ Expired(Swept[k])
      /\ nextCleanup' = IF SweepDue THEN clock + Window ELSE nextCleanup
      /\ UNCHANGED <<limit, clock, refusals>>
  BY DEF OpenWindow, Count, Sweep, TypeOK
<1>2. TypeOK'
  BY <1>1, SweptEntries DEF TypeOK
<1>3. EntriesOK' /\ SweepOK'
  BY <1>1, SweptEntries DEF EntriesOK, SweepOK, TypeOK, Zero
<1>4. SweepForgetsIdleKeys'
  BY <1>1, SweptEntries DEF SweepForgetsIdleKeys, SweepOK, SweepDue, TypeOK, Expired, Zero
<1>5. \A g \in grants : g.key = k => g.opened + Window <= clock
  BY <1>1, SweptEntries DEF GrantsOK, TypeOK, Expired, Zero
<1>6. GrantsOK'
  <2> SUFFICES ASSUME NEW g \in grants'
               PROVE  GrantsOK!(g)'
    BY DEF GrantsOK
  <2>1. CASE g = new
    BY <2>1, <1>1, SweptEntries DEF TypeOK, Zero
  <2>2. CASE g \in grants /\ g.key = k
    BY <2>2, <1>1, <1>5, SweptEntries DEF TypeOK, GrantsOK, Zero
  <2>3. CASE g \in grants /\ g.key # k
    BY <2>3, <1>1, SweptEntries DEF TypeOK, GrantsOK, Zero, Expired
  <2>4. QED
    BY <1>1, <2>1, <2>2, <2>3
<1>7. WindowsApart'
  BY <1>1, <1>5 DEF WindowsApart, TypeOK
<1>8. RetryAfterIsExact'
  BY <1>1, SweptEntries DEF RetryAfterIsExact, TypeOK, Expired, Zero
<1>9. QED
  BY <1>2, <1>3, <1>4, <1>6, <1>7, <1>8

\* ... when a call is counted in the open window, ...
LEMMA CountHitInv == ASSUME Inv, NEW k \in Keys, CountHit(k) PROVE Inv'
<1> DEFINE old == entries[k]
           entry == [count |-> old.count + 1, reset |-> old.reset]
           new == [key |-> k, opened |-> old.reset - Window,
                   nth |-> old.count + 1, at |-> clock]
<1> USE DEF Inv
<1>1. Swept[k] = old /\ ~Expired(old) /\ old # Zero
  BY SweptEntries DEF CountHit, Expired
<1>2. /\ old \in [count : Nat, reset : Nat]
      /\ old.count + 1 \in 1..limit
      /\ Window <= old.reset
      /\ clock < old.reset /\ old.reset <= clock + Window
      /\ limit \in Int /\ clock \in Nat
  BY <1>1 DEF CountHit, Full, TypeOK, EntriesOK, Expired
<1>3. /\ entries' = [Swept EXCEPT ![k] = entry]
      /\ grants' = grants \cup {new}
      /\ nextCleanup' = IF SweepDue THEN clock + Window ELSE nextCleanup
      /\ UNCHANGED <<limit, clock, refusals>>
  <2>1. [Swept[k] EXCEPT !.count = @ + 1] = entry
    BY <1>1, <1>2
  <2>2. entry.count = new.nth /\ entry.reset - Window = new.opened
    OBVIOUS
  <2>3. QED
    BY <2>1, <2>2 DEF CountHit, Count, Sweep
<1>4. TypeOK'
  BY <1>2, <1>3, SweptEntries DEF TypeOK
<1>5. EntriesOK' /\ SweepOK'
  BY <1>2, <1>3, SweptEntries DEF EntriesOK, SweepOK, TypeOK, Zero
<1>6. SweepForgetsIdleKeys'
  BY <1>1, <1>2, <1>3, SweptEntries
  DEF SweepForgetsIdleKeys, SweepOK, SweepDue, TypeOK, Expired, Zero
<1>7. \A g \in grants : g.key = k =>
         \/ g.opened + Window <= new.opened
         \/ g.opened = new.opened /\ g.nth < new.nth
  BY <1>1, <1>2 DEF GrantsOK, TypeOK
<1>8. GrantsOK'
  <2> SUFFICES ASSUME NEW g \in grants'
               PROVE  GrantsOK!(g)'
    BY DEF GrantsOK
  <2>1. CASE g = new
    BY <2>1, <1>2, <1>3, SweptEntries DEF TypeOK, Zero
  <2>2. CASE g \in grants /\ g.key = k
    BY <2>2, <1>2, <1>3, <1>7, SweptEntries DEF TypeOK, GrantsOK, Zero
  <2>3. CASE g \in grants /\ g.key # k
    BY <2>3, <1>3, SweptEntries DEF TypeOK, GrantsOK, Zero, Expired
  <2>4. QED
    BY <1>3, <2>1, <2>2, <2>3
<1>9. WindowsApart'
  BY <1>2, <1>3, <1>7 DEF WindowsApart, TypeOK
<1>10. RetryAfterIsExact'
  BY <1>1, <1>2, <1>3, SweptEntries DEF CountHit, Full, RetryAfterIsExact, TypeOK, Expired, Zero
<1>11. QED
  BY <1>4, <1>5, <1>6, <1>8, <1>9, <1>10

\* ... and when a call is refused.
LEMMA RefuseInv == ASSUME Inv, NEW k \in Keys, Refuse(k) PROVE Inv'
<1> USE DEF Inv
<1>1. /\ Swept[k] = entries[k] /\ ~Expired(entries[k])
      /\ entries[k] = [count |-> limit, reset |-> entries[k].reset]
      /\ clock < entries[k].reset /\ entries[k].reset <= clock + Window
      /\ clock \in Nat /\ entries[k].reset \in Nat
  <2>1. Swept[k] = entries[k] /\ ~Expired(entries[k]) /\ entries[k] # Zero
    BY SweptEntries DEF Refuse, Expired
  <2>2. entries[k].count = limit /\ clock < entries[k].reset /\ entries[k].reset <= clock + Window
    BY <2>1 DEF Refuse, Full, TypeOK, EntriesOK, Expired, Zero
  <2>3. QED
    BY <2>1, <2>2 DEF TypeOK
<1>2. /\ entries' = Swept
      /\ refusals' = [refusals EXCEPT ![k] =
                         {[at |-> clock, retryAfter |-> entries[k].reset - clock]}]
      /\ nextCleanup' = IF SweepDue THEN clock + Window ELSE nextCleanup
      /\ UNCHANGED <<limit, clock, grants>>
  BY <1>1 DEF Refuse, RetryAfter, Sweep
<1>3. TypeOK'
  BY <1>1, <1>2, SweptEntries DEF TypeOK
<1>4. EntriesOK' /\ SweepOK'
  BY <1>2, SweptEntries DEF EntriesOK, SweepOK, TypeOK, Zero
<1>5. SweepForgetsIdleKeys'
  BY <1>2, SweptEntries DEF SweepForgetsIdleKeys, SweepOK, SweepDue, TypeOK, Expired, Zero
<1>6. GrantsOK' /\ WindowsApart'
  BY <1>2, SweptEntries DEF TypeOK, GrantsOK, WindowsApart, Zero, Expired
<1>7. RetryAfterIsExact'
  <2> SUFFICES ASSUME NEW j \in Keys, NEW r \in refusals'[j]
               PROVE  RetryAfterIsExact!(j)!(r)'
    BY DEF RetryAfterIsExact
  <2>1. CASE j = k
    BY <2>1, <1>1, <1>2 DEF TypeOK, Expired
  <2>2. CASE j # k
    BY <2>2, <1>2, SweptEntries DEF RetryAfterIsExact, TypeOK, Expired, Zero
  <2>3. QED
    BY <2>1, <2>2
<1>8. QED
  BY <1>3, <1>4, <1>5, <1>6, <1>7

\* The inductive invariant is one.
THEOREM Invariance == Spec => []Inv
<1>1. Inv /\ UNCHANGED vars => Inv'
  BY DEF Inv, vars, TypeOK, EntriesOK, SweepOK, GrantsOK, WindowsApart,
         RetryAfterIsExact, SweepForgetsIdleKeys, Expired
<1>2. Inv /\ [Next]_vars => Inv'
  BY <1>1, TickInv, OpenWindowInv, CountHitInv, RefuseInv DEF Next
<1>3. QED
  BY InitInv, <1>2, PTL DEF Spec

(***************************************************************************)
(* Every variable keeps its type.                                          *)
(***************************************************************************)
THEOREM TypeCorrect == Spec => []TypeOK
BY Invariance, PTL DEF Inv

(***************************************************************************)
(* The Retry-After of a refusal is exact: until then the key is refused,   *)
(* from then on its window is over.                                        *)
(***************************************************************************)
THEOREM RetryAfterExact == Spec => []RetryAfterIsExact
BY Invariance, PTL DEF Inv

\* A stored entry was live when the last sweep ran: idle keys are forgotten.
THEOREM IdleKeysForgotten == Spec => []SweepForgetsIdleKeys
BY Invariance, PTL DEF Inv

(***************************************************************************)
(* The grants of one key within one window's length belong to two windows  *)
(* at most: the one open at the interval's start and the one opened after  *)
(* it.  Numbering the second window's requests after the first's maps them *)
(* one to one into 1..2*limit.                                             *)
(***************************************************************************)
LEMMA TwoWindows ==
    ASSUME Inv, NEW k \in Keys, NEW t \in Nat, limit > 0
    PROVE  Cardinality(GrantedWithin(k, t)) <= 2 * limit
<1> DEFINE S == GrantedWithin(k, t)
           f == [g \in S |-> IF g.opened <= t THEN g.nth ELSE limit + g.nth]
<1>1. limit \in Nat /\ S \subseteq grants
  BY DEF Inv, TypeOK, GrantedWithin
<1>2. f \in [S -> 1..2 * limit]
  BY <1>1 DEF Inv, TypeOK, GrantsOK
<1>3. \A g, h \in S : f[g] = f[h] => g = h
  BY <1>1 DEF Inv, TypeOK, GrantsOK, WindowsApart, GrantedWithin
<1>4. f \in Injection(S, 1..2 * limit)
  BY <1>2, <1>3, Fun_IsInj
<1>5. IsFiniteSet(1..2 * limit) /\ Cardinality(1..2 * limit) = 2 * limit
  BY <1>1, FS_Interval
<1>6. QED
  BY <1>4, <1>5, FS_Injection

(***************************************************************************)
(* No interval of one window's length lets more than twice the limit       *)
(* through, whatever the number of clients, the window and the limit.      *)
(***************************************************************************)
THEOREM SlidingBound == Spec => []AtMostTwiceTheLimit
<1>1. Inv => AtMostTwiceTheLimit
  BY TwoWindows DEF AtMostTwiceTheLimit
<1>2. QED
  BY <1>1, Invariance, PTL

(***************************************************************************)
(* The map with its sweep implements the quota without one: a call finds   *)
(* the entry the quota holds, because only expired entries are deleted.    *)
(***************************************************************************)
LEMMA StepsRefine == Inv /\ [Next]_vars => [Quota!Next]_(Quota!vars)
<1> SUFFICES ASSUME Inv, [Next]_vars
             PROVE  Quota!Next \/ UNCHANGED Quota!vars
  OBVIOUS
<1> USE DEF Inv, Quota!Closed
<1>1. Quota!Closed = Zero
  BY DEF Zero
<1>2. CASE Tick
  <2>1. clock' = clock + 1 /\ entries' = entries /\ UNCHANGED <<limit, grants, refusals>>
    BY <1>2 DEF Tick
  <2>2. LiveEntries' = [k \in Keys |-> IF LiveEntries[k].reset <= clock' THEN Quota!Closed
                                       ELSE LiveEntries[k]]
    BY <1>1, <2>1 DEF LiveEntries, Expired, TypeOK, Zero
  <2>3. QED
    BY <2>1, <2>2 DEF Quota!Next, Quota!Tick
<1>3. ASSUME NEW k \in Keys, OpenWindow(k) PROVE Quota!Admit(k)
  <2>1. Expired(entries[k]) /\ LiveEntries[k] = Quota!Closed
    BY <1>1, <1>3, SweptEntries DEF OpenWindow, LiveEntries
  <2>2. limit > 0 /\ limit \in Int /\ UNCHANGED <<limit, clock, refusals>>
    BY <1>3 DEF OpenWindow, TypeOK
  <2>3. LiveEntries' = [LiveEntries EXCEPT ![k] = [count |-> 1, reset |-> clock + Window]]
    <3> DEFINE entry == [count |-> 1, reset |-> clock + Window]
    <3>1. entries' = [Swept EXCEPT ![k] = entry] /\ clock' = clock
      BY <1>3 DEF OpenWindow, Count
    <3>2. ~(clock >= entry.reset) /\ clock >= Zero.reset
      BY DEF TypeOK, Zero
    <3>3. QED
      BY <3>1, <3>2, SweptEntries DEF LiveEntries, Expired, TypeOK
  <2>4. grants' = grants \cup {[key |-> k, opened |-> (clock + Window) - Window,
                                 nth |-> 1, at |-> clock]}
    BY <1>3 DEF OpenWindow, Count
  <2>5. QED
    BY <2>1, <2>2, <2>3, <2>4 DEF Quota!Admit
<1>4. ASSUME NEW k \in Keys, CountHit(k) PROVE Quota!Admit(k)
  <2> DEFINE entry == [entries[k] EXCEPT !.count = @ + 1]
  <2>1. /\ ~Expired(entries[k]) /\ Swept[k] = entries[k]
        /\ LiveEntries[k] = entries[k] /\ entries[k] # Quota!Closed
    BY <1>1, <1>4, SweptEntries DEF CountHit, LiveEntries, Expired
  <2>2. entry.count <= limit /\ UNCHANGED <<limit, clock, refusals>>
    BY <1>4, <2>1 DEF CountHit, Full, TypeOK
  <2>3. LiveEntries' = [LiveEntries EXCEPT ![k] = entry]
    BY <1>4, <2>1, SweptEntries DEF CountHit, Count, LiveEntries, Expired, TypeOK, Zero
  <2>4. QED
    BY <1>4, <2>1, <2>2, <2>3 DEF CountHit, Count, Quota!Admit
<1>5. ASSUME NEW k \in Keys, Refuse(k) PROVE Quota!Refuse(k)
  <2>1. /\ ~Expired(entries[k]) /\ Swept[k] = entries[k]
        /\ LiveEntries[k] = entries[k] /\ entries[k] # Zero
    BY <1>5, SweptEntries DEF Refuse, LiveEntries, Expired
  <2>2. LiveEntries[k].count = limit
    <3>1. entries[k].count \in 1..limit /\ limit \in Int
      BY <2>1 DEF EntriesOK, TypeOK
    <3>2. entries[k].count >= limit
      BY <1>5, <2>1 DEF Refuse, Full
    <3>3. QED
      BY <2>1, <3>1, <3>2
  <2>3. LiveEntries' = LiveEntries
    BY <1>5, SweptEntries DEF Refuse, LiveEntries, Expired, TypeOK, Zero
  <2>4. QED
    BY <1>1, <1>5, <2>1, <2>2, <2>3 DEF Refuse, RetryAfter, Quota!Refuse
<1>6. CASE UNCHANGED vars
  BY <1>6 DEF vars, Quota!vars, LiveEntries, Expired
<1>7. QED
  BY <1>2, <1>3, <1>4, <1>5, <1>6 DEF Next, Quota!Next

\* Every behaviour of the limiter, its sweep included, is one of WindowQuota.
THEOREM LimiterImplementsQuota == Spec => ImplementsQuota
<1>1. Init => Quota!Init
  BY DEF Init, Quota!Init, LiveEntries, Expired, Zero, Quota!Closed
<1>2. QED
  BY <1>1, StepsRefine, Invariance, PTL DEF Spec, ImplementsQuota, Quota!Spec

HIDE LimiterAssumption

-----------------------------------------------------------------------------
(***************************************************************************)
(* The connections and locks.  What a request holds is seen from the step  *)
(* it takes next; the steps follow each other in one order, begin with the *)
(* clean-up if at all and end with a release.                              *)
(***************************************************************************)
Instructions ==
    {"acquire", "share", "close", "reserve", "pend", "commit", "release",
     "lock", "note", "unlock"}

Follows ==
    {<<"acquire", "share">>, <<"share", "close">>, <<"close", "release">>,
     <<"acquire", "reserve">>, <<"reserve", "pend">>, <<"pend", "commit">>,
     <<"commit", "release">>, <<"release", "acquire">>, <<"release", "note">>,
     <<"note", "unlock">>, <<"lock", "unlock">>, <<"unlock", "acquire">>}

Chain(s) == \A n \in 1 .. Len(s) - 1 : <<s[n], s[n + 1]>> \in Follows

Has(s, instruction) == \E n \in DOMAIN s : s[n] = instruction

WellFormed(s) ==
    /\ s \in Seq(Instructions) /\ Chain(s)
    /\ s # <<>> => s[Len(s)] = "release"
    /\ \A n \in DOMAIN s : s[n] = "lock" => n = 1 /\ ~Has(s, "note")
    /\ \A m, n \in DOMAIN s : s[m] = "unlock" /\ s[n] = "unlock" => m = n

AtOneOf(r, steps) == rest[r] # <<>> /\ Head(rest[r]) \in steps

\* A request has one connection at a time, and a lock only with it.
Holds(r) ==
    /\ Held(r) = IF AtOneOf(r, {"share", "close", "reserve", "pend", "commit", "release"})
                 THEN {<<r, 1>>} ELSE {}
    /\ r \in reading <=> AtOneOf(r, {"close"})
    /\ writer = r <=> AtOneOf(r, {"pend", "commit"})
    /\ mutex = r <=> Has(rest[r], "unlock") /\ ~AtOneOf(r, {"lock"})
    /\ Has(rest[r], "note") => lastAttemptCleanup < looked

PoolTypes ==
    /\ DOMAIN rest = Requests /\ \A r \in Requests : WellFormed(rest[r])
    /\ conns \subseteq Requests \X Nat /\ IsFiniteSet(conns)
    /\ Cardinality(conns) <= Connections
    /\ reading \subseteq Requests
    /\ writer \in Requests \cup {Nobody} /\ mutex \in Requests \cup {Nobody}
    /\ committing \in BOOLEAN /\ (committing => writer # Nobody)
    /\ hour \in Nat /\ looked \in 0 .. hour /\ lastAttemptCleanup \in 0 .. looked
    /\ cleanups \in 0 .. lastAttemptCleanup

PoolInv == PoolTypes /\ \A r \in Requests : Holds(r)

-----------------------------------------------------------------------------
\* What a concatenation consists of.
LEMMA Joins ==
    ASSUME NEW s \in Seq(Instructions), NEW t \in Seq(Instructions), s # <<>>, t # <<>>
    PROVE  /\ s \o t \in Seq(Instructions) /\ s \o t # <<>> /\ Head(s \o t) = Head(s)
           /\ Len(s \o t) = Len(s) + Len(t) /\ (s \o t)[Len(s \o t)] = t[Len(t)]
           /\ \A n \in DOMAIN (s \o t) :
                 \/ n \in DOMAIN s /\ (s \o t)[n] = s[n]
                 \/ n > Len(s) /\ n - Len(s) \in DOMAIN t /\ (s \o t)[n] = t[n - Len(s)]
           /\ \A x : Has(s \o t, x) <=> Has(s, x) \/ Has(t, x)
           /\ Chain(s) /\ Chain(t) /\ <<s[Len(s)], t[1]>> \in Follows => Chain(s \o t)
<1> DEFINE st == s \o t
<1>1. /\ st \in Seq(Instructions) /\ Len(st) = Len(s) + Len(t) /\ DOMAIN st = 1 .. Len(st)
      /\ Len(s) \in Nat \ {0} /\ Len(t) \in Nat \ {0}
      /\ \A n \in 1 .. Len(s) : st[n] = s[n]
      /\ \A n \in 1 .. Len(t) : st[n + Len(s)] = t[n]
  OBVIOUS
<1>2. st # <<>> /\ Head(st) = Head(s) /\ st[Len(st)] = t[Len(t)]
  <2>1. Head(st) = st[1] /\ Head(s) = s[1] /\ st # <<>>
    BY <1>1
  <2>2. st[Len(t) + Len(s)] = t[Len(t)]
    BY <1>1
  <2> HIDE DEF st
  <2>3. QED
    BY <1>1, <2>1, <2>2
<1> HIDE DEF st
<1>3. \A n \in DOMAIN st :
         \/ n \in DOMAIN s /\ st[n] = s[n]
         \/ n > Len(s) /\ n - Len(s) \in DOMAIN t /\ st[n] = t[n - Len(s)]
  <2> SUFFICES ASSUME NEW n \in DOMAIN st
               PROVE  \/ n \in DOMAIN s /\ st[n] = s[n]
                      \/ n > Len(s) /\ n - Len(s) \in DOMAIN t /\ st[n] = t[n - Len(s)]
    OBVIOUS
  <2>1. CASE n <= Len(s)
    BY <1>1, <2>1
  <2>2. CASE n > Len(s)
    <3>1. n - Len(s) \in 1 .. Len(t) /\ (n - Len(s)) + Len(s) = n
      BY <1>1, <2>2
    <3>2. st[(n - Len(s)) + Len(s)] = t[n - Len(s)]
      BY <1>1, <3>1
    <3>3. QED
      BY <2>2, <3>1, <3>2
  <2>3. QED
    BY <1>1, <2>1, <2>2
<1>4. ASSUME NEW x PROVE Has(st, x) <=> Has(s, x) \/ Has(t, x)
  <2>1. ASSUME Has(s, x) PROVE Has(st, x)
    <3>1. PICK n \in DOMAIN s : s[n] = x
      BY <2>1 DEF Has
    <3>2. n \in DOMAIN st /\ st[n] = x
      BY <1>1, <3>1
    <3>3. QED
      BY <3>2 DEF Has
  <2>2. ASSUME Has(t, x) PROVE Has(st, x)
    <3>1. PICK n \in DOMAIN t : t[n] = x
      BY <2>2 DEF Has
    <3> DEFINE m == n + Len(s)
    <3>2. m \in DOMAIN st /\ st[m] = x
      <4>1. n \in 1 .. Len(t)
        OBVIOUS
      <4>2. QED
        BY <1>1, <3>1, <4>1
    <3> HIDE DEF m
    <3>3. QED
      BY <3>2 DEF Has
  <2>3. ASSUME Has(st, x) PROVE Has(s, x) \/ Has(t, x)
    <3>1. PICK n \in DOMAIN st : st[n] = x
      BY <2>3 DEF Has
    <3>2. CASE n \in DOMAIN s /\ st[n] = s[n]
      BY <3>1, <3>2 DEF Has
    <3>3. CASE n - Len(s) \in DOMAIN t /\ st[n] = t[n - Len(s)]
      BY <3>1, <3>3 DEF Has
    <3>4. QED
      BY <1>3, <3>2, <3>3
  <2>4. QED
    BY <2>1, <2>2, <2>3
<1>5. ASSUME Chain(s), Chain(t), <<s[Len(s)], t[1]>> \in Follows PROVE Chain(st)
  <2> SUFFICES ASSUME NEW n \in 1 .. Len(st) - 1 PROVE <<st[n], st[n + 1]>> \in Follows
    BY DEF Chain
  <2>1. CASE n < Len(s)
    <3>1. n \in 1 .. Len(s) - 1 /\ n \in 1 .. Len(s) /\ n + 1 \in 1 .. Len(s)
      BY <1>1, <2>1
    <3>2. st[n] = s[n] /\ st[n + 1] = s[n + 1]
      BY <1>1, <3>1
    <3>3. QED
      BY <1>5, <3>1, <3>2 DEF Chain
  <2>2. CASE n = Len(s)
    <3>1. st[n] = s[Len(s)] /\ st[1 + Len(s)] = t[1] /\ n + 1 = 1 + Len(s)
      BY <1>1, <2>2
    <3>2. QED
      BY <1>5, <3>1
  <2>3. CASE n > Len(s)
    <3> DEFINE m == n - Len(s)
    <3>1. m \in 1 .. Len(t) - 1 /\ m \in 1 .. Len(t) /\ m + 1 \in 1 .. Len(t)
          /\ m + Len(s) = n /\ (m + 1) + Len(s) = n + 1
      BY <1>1, <2>3
    <3> HIDE DEF m
    <3>2. st[m + Len(s)] = t[m] /\ st[(m + 1) + Len(s)] = t[m + 1]
      BY <1>1, <3>1
    <3>3. QED
      BY <1>5, <3>1, <3>2 DEF Chain
  <2>4. QED
    BY <1>1, <2>1, <2>2, <2>3
<1>6. QED
  BY <1>1, <1>2, <1>3, <1>4, <1>5 DEF st

\* Statements one after the other, without a clean-up.
Plain(s) ==
    /\ WellFormed(s) /\ s # <<>> /\ Head(s) = "acquire"
    /\ \A x \in {"lock", "note", "unlock"} : ~Has(s, x)

LEMMA PlainStatements == Plain(Query) /\ Plain(Immediate)
<1>1. /\ Query \in Seq(Instructions) /\ Len(Query) = 4 /\ DOMAIN Query = 1 .. 4
      /\ Query[1] = "acquire" /\ Query[2] = "share" /\ Query[3] = "close"
      /\ Query[4] = "release" /\ Query # <<>> /\ Head(Query) = "acquire"
  BY DEF Query, Instructions
<1>2. Chain(Query) /\ \A x \in {"lock", "note", "unlock"} : ~Has(Query, x)
  <2>1. \A n \in 1 .. 4 : n = 1 \/ n = 2 \/ n = 3 \/ n = 4
    OBVIOUS
  <2>2. \A n \in 1 .. 4 - 1 : n = 1 \/ n = 2 \/ n = 3
    OBVIOUS
  <2>3. QED
    BY <1>1, <2>1, <2>2 DEF Chain, Follows, Has
<1>3. Plain(Query)
  BY <1>1, <1>2 DEF Plain, WellFormed, Has
<1>4. /\ Immediate \in Seq(Instructions) /\ Len(Immediate) = 5 /\ DOMAIN Immediate = 1 .. 5
      /\ Immediate[1] = "acquire" /\ Immediate[2] = "reserve" /\ Immediate[3] = "pend"
      /\ Immediate[4] = "commit" /\ Immediate[5] = "release"
      /\ Immediate # <<>> /\ Head(Immediate) = "acquire"
  BY DEF Immediate, Instructions
<1>5. Chain(Immediate) /\ \A x \in {"lock", "note", "unlock"} : ~Has(Immediate, x)
  <2>1. \A n \in 1 .. 5 : n = 1 \/ n = 2 \/ n = 3 \/ n = 4 \/ n = 5
    OBVIOUS
  <2>2. \A n \in 1 .. 5 - 1 : n = 1 \/ n = 2 \/ n = 3 \/ n = 4
    OBVIOUS
  <2>3. QED
    BY <1>4, <2>1, <2>2 DEF Chain, Follows, Has
<1>6. Plain(Immediate)
  BY <1>4, <1>5 DEF Plain, WellFormed, Has
<1>7. QED
  BY <1>3, <1>6

LEMMA PlainJoined ==
    ASSUME NEW s, NEW t, Plain(s), Plain(t)
    PROVE  Plain(s \o t)
<1>1. /\ s \in Seq(Instructions) /\ t \in Seq(Instructions) /\ s # <<>> /\ t # <<>>
      /\ Chain(s) /\ Chain(t) /\ s[Len(s)] = "release" /\ t[Len(t)] = "release"
      /\ Head(s) = "acquire" /\ Head(t) = "acquire"
      /\ \A x \in {"lock", "note", "unlock"} : ~Has(s, x) /\ ~Has(t, x)
  BY DEF Plain, WellFormed
<1>2. <<s[Len(s)], t[1]>> \in Follows
  BY <1>1 DEF Follows
<1>3. /\ s \o t \in Seq(Instructions) /\ s \o t # <<>> /\ Head(s \o t) = "acquire"
      /\ (s \o t)[Len(s \o t)] = "release" /\ Chain(s \o t)
      /\ \A x \in {"lock", "note", "unlock"} : ~Has(s \o t, x)
  BY <1>1, <1>2, Joins
<1>4. QED
  BY <1>3 DEF Plain, WellFormed, Has

\* Before the statements, the mutex is taken and given back, ...
LEMMA CleaningFirst ==
    ASSUME NEW t, Plain(t)
    PROVE  /\ WellFormed(<<"lock", "unlock">> \o t) /\ <<"lock", "unlock">> \o t # <<>>
           /\ Head(<<"lock", "unlock">> \o t) = "lock"
           /\ ~Has(<<"lock", "unlock">> \o t, "note")
<1> DEFINE s == <<"lock", "unlock">>
<1>1. /\ s \in Seq(Instructions) /\ Len(s) = 2 /\ DOMAIN s = 1 .. 2 /\ s # <<>>
      /\ s[1] = "lock" /\ s[2] = "unlock" /\ Head(s) = "lock"
  BY DEF Instructions
<1> HIDE DEF s
<1>2. Chain(s)
  BY <1>1 DEF Chain, Follows
<1>3. /\ t \in Seq(Instructions) /\ t # <<>> /\ Chain(t) /\ t[Len(t)] = "release"
      /\ Head(t) = "acquire" /\ \A x \in {"lock", "note", "unlock"} : ~Has(t, x)
  BY DEF Plain, WellFormed
<1>4. <<s[Len(s)], t[1]>> \in Follows
  BY <1>1, <1>3 DEF Follows
<1> DEFINE st == s \o t
<1>5. /\ st \in Seq(Instructions) /\ st # <<>> /\ Head(st) = "lock" /\ Chain(st)
      /\ st[Len(st)] = "release" /\ ~Has(s, "note")
      /\ \A n \in DOMAIN st :
            \/ n \in DOMAIN s /\ st[n] = s[n]
            \/ n > Len(s) /\ n - Len(s) \in DOMAIN t /\ st[n] = t[n - Len(s)]
      /\ ~Has(st, "note")
  <2>1. ~Has(s, "note")
    BY <1>1 DEF Has
  <2> HIDE DEF st
  <2>2. QED
    BY <1>1, <1>2, <1>3, <1>4, <2>1, Joins DEF st
<1> HIDE DEF st
<1>6. \A n \in DOMAIN st : /\ st[n] = "lock" => n = 1
                           /\ st[n] = "unlock" => n = 2
  BY <1>1, <1>3, <1>5 DEF Has
<1>7. QED
  BY <1>5, <1>6 DEF WellFormed, st, s

\* What every request is before its first step.
Begins(s) ==
    /\ WellFormed(s) /\ s # <<>> /\ ~Has(s, "note")
    /\ Head(s) \in {"lock", "acquire"} /\ (Head(s) = "acquire" => ~Has(s, "unlock"))

LEMMA ProgramsWellFormed ==
    \A kind \in Kinds : Begins(Program(kind))
<1>1. \A s : Plain(s) => Begins(s)
  BY DEF Plain, Begins
<1>2. Plain(Query) /\ Plain(FeedRows) /\ Plain(Overview) /\ Plain(Immediate)
  BY PlainStatements, PlainJoined DEF FeedRows, Overview
<1>3. RecordAttempt = <<"lock", "unlock">> \o Immediate
  BY DEF RecordAttempt
<1>4. RecordPenalty = <<"lock", "unlock">> \o ((Immediate \o Immediate) \o Query)
  <2>1. Immediate \in Seq(Instructions) /\ Query \in Seq(Instructions)
        /\ <<"lock", "unlock">> \in Seq(Instructions)
    BY PlainStatements DEF Plain, WellFormed, Instructions
  <2>2. \A a, b, c, d \in Seq(Instructions) : ((a \o b) \o c) \o d = a \o ((b \o c) \o d)
    OBVIOUS
  <2>3. QED
    BY <2>1, <2>2 DEF RecordPenalty
<1>5. Plain((Immediate \o Immediate) \o Query)
  BY PlainStatements, PlainJoined
<1>6. Begins(RecordAttempt) /\ Begins(RecordPenalty)
  <2>1. ASSUME NEW t, Plain(t) PROVE Begins(<<"lock", "unlock">> \o t)
    <3> DEFINE s == <<"lock", "unlock">> \o t
    <3>1. WellFormed(s) /\ s # <<>> /\ Head(s) = "lock" /\ ~Has(s, "note")
      BY <2>1, CleaningFirst
    <3> HIDE DEF s
    <3>2. Begins(s)
      BY <3>1 DEF Begins
    <3>3. QED
      BY <3>2 DEF s
  <2>2. QED
    BY <1>2, <1>3, <1>4, <1>5, <2>1
<1>7. QED
  BY <1>1, <1>2, <1>6, DatabasePoolAssumption DEF Program

\* What is left after a step.
LEMMA TailWellFormed ==
    ASSUME NEW s, WellFormed(s), s # <<>>
    PROVE  /\ WellFormed(Tail(s)) /\ Head(s) \in Instructions
           /\ IF Tail(s) = <<>> THEN Head(s) = "release"
              ELSE <<Head(s), Head(Tail(s))>> \in Follows
           /\ ~Has(Tail(s), "lock")
           /\ IF Head(s) = "unlock" THEN ~Has(Tail(s), "unlock")
              ELSE Has(Tail(s), "unlock") <=> Has(s, "unlock")
           /\ Has(Tail(s), "note") => Has(s, "note") /\ Head(s) # "note"
           /\ Has(s, "note") => Has(s, "unlock")
<1> DEFINE t == Tail(s)
<1>1. /\ s \in Seq(Instructions) /\ Chain(s) /\ s[Len(s)] = "release"
      /\ \A n \in DOMAIN s : s[n] = "lock" => n = 1 /\ ~Has(s, "note")
      /\ \A m, n \in DOMAIN s : s[m] = "unlock" /\ s[n] = "unlock" => m = n
  BY DEF WellFormed
<1>2. /\ t \in Seq(Instructions) /\ DOMAIN t = 1 .. Len(t) /\ Len(t) = Len(s) - 1
      /\ Len(s) \in Nat \ {0} /\ DOMAIN s = 1 .. Len(s) /\ Head(s) = s[1] /\ Head(s) \in Instructions
      /\ \A n \in 1 .. Len(t) : t[n] = s[n + 1] /\ n + 1 \in DOMAIN s
      /\ t # <<>> => Head(t) = t[1] /\ Len(t) > 0
  BY <1>1
<1> HIDE DEF t
<1>3. \A n \in DOMAIN s : n = 1 \/ (n - 1 \in DOMAIN t /\ t[n - 1] = s[n])
  <2> SUFFICES ASSUME NEW n \in DOMAIN s, n # 1 PROVE n - 1 \in DOMAIN t /\ t[n - 1] = s[n]
    OBVIOUS
  <2>1. n - 1 \in 1 .. Len(t) /\ (n - 1) + 1 = n
    BY <1>2
  <2>2. t[n - 1] = s[(n - 1) + 1]
    BY <1>2, <2>1
  <2>3. QED
    BY <1>2, <2>1, <2>2
<1>4. ASSUME NEW x PROVE /\ Has(t, x) => Has(s, x)
                         /\ Has(s, x) /\ Head(s) # x => Has(t, x)
  BY <1>2, <1>3 DEF Has
<1>5. Chain(t)
  <2> SUFFICES ASSUME NEW n \in 1 .. Len(t) - 1 PROVE <<t[n], t[n + 1]>> \in Follows
    BY DEF Chain
  <2>1. /\ n + 1 \in 1 .. Len(s) - 1 /\ n \in 1 .. Len(t) /\ n + 1 \in 1 .. Len(t)
    BY <1>2
  <2>2. t[n] = s[n + 1] /\ t[n + 1] = s[(n + 1) + 1]
    BY <1>2, <2>1
  <2>3. QED
    BY <1>1, <2>1, <2>2 DEF Chain
<1>6. t # <<>> => t[Len(t)] = "release" /\ <<Head(s), Head(t)>> \in Follows
  <2> SUFFICES ASSUME t # <<>>
               PROVE  t[Len(t)] = "release" /\ <<Head(s), Head(t)>> \in Follows
    OBVIOUS
  <2>1. Len(t) \in 1 .. Len(t) /\ Len(t) + 1 = Len(s) /\ 1 \in 1 .. Len(t) /\ 1 \in 1 .. Len(s) - 1
    BY <1>2
  <2>2. t[Len(t)] = s[Len(s)] /\ t[1] = s[1 + 1]
    BY <1>2, <2>1
  <2>3. QED
    BY <1>1, <1>2, <2>1, <2>2 DEF Chain
<1>7. t = <<>> => Head(s) = "release"
  BY <1>1, <1>2
<1>8. ~Has(t, "lock")
  BY <1>1, <1>2 DEF Has
<1>9. ASSUME NEW m \in DOMAIN t, NEW n \in DOMAIN t, t[m] = "unlock", t[n] = "unlock"
      PROVE  m = n
  <2>1. m \in 1 .. Len(t) /\ n \in 1 .. Len(t) /\ m + 1 \in DOMAIN s /\ n + 1 \in DOMAIN s
        /\ s[m + 1] = "unlock" /\ s[n + 1] = "unlock"
    BY <1>2, <1>9
  <2>2. m + 1 = n + 1
    BY <1>1, <2>1
  <2>3. QED
    BY <1>2, <2>1, <2>2
<1>10. Head(s) = "unlock" => ~Has(t, "unlock")
  <2> SUFFICES ASSUME Head(s) = "unlock", NEW n \in DOMAIN t, t[n] = "unlock" PROVE FALSE
    BY DEF Has
  <2>1. n + 1 \in DOMAIN s /\ s[n + 1] = "unlock" /\ 1 \in DOMAIN s /\ s[1] = "unlock"
    BY <1>2
  <2>2. n + 1 = 1 /\ n \in 1 .. Len(t)
    BY <1>1, <1>2, <2>1
  <2>3. QED
    BY <1>2, <2>2
\* "note" is not the last step, and "unlock" is next.
<1>11. ASSUME NEW n \in DOMAIN s, s[n] = "note" PROVE n + 1 \in DOMAIN s /\ s[n + 1] = "unlock"
  <2>1. n # Len(s)
    BY <1>1, <1>11
  <2>2. n \in 1 .. Len(s) - 1 /\ n + 1 \in DOMAIN s
    BY <1>2, <2>1
  <2>3. <<s[n], s[n + 1]>> \in Follows
    BY <1>1, <2>2 DEF Chain
  <2>4. QED
    BY <1>11, <2>2, <2>3 DEF Follows
<1>12. Head(s) = "note" => ~Has(t, "note")
  <2> SUFFICES ASSUME Head(s) = "note", NEW n \in DOMAIN t, t[n] = "note" PROVE FALSE
    BY DEF Has
  <2>1. n \in 1 .. Len(t) /\ n + 1 \in DOMAIN s /\ s[n + 1] = "note" /\ 1 \in DOMAIN s /\ s[1] = "note"
    BY <1>2
  <2>2. s[1 + 1] = "unlock" /\ s[(n + 1) + 1] = "unlock" /\ 1 + 1 \in DOMAIN s /\ (n + 1) + 1 \in DOMAIN s
    BY <1>11, <2>1
  <2>3. 1 + 1 = (n + 1) + 1
    BY <1>1, <2>2
  <2>4. QED
    BY <1>2, <2>1, <2>3
<1>13. Has(s, "note") => Has(s, "unlock")
  BY <1>11 DEF Has
<1>14. WellFormed(t)
  <2>1. \A n \in DOMAIN t : t[n] # "lock"
    BY <1>8 DEF Has
  <2>2. QED
    BY <1>2, <1>5, <1>6, <1>9, <2>1 DEF WellFormed
<1>15. QED
  BY <1>2, <1>4, <1>6, <1>7, <1>8, <1>10, <1>12, <1>13, <1>14 DEF t

\* ... and between, old attempts are deleted when that is due.
LEMMA CleaningDue ==
    ASSUME NEW s, WellFormed(s), s # <<>>, Head(s) = "lock"
    PROVE  /\ WellFormed(Tail(s)) /\ Tail(s) # <<>> /\ Head(Tail(s)) = "unlock"
           /\ Has(Tail(s), "unlock") /\ ~Has(Tail(s), "note")
           /\ LET due == (Immediate \o <<"note">>) \o Tail(s)
              IN  WellFormed(due) /\ due # <<>> /\ Head(due) = "acquire" /\ Has(due, "unlock")
<1> DEFINE t == Tail(s)
           i == Immediate
           note == <<"note">>
           clean == i \o note
<1>1. /\ WellFormed(t) /\ t # <<>> /\ Head(t) = "unlock" /\ ~Has(t, "lock")
  BY TailWellFormed DEF Follows
<1>2. ~Has(s, "note") /\ ~Has(t, "note")
  <2>1. 1 \in DOMAIN s /\ s[1] = "lock"
    BY DEF WellFormed
  <2>2. ~Has(s, "note")
    BY <2>1 DEF WellFormed
  <2>3. QED
    BY <2>2, TailWellFormed
<1>3. 1 \in DOMAIN t /\ t[1] = "unlock" /\ Has(t, "unlock")
  BY <1>1 DEF WellFormed, Has
<1>4. /\ note \in Seq(Instructions) /\ note # <<>> /\ Len(note) = 1 /\ DOMAIN note = 1 .. 1
      /\ note[1] = "note"
  BY DEF Instructions
<1> HIDE DEF t, note
<1>5. /\ Chain(note) /\ Has(note, "note") /\ ~Has(note, "lock") /\ ~Has(note, "unlock")
  <2>1. \A n \in 1 .. 1 : n = 1
    OBVIOUS
  <2>2. QED
    BY <1>4, <2>1 DEF Chain, Has
<1>6. /\ i \in Seq(Instructions) /\ i # <<>> /\ Chain(i) /\ i[Len(i)] = "release"
      /\ Head(i) = "acquire" /\ ~Has(i, "lock") /\ ~Has(i, "unlock")
  BY PlainStatements DEF Plain, WellFormed
<1> HIDE DEF i, clean
<1>7. /\ clean \in Seq(Instructions) /\ clean # <<>> /\ Chain(clean)
      /\ clean[Len(clean)] = "note" /\ Head(clean) = "acquire"
      /\ ~Has(clean, "lock") /\ ~Has(clean, "unlock")
  <2>1. <<i[Len(i)], note[1]>> \in Follows
    BY <1>4, <1>6 DEF Follows
  <2>2. QED
    BY <1>4, <1>5, <1>6, <2>1, Joins DEF clean
<1> DEFINE due == clean \o t
<1>8. t \in Seq(Instructions) /\ Chain(t) /\ t[Len(t)] = "release"
  BY <1>1 DEF WellFormed
<1>9. <<clean[Len(clean)], t[1]>> \in Follows
  BY <1>3, <1>7 DEF Follows
<1>10. /\ due \in Seq(Instructions) /\ due # <<>> /\ Chain(due) /\ Head(due) = "acquire"
       /\ due[Len(due)] = "release" /\ ~Has(due, "lock") /\ Has(due, "unlock")
       /\ \A n \in DOMAIN due :
             \/ n \in DOMAIN clean /\ due[n] = clean[n]
             \/ n > Len(clean) /\ n - Len(clean) \in DOMAIN t /\ due[n] = t[n - Len(clean)]
  <2> HIDE DEF due
  <2>1. QED
    BY <1>1, <1>3, <1>7, <1>8, <1>9, Joins DEF due
<1> HIDE DEF due
<1>11. ASSUME NEW m \in DOMAIN due, NEW n \in DOMAIN due, due[m] = "unlock", due[n] = "unlock"
       PROVE  m = n
  <2>1. /\ m - Len(clean) \in DOMAIN t /\ t[m - Len(clean)] = "unlock"
        /\ n - Len(clean) \in DOMAIN t /\ t[n - Len(clean)] = "unlock"
    BY <1>7, <1>10, <1>11 DEF Has
  <2>2. m - Len(clean) = n - Len(clean)
    BY <1>1, <2>1 DEF WellFormed
  <2>3. Len(clean) \in Nat /\ m \in Nat /\ n \in Nat
    BY <1>7, <1>10
  <2>4. QED
    BY <2>2, <2>3
<1>12. WellFormed(due)
  BY <1>10, <1>11 DEF WellFormed, Has
<1>13. QED
  BY <1>1, <1>2, <1>3, <1>10, <1>12 DEF due, clean, note, i, t

-----------------------------------------------------------------------------
Connected == {"share", "close", "reserve", "pend", "commit", "release"}

\* What a request holds as long as nothing of it changes.
LEMMA OthersHold ==
    ASSUME PoolInv, NEW q \in Requests,
           rest'[q] = rest[q], Held(q)' = Held(q),
           q \in reading' <=> q \in reading, writer' = q <=> writer = q, mutex' = q <=> mutex = q,
           \/ UNCHANGED <<lastAttemptCleanup, looked>>
           \/ mutex # q
    PROVE  Holds(q)'
<1>1. WellFormed(rest[q]) /\ Holds(q)
  BY DEF PoolInv, PoolTypes
<1>2. /\ Held(q)' = IF AtOneOf(q, Connected)' THEN {<<q, 1>>} ELSE {}
      /\ q \in reading' <=> AtOneOf(q, {"close"})'
      /\ writer' = q <=> AtOneOf(q, {"pend", "commit"})'
      /\ mutex' = q <=> Has(rest'[q], "unlock") /\ ~AtOneOf(q, {"lock"})'
  BY <1>1 DEF Holds, AtOneOf, Connected
<1>3. ASSUME Has(rest[q], "note") PROVE mutex = q
  <2>1. rest[q] # <<>> /\ Has(rest[q], "unlock")
    <3>1. rest[q] # <<>>
      BY <1>3 DEF Has
    <3>2. QED
      BY <1>1, <1>3, <3>1, TailWellFormed
  <2>2. 1 \in DOMAIN rest[q] /\ Head(rest[q]) = rest[q][1]
    BY <1>1, <2>1 DEF WellFormed
  <2>3. Head(rest[q]) # "lock"
    BY <1>1, <1>3, <2>2 DEF WellFormed
  <2>4. QED
    BY <1>1, <2>1, <2>3 DEF Holds, AtOneOf
<1>4. Has(rest'[q], "note") => lastAttemptCleanup' < looked'
  BY <1>1, <1>3 DEF Holds
<1>5. QED
  BY <1>2, <1>4 DEF Holds, Connected

\* What is left of a request after a step, and that the others stay.
LEMMA Advanced ==
    ASSUME PoolInv, NEW r \in Requests, NEW i, At(r, i), Advance(r)
    PROVE  /\ DOMAIN rest' = Requests /\ \A q \in Requests : WellFormed(rest'[q])
           /\ \A q \in Requests \ {r} : rest'[q] = rest[q]
           /\ IF rest'[r] = <<>> THEN i = "release" ELSE <<i, Head(rest'[r])>> \in Follows
           /\ ~Has(rest'[r], "lock")
           /\ IF i = "unlock" THEN ~Has(rest'[r], "unlock")
              ELSE Has(rest'[r], "unlock") <=> Has(rest[r], "unlock")
           /\ Has(rest'[r], "note") => Has(rest[r], "note") /\ i # "note"
<1>1. /\ DOMAIN rest = Requests /\ \A q \in Requests : WellFormed(rest[q])
      /\ rest[r] # <<>> /\ Head(rest[r]) = i
  BY DEF PoolInv, PoolTypes, At
<1>2. /\ DOMAIN rest' = Requests /\ rest'[r] = Tail(rest[r])
      /\ \A q \in Requests \ {r} : rest'[q] = rest[q]
  BY <1>1 DEF Advance
<1>3. QED
  BY <1>1, <1>2, TailWellFormed

\* The first step of a sequence is in it.
LEMMA HeadIsIn == \A s, x : WellFormed(s) /\ s # <<>> /\ Head(s) = x => Has(s, x)
BY DEF WellFormed, Has

\* A step that touches the connections and the locks of one request only.
LEMMA StatementStep ==
    ASSUME PoolInv, NEW r \in Requests, NEW i \in Connected \cup {"acquire"},
           At(r, i), Advance(r), UNCHANGED times,
           \A q \in Requests \ {r} : /\ Held(q)' = Held(q)
                                     /\ q \in reading' <=> q \in reading
                                     /\ writer' = q <=> writer = q,
           Held(r)' = IF AtOneOf(r, Connected)' THEN {<<r, 1>>} ELSE {},
           r \in reading' <=> AtOneOf(r, {"close"})',
           writer' = r <=> AtOneOf(r, {"pend", "commit"})'
    PROVE  \A q \in Requests : Holds(q)'
<1>1. ASSUME NEW q \in Requests, q # r PROVE Holds(q)'
  BY <1>1, Advanced, OthersHold DEF times
<1>2. Holds(r)'
  <2>1. /\ WellFormed(rest[r]) /\ WellFormed(rest'[r]) /\ ~Has(rest'[r], "lock")
        /\ Has(rest'[r], "unlock") <=> Has(rest[r], "unlock")
        /\ Has(rest'[r], "note") => Has(rest[r], "note")
    BY Advanced DEF PoolInv, PoolTypes, Connected
  <2>2. ~AtOneOf(r, {"lock"}) /\ ~AtOneOf(r, {"lock"})'
    BY <2>1, HeadIsIn DEF AtOneOf, At, Connected
  <2>3. mutex' = r <=> Has(rest'[r], "unlock") /\ ~AtOneOf(r, {"lock"})'
    BY <2>1, <2>2 DEF PoolInv, Holds, times
  <2>4. Has(rest'[r], "note") => lastAttemptCleanup' < looked'
    BY <2>1 DEF PoolInv, Holds, times
  <2>5. QED
    BY <2>3, <2>4 DEF Holds, Connected
<1>3. QED
  BY <1>1, <1>2

-----------------------------------------------------------------------------
\* Every action keeps the invariant.
LEMMA PoolSteps ==
    ASSUME PoolInv, NEW r \in Requests
    PROVE  /\ Acquire(r) => PoolInv'
           /\ Release(r) => PoolInv'
           /\ Share(r) => PoolInv'
           /\ CloseRows(r) => PoolInv'
           /\ ReserveLock(r) => PoolInv'
           /\ Pend(r) => PoolInv'
           /\ Commit(r) => PoolInv'
<1>1. PoolTypes /\ Holds(r) /\ r # Nobody
  BY DatabasePoolAssumption DEF PoolInv
<1>2. ASSUME Acquire(r) PROVE PoolInv'
  <2>1. /\ At(r, "acquire") /\ Advance(r) /\ UNCHANGED <<reading, writer, committing, times>>
        /\ Cardinality(conns) < Connections
        /\ conns' = conns \cup {<<r, Cardinality(Held(r)) + 1>>}
    BY <1>2 DEF Acquire
  <2>2. Held(r) = {} /\ r \notin reading /\ writer # r
    BY <1>1, <2>1 DEF Holds, AtOneOf, At
  <2>3. conns' = conns \cup {<<r, 1>>} /\ <<r, 1>> \notin conns
    BY <2>1, <2>2, FS_EmptySet DEF Held
  <2>4. /\ Held(r)' = {<<r, 1>>}
        /\ \A q \in Requests \ {r} : Held(q)' = Held(q)
    BY <2>2, <2>3 DEF Held
  <2>5. rest'[r] # <<>> /\ Head(rest'[r]) \in {"share", "reserve"}
    BY <2>1, Advanced DEF Follows
  <2>6. \A q \in Requests : Holds(q)'
    BY <2>1, <2>2, <2>4, <2>5, StatementStep DEF AtOneOf, Connected
  <2>7. IsFiniteSet(conns') /\ Cardinality(conns') = Cardinality(conns) + 1
    BY <1>1, <2>3, FS_AddElement DEF PoolTypes
  <2>8. Cardinality(conns) \in Nat /\ Connections \in Nat
    BY <1>1, FS_CardinalityType, DatabasePoolAssumption DEF PoolTypes
  <2>9. Cardinality(conns') <= Connections
    BY <2>1, <2>7, <2>8
  <2>10. PoolTypes'
    <3>1. conns' \subseteq Requests \X Nat
      BY <1>1, <2>3 DEF PoolTypes
    <3>2. QED
      BY <1>1, <2>1, <2>7, <2>9, <3>1, Advanced DEF PoolTypes, times
  <2>11. QED
    BY <2>6, <2>10 DEF PoolInv
<1>3. ASSUME Release(r) PROVE PoolInv'
  <2>1. /\ At(r, "release") /\ Advance(r) /\ UNCHANGED <<reading, writer, committing, times>>
        /\ conns' = conns \ {<<r, Cardinality(Held(r))>>}
    BY <1>3 DEF Release
  <2>2. Held(r) = {<<r, 1>>} /\ r \notin reading /\ writer # r
    BY <1>1, <2>1 DEF Holds, AtOneOf, At
  <2>3. conns' = conns \ {<<r, 1>>} /\ <<r, 1>> \in conns
    BY <2>1, <2>2, FS_Singleton DEF Held
  <2>4. /\ Held(r)' = {}
        /\ \A q \in Requests \ {r} : Held(q)' = Held(q)
    BY <2>2, <2>3 DEF Held
  <2>5. rest'[r] # <<>> => Head(rest'[r]) \in {"acquire", "note"}
    BY <2>1, Advanced DEF Follows
  <2>6. \A q \in Requests : Holds(q)'
    BY <2>1, <2>2, <2>4, <2>5, StatementStep DEF AtOneOf, Connected
  <2>7. IsFiniteSet(conns') /\ Cardinality(conns') = Cardinality(conns) - 1
    BY <1>1, <2>3, FS_RemoveElement DEF PoolTypes
  <2>8. Cardinality(conns) \in Nat /\ Connections \in Nat
    BY <1>1, FS_CardinalityType, DatabasePoolAssumption DEF PoolTypes
  <2>9. Cardinality(conns') <= Connections
    BY <1>1, <2>7, <2>8 DEF PoolTypes
  <2>10. PoolTypes'
    BY <1>1, <2>1, <2>3, <2>7, <2>9, Advanced DEF PoolTypes, times
  <2>11. QED
    BY <2>6, <2>10 DEF PoolInv
<1>4. ASSUME Share(r) PROVE PoolInv'
  <2>1. /\ At(r, "share") /\ Advance(r) /\ UNCHANGED <<conns, writer, committing, times>>
        /\ reading' = reading \cup {r}
    BY <1>4 DEF Share
  <2>2. Held(r) = {<<r, 1>>} /\ writer # r
    BY <1>1, <2>1 DEF Holds, AtOneOf, At
  <2>3. \A q \in Requests : Held(q)' = Held(q)
    BY <2>1 DEF Held
  <2>4. rest'[r] # <<>> /\ Head(rest'[r]) = "close"
    BY <2>1, Advanced DEF Follows
  <2>5. \A q \in Requests : Holds(q)'
    BY <2>1, <2>2, <2>3, <2>4, StatementStep DEF AtOneOf, Connected
  <2>6. PoolTypes'
    BY <1>1, <2>1, Advanced DEF PoolTypes, times
  <2>7. QED
    BY <2>5, <2>6 DEF PoolInv
<1>5. ASSUME CloseRows(r) PROVE PoolInv'
  <2>1. /\ At(r, "close") /\ Advance(r) /\ UNCHANGED <<conns, writer, committing, times>>
        /\ reading' = reading \ {r}
    BY <1>5 DEF CloseRows
  <2>2. Held(r) = {<<r, 1>>} /\ writer # r
    BY <1>1, <2>1 DEF Holds, AtOneOf, At
  <2>3. \A q \in Requests : Held(q)' = Held(q)
    BY <2>1 DEF Held
  <2>4. rest'[r] # <<>> /\ Head(rest'[r]) = "release"
    BY <2>1, Advanced DEF Follows
  <2>5. \A q \in Requests : Holds(q)'
    BY <2>1, <2>2, <2>3, <2>4, StatementStep DEF AtOneOf, Connected
  <2>6. PoolTypes'
    BY <1>1, <2>1, Advanced DEF PoolTypes, times
  <2>7. QED
    BY <2>5, <2>6 DEF PoolInv
<1>6. ASSUME ReserveLock(r) PROVE PoolInv'
  <2>1. /\ At(r, "reserve") /\ Advance(r) /\ UNCHANGED <<conns, reading, committing, times>>
        /\ writer = Nobody /\ writer' = r
    BY <1>6 DEF ReserveLock
  <2>2. Held(r) = {<<r, 1>>} /\ r \notin reading
    BY <1>1, <2>1 DEF Holds, AtOneOf, At
  <2>3. \A q \in Requests : Held(q)' = Held(q) /\ q # Nobody
    BY <2>1, DatabasePoolAssumption DEF Held
  <2>4. rest'[r] # <<>> /\ Head(rest'[r]) = "pend"
    BY <2>1, Advanced DEF Follows
  <2>5. \A q \in Requests : Holds(q)'
    BY <2>1, <2>2, <2>3, <2>4, StatementStep DEF AtOneOf, Connected
  <2>6. PoolTypes'
    BY <1>1, <2>1, Advanced DEF PoolTypes, times
  <2>7. QED
    BY <2>5, <2>6 DEF PoolInv
<1>7. ASSUME Pend(r) PROVE PoolInv'
  <2>1. /\ At(r, "pend") /\ Advance(r) /\ UNCHANGED <<conns, reading, writer, times>>
        /\ committing' = TRUE
    BY <1>7 DEF Pend
  <2>2. Held(r) = {<<r, 1>>} /\ r \notin reading /\ writer = r
    BY <1>1, <2>1 DEF Holds, AtOneOf, At
  <2>3. \A q \in Requests : Held(q)' = Held(q)
    BY <2>1 DEF Held
  <2>4. rest'[r] # <<>> /\ Head(rest'[r]) = "commit"
    BY <2>1, Advanced DEF Follows
  <2>5. \A q \in Requests : Holds(q)'
    BY <2>1, <2>2, <2>3, <2>4, StatementStep DEF AtOneOf, Connected
  <2>6. PoolTypes'
    BY <1>1, <2>1, <2>2, Advanced DEF PoolTypes, times
  <2>7. QED
    BY <2>5, <2>6 DEF PoolInv
<1>8. ASSUME Commit(r) PROVE PoolInv'
  <2>1. /\ At(r, "commit") /\ Advance(r) /\ UNCHANGED <<conns, reading, times>>
        /\ writer' = Nobody /\ committing' = FALSE
    BY <1>8 DEF Commit
  <2>2. Held(r) = {<<r, 1>>} /\ r \notin reading /\ writer = r
    BY <1>1, <2>1 DEF Holds, AtOneOf, At
  <2>3. \A q \in Requests : Held(q)' = Held(q) /\ q # Nobody
    BY <2>1, DatabasePoolAssumption DEF Held
  <2>4. rest'[r] # <<>> /\ Head(rest'[r]) = "release"
    BY <2>1, Advanced DEF Follows
  <2>5. \A q \in Requests : Holds(q)'
    BY <1>1, <2>1, <2>2, <2>3, <2>4, StatementStep DEF AtOneOf, Connected
  <2>6. PoolTypes'
    BY <1>1, <2>1, Advanced DEF PoolTypes, times
  <2>7. QED
    BY <2>5, <2>6 DEF PoolInv
<1>9. QED
  BY <1>2, <1>3, <1>4, <1>5, <1>6, <1>7, <1>8

\* cleanupAttempts holds the mutex from its look at the clock to the end.
LEMMA MutexSteps ==
    ASSUME PoolInv, NEW r \in Requests
    PROVE  /\ Lock(r) => PoolInv'
           /\ Note(r) => PoolInv'
           /\ Unlock(r) => PoolInv'
<1>1. PoolTypes /\ Holds(r) /\ r # Nobody /\ WellFormed(rest[r])
      /\ \A q \in Requests : Held(q)' = IF conns' = conns THEN Held(q) ELSE Held(q)'
  BY DatabasePoolAssumption DEF PoolInv, PoolTypes, Held
<1>2. ASSUME Lock(r) PROVE PoolInv'
  <2>1. /\ At(r, "lock") /\ mutex = Nobody /\ mutex' = r /\ looked' = hour
        /\ UNCHANGED <<locks, hour, lastAttemptCleanup, cleanups>>
        /\ rest[r] # <<>> /\ Head(rest[r]) = "lock"
    BY <1>2 DEF Lock, LookAtClock, At
  <2>2. /\ DOMAIN rest' = Requests /\ \A q \in Requests \ {r} : rest'[q] = rest[q]
        /\ rest'[r] = IF lastAttemptCleanup < hour
                      THEN (Immediate \o <<"note">>) \o Tail(rest[r]) ELSE <<>> \o Tail(rest[r])
    BY <1>1, <1>2 DEF Lock, LookAtClock, PoolTypes
  <2>3. <<>> \o Tail(rest[r]) = Tail(rest[r])
    BY <1>1, <2>1 DEF WellFormed
  <2>4. /\ WellFormed(rest'[r]) /\ rest'[r] # <<>> /\ Head(rest'[r]) \in {"acquire", "unlock"}
        /\ Has(rest'[r], "unlock") /\ (Has(rest'[r], "note") => lastAttemptCleanup < hour)
    BY <1>1, <2>1, <2>2, <2>3, CleaningDue
  <2>5. Held(r) = {} /\ r \notin reading /\ writer # r
    BY <1>1, <2>1 DEF Holds, AtOneOf
  <2>6. Holds(r)'
    BY <1>1, <2>1, <2>4, <2>5 DEF Holds, AtOneOf, locks
  <2>7. ASSUME NEW q \in Requests, q # r PROVE Holds(q)'
    BY <1>1, <2>1, <2>2, <2>7, OthersHold, DatabasePoolAssumption DEF locks
  <2>8. PoolTypes'
    <3>1. DOMAIN rest' = Requests /\ \A q \in Requests : WellFormed(rest'[q])
      BY <1>1, <2>2, <2>4 DEF PoolTypes
    <3>2. UNCHANGED <<conns, reading, writer, committing, hour, lastAttemptCleanup, cleanups>>
      BY <2>1 DEF locks
    <3>3. looked' \in 0 .. hour /\ lastAttemptCleanup \in 0 .. hour
      BY <1>1, <2>1 DEF PoolTypes
    <3>4. QED
      BY <1>1, <2>1, <3>1, <3>2, <3>3 DEF PoolTypes
  <2>9. QED
    BY <2>6, <2>7, <2>8 DEF PoolInv
<1>3. ASSUME Note(r) PROVE PoolInv'
  <2>1. /\ At(r, "note") /\ Advance(r) /\ lastAttemptCleanup' = looked /\ cleanups' = cleanups + 1
        /\ UNCHANGED <<locks, mutex, hour, looked>> /\ rest[r] # <<>> /\ Head(rest[r]) = "note"
    BY <1>3 DEF Note, At
  <2>2. Has(rest[r], "note") /\ Has(rest[r], "unlock")
    BY <1>1, <2>1, HeadIsIn, TailWellFormed
  <2>3. /\ Held(r) = {} /\ r \notin reading /\ writer # r /\ mutex = r
        /\ lastAttemptCleanup < looked
    BY <1>1, <2>1, <2>2 DEF Holds, AtOneOf
  <2>4. /\ rest'[r] # <<>> /\ Head(rest'[r]) = "unlock" /\ Has(rest'[r], "unlock")
        /\ ~Has(rest'[r], "note")
    BY <2>1, <2>2, Advanced DEF Follows
  <2>5. Holds(r)'
    BY <1>1, <2>1, <2>3, <2>4 DEF Holds, AtOneOf, locks
  <2>6. ASSUME NEW q \in Requests, q # r PROVE Holds(q)'
    <3>1. rest'[q] = rest[q]
      BY <2>1, <2>6, Advanced
    <3>2. UNCHANGED <<conns, reading, writer, mutex>> /\ Held(q)' = Held(q) /\ mutex # q
      BY <1>1, <2>1, <2>3, <2>6 DEF locks
    <3>3. QED
      BY <3>1, <3>2, OthersHold
  <2>7. PoolTypes'
    <3>1. DOMAIN rest' = Requests /\ \A q \in Requests : WellFormed(rest'[q])
      BY <2>1, Advanced
    <3>2. UNCHANGED <<conns, reading, writer, committing, mutex, hour, looked>>
      BY <2>1 DEF locks
    <3>3. looked \in Nat /\ cleanups' \in 0 .. looked
      BY <1>1, <2>1, <2>3 DEF PoolTypes
    <3>4. QED
      BY <1>1, <2>1, <3>1, <3>2, <3>3 DEF PoolTypes
  <2>8. QED
    BY <2>5, <2>6, <2>7 DEF PoolInv
<1>4. ASSUME Unlock(r) PROVE PoolInv'
  <2>1. /\ At(r, "unlock") /\ Advance(r) /\ mutex' = Nobody
        /\ UNCHANGED <<locks, hour, lastAttemptCleanup, looked, cleanups>>
        /\ rest[r] # <<>> /\ Head(rest[r]) = "unlock"
    BY <1>4 DEF Unlock, At
  <2>2. /\ Held(r) = {} /\ r \notin reading /\ writer # r /\ mutex = r
    BY <1>1, <2>1, HeadIsIn DEF Holds, AtOneOf
  <2>3. /\ rest'[r] # <<>> /\ Head(rest'[r]) = "acquire" /\ ~Has(rest'[r], "unlock")
        /\ (Has(rest'[r], "note") => Has(rest[r], "note"))
    BY <2>1, Advanced DEF Follows
  <2>4. Holds(r)'
    BY <1>1, <2>1, <2>2, <2>3 DEF Holds, AtOneOf, locks
  <2>5. ASSUME NEW q \in Requests, q # r PROVE Holds(q)'
    BY <1>1, <2>1, <2>2, <2>5, Advanced, OthersHold, DatabasePoolAssumption DEF locks
  <2>6. PoolTypes'
    BY <1>1, <2>1, Advanced DEF PoolTypes, locks
  <2>7. QED
    BY <2>4, <2>5, <2>6 DEF PoolInv
<1>5. QED
  BY <1>2, <1>3, <1>4

\* A request that ends with an error gives back what it held.
LEMMA FailStatementStep ==
    ASSUME PoolInv, NEW r \in Requests, FailStatement(r)
    PROVE  PoolInv'
<1>1. /\ PoolTypes /\ Holds(r) /\ r # Nobody
      /\ rest[r] # <<>>
      /\ rest' = [rest EXCEPT ![r] = <<>>] /\ conns' = conns \ Held(r) /\ reading' = reading \ {r}
      /\ UNCHANGED <<hour, lastAttemptCleanup, looked, cleanups>>
      /\ writer' = (IF writer = r THEN Nobody ELSE writer)
      /\ committing' = (committing /\ writer # r)
      /\ mutex' = (IF mutex = r THEN Nobody ELSE mutex)
  BY DatabasePoolAssumption
  DEF PoolInv, FailStatement, Abandon, RollBack, UnlockMutex, At
<1>2. /\ DOMAIN rest' = Requests /\ rest'[r] = <<>> /\ \A q \in Requests \ {r} : rest'[q] = rest[q]
  BY <1>1 DEF PoolTypes
<1>3. /\ Held(r)' = {} /\ \A q \in Requests \ {r} : Held(q)' = Held(q)
  BY <1>1 DEF Held
<1>4. WellFormed(<<>>) /\ \A x : ~Has(<<>>, x)
  BY DEF WellFormed, Has, Chain
<1>5. Holds(r)'
  BY <1>1, <1>2, <1>3, <1>4 DEF Holds, AtOneOf
<1>6. ASSUME NEW q \in Requests, q # r PROVE Holds(q)'
  <2>1. /\ q \in reading' <=> q \in reading
        /\ writer' = q <=> writer = q
        /\ mutex' = q <=> mutex = q
    BY <1>1, <1>6, DatabasePoolAssumption
  <2>2. QED
    BY <1>1, <1>2, <1>3, <1>6, <2>1, OthersHold
<1>7. IsFiniteSet(conns') /\ Cardinality(conns') <= Connections
  <2>1. conns' \subseteq conns /\ IsFiniteSet(conns)
    BY <1>1 DEF PoolTypes
  <2>2. IsFiniteSet(conns') /\ Cardinality(conns') <= Cardinality(conns)
        /\ Cardinality(conns) \in Nat /\ Cardinality(conns') \in Nat
    BY <2>1, FS_Subset, FS_CardinalityType
  <2>3. QED
    BY <1>1, <2>2, DatabasePoolAssumption DEF PoolTypes
<1>8. \A q \in Requests : WellFormed(rest'[q])
  BY <1>1, <1>2, <1>4 DEF PoolTypes
<1>9. committing' \in BOOLEAN /\ (committing' => writer' # Nobody)
  BY <1>1 DEF PoolTypes
<1>10. PoolTypes'
  <2>1. conns' \subseteq Requests \X Nat /\ reading' \subseteq Requests
        /\ writer' \in Requests \cup {Nobody} /\ mutex' \in Requests \cup {Nobody}
    BY <1>1 DEF PoolTypes
  <2>2. /\ hour' \in Nat /\ looked' \in 0 .. hour' /\ lastAttemptCleanup' \in 0 .. looked'
        /\ cleanups' \in 0 .. lastAttemptCleanup'
    BY <1>1 DEF PoolTypes
  <2>3. QED
    BY <1>2, <1>7, <1>8, <1>9, <2>1, <2>2 DEF PoolTypes
<1>11. QED
  BY <1>5, <1>6, <1>10 DEF PoolInv

LEMMA InitPool == PoolInit => PoolInv
<1> SUFFICES ASSUME PoolInit PROVE PoolInv
  OBVIOUS
<1>1. PICK asked \in [Requests -> Kinds] : rest = [r \in Requests |-> Program(asked[r])]
  BY DEF PoolInit
<1>2. /\ DOMAIN rest = Requests
      /\ \A r \in Requests : Begins(rest[r])
  BY <1>1, ProgramsWellFormed
<1>3. /\ conns = {} /\ reading = {} /\ writer = Nobody /\ committing = FALSE /\ mutex = Nobody
      /\ hour = 1 /\ lastAttemptCleanup = 0 /\ looked = 0 /\ cleanups = 0
  BY DEF PoolInit
<1>4. PoolTypes
  <2>1. IsFiniteSet(conns) /\ Cardinality(conns) = 0 /\ Connections \in Nat
    BY <1>3, FS_EmptySet, DatabasePoolAssumption
  <2>2. DOMAIN rest = Requests /\ \A r \in Requests : WellFormed(rest[r])
    BY <1>2 DEF Begins
  <2>3. conns \subseteq Requests \X Nat /\ reading \subseteq Requests
    BY <1>3
  <2>4. committing \in BOOLEAN /\ (committing => writer # Nobody)
    BY <1>3
  <2>5. /\ hour \in Nat /\ looked \in 0 .. hour /\ lastAttemptCleanup \in 0 .. looked
        /\ cleanups \in 0 .. lastAttemptCleanup
    BY <1>3
  <2>6. writer \in Requests \cup {Nobody} /\ mutex \in Requests \cup {Nobody}
    BY <1>3
  <2>7. Cardinality(conns) <= Connections
    BY <2>1
  <2>8. QED
    BY <2>1, <2>2, <2>3, <2>4, <2>5, <2>6, <2>7 DEF PoolTypes
<1>5. ASSUME NEW r \in Requests PROVE Holds(r)
  <2>1. /\ Held(r) = {} /\ r \notin reading /\ writer # r /\ mutex # r
        /\ Begins(rest[r])
    BY <1>2, <1>3, DatabasePoolAssumption DEF Held
  <2>2. QED
    BY <2>1 DEF Begins, Holds, AtOneOf
<1>6. QED
  BY <1>4, <1>5 DEF PoolInv

LEMMA NextPool == PoolInv /\ [PoolNext]_poolVars => PoolInv'
<1> SUFFICES ASSUME PoolInv, [PoolNext]_poolVars PROVE PoolInv'
  OBVIOUS
<1>1. ASSUME Hour PROVE PoolInv'
  BY <1>1 DEF PoolInv, PoolTypes, Holds, Held, AtOneOf, Hour, locks
<1>2. ASSUME NEW r \in Requests, Statements(r) \/ FailStatement(r) PROVE PoolInv'
  BY <1>2, PoolSteps, MutexSteps, FailStatementStep DEF Statements
<1>3. CASE UNCHANGED poolVars
  BY <1>3 DEF PoolInv, PoolTypes, Holds, Held, AtOneOf, poolVars, locks, times
<1>4. QED
  BY <1>1, <1>2, <1>3 DEF PoolNext

LEMMA PoolInvariant == PoolSpec => []PoolInv
BY InitPool, NextPool, PTL DEF PoolSpec

(***************************************************************************)
(* Whatever requests are served at the same time, by however many          *)
(* connections and in whatever order their statements run and fail: no     *)
(* request waits for a connection, a lock or the mutex with one in its     *)
(* hands that comes later in the order, each leaves nothing behind, and    *)
(* the clean-up that cleanupAttempts guards runs once in an hour at most.  *)
(***************************************************************************)
THEOREM LocksAreKept == PoolSpec => []LocksKept
<1>1. PoolInv => LocksKept
  <2> SUFFICES ASSUME PoolInv PROVE LocksKept
    OBVIOUS
  <2>1. PoolTypes /\ \A r \in Requests : Holds(r) /\ WellFormed(rest[r])
    BY DEF PoolInv, PoolTypes
  <2>2. PoolTypeOK
    <3>1. conns \subseteq Requests \X (1 .. Connections)
      <4> SUFFICES ASSUME NEW c \in conns PROVE c \in Requests \X (1 .. Connections)
        OBVIOUS
      <4>1. c \in Requests \X Nat /\ c[1] \in Requests /\ c \in Held(c[1])
        BY <2>1 DEF PoolTypes, Held
      <4>2. c = <<c[1], 1>>
        BY <2>1, <4>1 DEF Holds
      <4>3. QED
        BY <4>1, <4>2, DatabasePoolAssumption
    <3>2. \A r \in Requests : (r \in reading \/ writer = r) => Held(r) # {}
      BY <2>1 DEF Holds, AtOneOf
    <3>3. QED
      BY <2>1, <3>1, <3>2 DEF PoolTypeOK, PoolTypes
  <2>3. WaitsInOrder
    BY <2>1 DEF WaitsInOrder, Holds, AtOneOf, At
  <2>4. NothingHeldAfterwards
    BY <2>1 DEF NothingHeldAfterwards, Holds, AtOneOf, Has
  <2>5. OnceAnHour
    BY <2>1 DEF OnceAnHour, PoolTypes
  <2>6. QED
    BY <2>2, <2>3, <2>4, <2>5 DEF LocksKept
<1>2. QED
  BY <1>1, PoolInvariant, PTL
=============================================================================
