---------------------------- MODULE WindowQuota ----------------------------
(***************************************************************************)
(* What a fixed-window limiter promises each client key: a window opens    *)
(* with the first request, admits `limit' requests and closes by itself    *)
(* when the clock reaches its end.  There is no map, no sweep and nothing  *)
(* shared between the keys.  FixedWindowLimiter implements it.             *)
(***************************************************************************)
EXTENDS Integers

CONSTANTS Keys, Window, Limits, ClockLimit

VARIABLES limit, clock, quota, grants, refusals

vars == <<limit, clock, quota, grants, refusals>>

Closed == [count |-> 0, reset |-> 0]

Init ==
    /\ limit \in Limits
    /\ clock = 0
    /\ quota = [k \in Keys |-> Closed]
    /\ grants = {}
    /\ refusals = [k \in Keys |-> {}]

\* Time passes; the windows that end now close.
Tick ==
    /\ clock' = clock + 1
    /\ quota' = [k \in Keys |-> IF quota[k].reset <= clock' THEN Closed ELSE quota[k]]
    /\ UNCHANGED <<limit, grants, refusals>>

Admit(k) ==
    LET window == IF quota[k] = Closed
                  THEN [count |-> 1, reset |-> clock + Window]
                  ELSE [quota[k] EXCEPT !.count = @ + 1]
    IN  /\ window.count <= limit
        /\ quota' = [quota EXCEPT ![k] = window]
        /\ grants' = grants \cup {[key |-> k, opened |-> window.reset - Window,
                                   nth |-> window.count, at |-> clock]}
        /\ UNCHANGED <<limit, clock, refusals>>

Refuse(k) ==
    /\ quota[k] # Closed
    /\ quota[k].count = limit
    /\ refusals' = [refusals EXCEPT ![k] =
                       {[at |-> clock, retryAfter |-> quota[k].reset - clock]}]
    /\ UNCHANGED <<limit, clock, quota, grants>>

Next == Tick \/ \E k \in Keys : Admit(k) \/ Refuse(k)

Spec == Init /\ [][Next]_vars
=============================================================================
