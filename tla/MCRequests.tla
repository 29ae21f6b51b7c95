----------------------------- MODULE MCRequests -----------------------------
(***************************************************************************)
(* What stands in the way of a request, for TLC: the limiter that counts   *)
(* it, or the connections and locks that its statements wait for.  These   *)
(* share no state that a property is about, so that a behaviour is one of  *)
(* the two, and the other rests where a behaviour of it may end.           *)
(***************************************************************************)
EXTENDS FixedWindowLimiter, DatabasePool

VARIABLE part

\* Every request has ended.
PoolAtRest ==
    /\ rest = [r \in Requests |-> <<>>] /\ conns = {}
    /\ reading = {} /\ writer = Nobody /\ committing = FALSE /\ mutex = Nobody
    /\ hour = 1 /\ lastAttemptCleanup = 0 /\ looked = 0 /\ cleanups = 0

RequestsInit ==
    /\ part \in {"limiter", "pool"}
    /\ Init
    /\ IF part = "pool" THEN PoolInit ELSE PoolAtRest

RequestsNext ==
    /\ UNCHANGED part
    /\ \/ part = "limiter" /\ Next /\ UNCHANGED poolVars
       \/ part = "pool" /\ PoolNext /\ UNCHANGED vars

RequestsSpec == RequestsInit /\ [][RequestsNext]_<<part, vars, poolVars>> /\ PoolFairness
=============================================================================
