\* Two keys and two windows of three seconds; or three requests of any kind,
\* two connections, an hour that passes.
SPECIFICATION RequestsSpec
CONSTANTS
    Keys = {a, b}
    Window = 3
    Limits = {0, 1, 2}
    ClockLimit = 6
    Requests = {r1, r2, r3}
    Kinds = {"snapshot", "feed", "overview", "like", "attempt", "penalty"}
    Connections = 2
    MaxHours = 2
INVARIANTS
    AtMostTwiceTheLimit
    RetryAfterIsExact
    SweepForgetsIdleKeys
    LocksKept
PROPERTIES
    ImplementsQuota
    EveryRequestEnds
\* The clock's limit and the end of the last request end a behaviour.
CHECK_DEADLOCK FALSE
