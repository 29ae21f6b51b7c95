CONSTANTS
  None = None
  Second = 2
  Requests = {r1, r2, r3}
  SessionTTL = 3
  SessionClockSkew = 1
  ClockLimit = 5
  MaxSetbacks = 1
SPECIFICATION Spec
SYMMETRY Interchangeable
INVARIANTS
  EndedForGood
  WithinLifetime
