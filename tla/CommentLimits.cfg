CONSTANTS
  r1 = r1
  r2 = r2
  r3 = r3
  old = old
  reply = reply
  p1 = p1
  p2 = p2
  t1 = t1
  t2 = t2
  t3 = t3
  a = a
  b = b
  x = x
  y = y
  None = None
  Second = 1
  Comments <- LimitPolicy
  Fingerprint <- Distinct
  Requests = {r1, r2, r3}
  OldComments = {}
  Posts = {p1}
  Tokens = {t1, t2, t3}
  Submissions <- LimitSubmissions
  Boards <- EmptyBoard
  Admin = {"unmute"}
  ParentKeys = {TRUE}
  HandlingLimit = 5
  ClockLimit = 3
SPECIFICATION Spec
SYMMETRY Interchangeable
INVARIANTS
  QuotasKept
  
CONSTRAINT
  LimitScenes
