CONSTANTS
  r1 = r1
  r2 = r2
  r3 = r3
  old = old
  reply = reply
  p1 = p1
  p2 = p2
  t1 = t1
  t2 = t2
  t3 = t3
  a = a
  b = b
  x = x
  y = y
  None = None
  Second = 1
  Comments <- RatePolicy
  Fingerprint <- Alike
  Requests = {r1, r2}
  OldComments = {}
  Posts = {p1, p2}
  Tokens = {t1, t2}
  Submissions <- RateSubmissions
  Boards <- EmptyBoard
  Admin = {}
  ParentKeys = {TRUE}
  HandlingLimit = 5
  ClockLimit = 4
SPECIFICATION Spec
SYMMETRY Interchangeable
INVARIANTS
  CooldownKept
  NoRepeatedText
  SimilarTextsWait
