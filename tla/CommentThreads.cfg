CONSTANTS
  r1 = r1
  r2 = r2
  r3 = r3
  old = old
  reply = reply
  p1 = p1
  p2 = p2
  t1 = t1
  t2 = t2
  t3 = t3
  a = a
  b = b
  x = x
  y = y
  None = None
  Second = 1
  Comments <- Lenient
  Fingerprint <- Distinct
  Requests = {r1, r2}
  OldComments = {old, reply}
  Posts = {p1, p2}
  Tokens = {t1, t2}
  Submissions <- ThreadSubmissions
  Boards <- ThreadBoards
  Admin = {"set_status", "delete_comment", "delete_post"}
  ParentKeys = {TRUE, FALSE}
  HandlingLimit = 1
  ClockLimit = 1
SPECIFICATION Spec
SYMMETRY OnlyRequests
INVARIANTS
  RepliesStayOnTheirPost
  NoOrphans
PROPERTIES
  ThreadsGoWhole
