CONSTANTS
  post = post
  comment = comment
  None = None
  Second = 2
  Requests = {r1, r2, r3}
  Clients = {a, b}
  Posts = {post}
  Comments = {comment}
  Below <- OneThread
  Cooldown = 2
  LikeEventRetention = 3
  LockWait = 1
  ClockLimit = 7
SPECIFICATION Spec
SYMMETRY Interchangeable
INVARIANTS
  LikesApart
  LikesAreCounted
  RetryAfterSuffices
