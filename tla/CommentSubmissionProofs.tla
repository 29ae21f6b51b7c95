---------------------- MODULE CommentSubmissionProofs ----------------------
(***************************************************************************)
(* What holds of comment submission for every set of requests, every       *)
(* policy and every length of the second.                                  *)
(***************************************************************************)
EXTENDS CommentSubmission, FiniteSetTheorems, WellFoundedInduction, TLAPS

\* A stored time is the last whole second of the time it was made from.
LEMMA FormatTimeBelow ==
    ASSUME NEW t \in Int
    PROVE  FormatTime(t) \in Int /\ FormatTime(t) <= t
BY SecondAssumption DEF FormatTime

\* Storing times keeps their order.
LEMMA FormatTimeMonotone ==
    ASSUME NEW s \in Int, NEW t \in Int, s <= t
    PROVE  FormatTime(s) <= FormatTime(t)
BY SecondAssumption DEF FormatTime

\* A clock reading is stored as a natural number.
LEMMA FormatTimeNat == ASSUME NEW t \in Nat PROVE FormatTime(t) \in Nat
BY SecondAssumption DEF FormatTime

\* The durations of the policy are natural numbers.
LEMMA DurationsNat ==
    /\ Comments.ChallengeTTL \in Nat
    /\ Comments.ChallengeClockSkew \in Nat
    /\ Comments.MuteDuration \in Nat
    /\ Comments.CleanupInterval \in Nat
BY PolicyAssumption DEF Durations, Thresholds

-----------------------------------------------------------------------------
\* The fields of what a request carries have their types.
LEMMA SubmissionFields ==
    ASSUME NEW s \in Submissions
    PROVE  /\ s.ip \in IPs /\ s.post \in Posts /\ s.token \in Tokens
           /\ s.text \in DOMAIN Fingerprint
           /\ s.parent \in CommentIds \cup {None}
BY SubmissionAssumption DEF SubmissionType

\* Inserting an attempt keeps the types of the attempts and the log.
LEMMA InsertTypes ==
    ASSUME TypeOK, NEW r \in Requests, pc[r] # "idle",
           NEW st \in Accepted \cup Refused, Insert(r, st)
    PROVE  /\ attempts' \subseteq log' /\ log' \subseteq RowType /\ log \subseteq log'
           /\ lastCleanup' \in Nat \cup {Never}
<1>1. Row(r, st) \in RowType
  BY SubmissionFields, FormatTimeNat DEF TypeOK, Row, RowType
<1>2. QED
  BY <1>1 DEF TypeOK, Insert, CleanAttempts

\* Muting an ip keeps the type of the mutes.
LEMMA UpsertTypes ==
    ASSUME TypeOK, NEW ip \in IPs
    PROVE  UpsertMute(mutes, ip, clock) \subseteq [ip : IPs, until : Nat]
<1>1. MutedUntil(clock) \in Nat
  BY FormatTimeNat, DurationsNat DEF TypeOK, MutedUntil
<1>2. QED
  BY <1>1 DEF TypeOK, UpsertMute

\* A step that writes an attempt and perhaps a mute.
LEMMA PenaliseTypes ==
    ASSUME TypeOK, UNCHANGED parentForeignKey, NEW r \in Requests, pc[r] # "idle",
           NEW st \in {"honeypot", "limited"}, NEW muting, Penalise(r, st, muting)
    PROVE  TypeOK'
<1>1. Insert(r, st) /\ st \in Accepted \cup Refused
  BY DEF Penalise, Refused
<1>2. /\ attempts' \subseteq log' /\ log' \subseteq RowType /\ log \subseteq log'
      /\ lastCleanup' \in Nat \cup {Never}
  BY <1>1, InsertTypes
<1>3. mutes' \subseteq [ip : IPs, until : Nat]
  BY UpsertTypes, SubmissionFields DEF Penalise, TypeOK
<1>4. /\ pc' \in [Requests -> Stages]
      /\ pc' = [pc EXCEPT ![r] = pc'[r]] /\ pc'[r] \in {"retry_after", "done"}
  BY DEF Penalise, Goto, TypeOK, Stages
<1>5. UNCHANGED <<clock, posts, comments, uses, challenge, submission, status, deadline,
                  createdAt, earlier, pardoned>>
  BY DEF Penalise, request
<1>6. QED
  BY <1>2, <1>3, <1>4, <1>5 DEF TypeOK

\* The types survive every step of the handler.
LEMMA HandlerTypes ==
    ASSUME TypeOK, UNCHANGED parentForeignKey, NEW r \in Requests, Arrive(r) \/ Handle(r) \/ Fail(r)
    PROVE  TypeOK'
<1> USE DEF Goto, Stages, database, request
<1>1. CASE Arrive(r)
  BY <1>1 DEF TypeOK, Arrive
<1>2. CASE CheckMute(r)
  BY <1>2 DEF TypeOK, CheckMute, LiveMutes, Conclude, Refused
<1>3. CASE Screen(r)
  BY <1>3, SubmissionAssumption DEF TypeOK, Screen, Conclude, Refused
<1>4. CASE FindPost(r)
  BY <1>4 DEF TypeOK, FindPost, Conclude, Refused
<1>5. CASE FindParent(r)
  BY <1>5 DEF TypeOK, FindParent, Conclude, Refused
<1>6. CASE Consume(r)
  <2>1. uses' \subseteq [token : Tokens, post : Posts, at : Nat]
    BY <1>6, SubmissionFields, FormatTimeNat DEF TypeOK, Consume, ConsumeChallenge, PurgeUses
  <2>2. QED
    BY <1>6, <2>1 DEF TypeOK, Consume, Conclude, Refused
<1>7. CASE Assess(r)
  <2>1. \A n, stats : Moderate(n, stats) \in Accepted
    BY DEF Moderate, Accepted
  <2>2. Accepted \subseteq {"visible", "pending", "rejected", "muted", None}
    BY DEF Accepted
  <2>3. attempts' \subseteq attempts
    BY <1>7 DEF Assess, CleanAttempts
  <2>4. \/ pc' = [pc EXCEPT ![r] = "limited"] /\ status' = status
        \/ /\ pc' = [pc EXCEPT ![r] = "create"]
           /\ \E st \in Accepted : status' = [status EXCEPT ![r] = st]
    BY <1>7, <2>1 DEF Assess
  <2>5. /\ lastCleanup' \in {clock, lastCleanup}
        /\ UNCHANGED <<clock, posts, comments, uses, mutes, challenge, submission, deadline,
                       createdAt, log, earlier, pardoned>>
    BY <1>7 DEF Assess
  <2>6. pc' \in [Requests -> Stages]
    BY <2>4 DEF TypeOK
  <2>7. status' \in [Requests -> {"visible", "pending", "rejected", "muted", None}]
    BY <2>2, <2>4 DEF TypeOK
  <2>8. pc[r] = "assess" /\ \A q \in Requests : q # r => pc'[q] = pc[q] /\ status'[q] = status[q]
    BY <1>7, <2>4 DEF TypeOK, Assess
  <2>9. pc'[r] = "limited" \/ (pc'[r] = "create" /\ status'[r] \in Accepted)
    BY <2>4 DEF TypeOK
  <2>10. QED
    BY <2>3, <2>5, <2>6, <2>7, <2>8, <2>9 DEF TypeOK
<1>8. CASE Honeypot(r)
  BY <1>8, PenaliseTypes DEF Honeypot
<1>9. CASE Limited(r)
  BY <1>9, PenaliseTypes DEF Limited
<1>10. CASE RetryAfter(r)
  BY <1>10 DEF TypeOK, RetryAfter, LiveMutes
<1>11. CASE Create(r)
  <2>1. NewComment(r) \in CommentType
    BY <1>11, SubmissionFields DEF TypeOK, Create, NewComment, CommentType, CommentIds, Accepted
  <2>2. QED
    BY <1>11, <2>1 DEF TypeOK, Create
<1>12. CASE RecordAttempt(r)
  <2>1. /\ attempts' \subseteq log' /\ log' \subseteq RowType /\ log \subseteq log'
        /\ lastCleanup' \in Nat \cup {Never}
    BY <1>12, InsertTypes DEF TypeOK, RecordAttempt, Refused
  <2>2. QED
    BY <1>12, <2>1 DEF TypeOK, RecordAttempt
<1>13. CASE Fail(r)
  BY <1>13 DEF TypeOK, Fail, CleanAttempts
<1>14. QED
  BY <1>1, <1>2, <1>3, <1>4, <1>5, <1>6, <1>7, <1>8, <1>9, <1>10, <1>11, <1>12, <1>13 DEF Handle

\* The types hold at first, ...
LEMMA InitTypes == Init => TypeOK
BY SubmissionAssumption, FormatTimeNat DEF Init, TypeOK, IssueChallenge, Stages

\* ... and survive everything else that moves.
LEMMA OtherTypes ==
    ASSUME TypeOK, UNCHANGED parentForeignKey,
           (\E t \in Tokens : Issue(t)) \/ Administer \/ Tick \/ Restart
    PROVE  TypeOK'
<1> USE DEF database, request
<1>1. CASE \E t \in Tokens : Issue(t)
  BY <1>1, FormatTimeNat DEF TypeOK, Issue, IssueChallenge
<1>2. CASE \E c \in comments, st \in {"visible", "rejected"} : SetStatus(c, st)
  BY <1>2 DEF TypeOK, SetStatus, CommentType
<1>3. CASE \E c \in comments : DeleteComment(c)
  BY <1>3 DEF TypeOK, DeleteComment
<1>4. CASE \E p \in posts : DeletePost(p)
  BY <1>4 DEF TypeOK, DeletePost
<1>5. CASE \E ip \in IPs : Unmute(ip)
  BY <1>5 DEF TypeOK, Unmute
<1>6. CASE Tick
  BY <1>6 DEF TypeOK, Tick
<1>7. CASE Restart
  BY <1>7 DEF TypeOK, Restart, Stages
<1>8. QED
  BY <1>1, <1>2, <1>3, <1>4, <1>5, <1>6, <1>7 DEF Administer

\* Every variable keeps its type.
THEOREM TypeCorrect == Spec => []TypeOK
<1>1. TypeOK /\ [Next]_vars => TypeOK'
  <2>1. TypeOK /\ Next => TypeOK'
    BY HandlerTypes, OtherTypes DEF Next, Step
  <2>2. TypeOK /\ UNCHANGED vars => TypeOK'
    BY DEF TypeOK, vars, database, request
  <2>3. QED
    BY <2>1, <2>2
<1>2. QED
  BY InitTypes, <1>1, PTL DEF Spec

-----------------------------------------------------------------------------
(***************************************************************************)
(* One comment for a token.  A request has spent its token from the moment *)
(* it consumed it; then the use is on record, or so much time has passed   *)
(* that nobody can come to consume the token again.  The deadline of a     *)
(* request on its way to consume is that time.                             *)
(***************************************************************************)
Token(r) == submission[r].token

Spent(r) == createdAt[r] # None \/ pc[r] \in {"assess", "create"}

UsedUp(t) ==
    /\ challenge[t] # None
    /\ \/ \E u \in uses : /\ u.token = t /\ u.post = challenge[t].post
                          /\ challenge[t].issuedAt <= u.at
       \/ challenge[t].issuedAt < clock - 2 * Comments.ChallengeTTL

IssuedInThePast ==
    \A t \in Tokens : challenge[t] # None => challenge[t].issuedAt <= FormatTime(clock)

CreatedOnce ==
    \A r \in Requests : createdAt[r] # None => pc[r] \in {"record", "done"}

ConsumedInTime ==
    \A r \in Requests : pc[r] \in {"post", "parent", "consume"} =>
        /\ challenge[Token(r)] # None
        /\ challenge[Token(r)].post = submission[r].post
        /\ deadline[r] \in Nat
        /\ clock <= deadline[r]
        /\ deadline[r] <= challenge[Token(r)].issuedAt + 2 * Comments.ChallengeTTL

SpentOnce ==
    /\ \A r \in Requests : Spent(r) => UsedUp(Token(r))
    /\ \A q, r \in Requests : Spent(q) /\ Spent(r) /\ Token(q) = Token(r) => q = r

TokenInv == TypeOK /\ IssuedInThePast /\ CreatedOnce /\ ConsumedInTime /\ SpentOnce

Verified == {"post", "parent", "consume"}

\* Enough for a step that leaves clock, uses and challenges alone and sends
\* no request on its way to consume.
LEMMA Frame ==
    ASSUME TokenInv, TypeOK', UNCHANGED <<clock, uses, challenge>>,
           \A r \in Requests :
              /\ Spent(r)' => Spent(r) /\ submission'[r] = submission[r]
              /\ createdAt'[r] # None => pc'[r] \in {"record", "done"}
              /\ pc'[r] \in Verified =>
                    pc[r] \in Verified /\ UNCHANGED <<submission[r], deadline[r]>>
    PROVE  TokenInv'
<1>1. IssuedInThePast'
  BY DEF TokenInv, IssuedInThePast, FormatTime
<1>2. CreatedOnce'
  BY DEF CreatedOnce
<1>3. ConsumedInTime'
  BY DEF TokenInv, ConsumedInTime, Token, Verified
<1>4. SpentOnce'
  <2>1. \A t \in Tokens : UsedUp(t)' <=> UsedUp(t)
    BY DEF UsedUp
  <2>2. ASSUME NEW r \in Requests, Spent(r)'
        PROVE  Spent(r) /\ Token(r)' = Token(r) /\ UsedUp(Token(r))'
    BY <2>2 DEF TokenInv, SpentOnce, Token, UsedUp
  <2>3. QED
    BY <2>2 DEF TokenInv, SpentOnce
<1>5. QED
  BY <1>1, <1>2, <1>3, <1>4 DEF TokenInv

\* A request that passes the checks has its deadline within two TTL of the
\* issue, since handling takes one TTL at most.
LEMMA ScreenInv == ASSUME TokenInv, UNCHANGED parentForeignKey, TypeOK', NEW r \in Requests, Screen(r) PROVE TokenInv'
<1> DEFINE c == challenge[Token(r)]
<1>1. CASE pc'[r] \notin Verified
  BY <1>1, Frame DEF TokenInv, TypeOK, Screen, Conclude, Goto, Spent, Verified, CreatedOnce, database
<1>2. CASE pc'[r] \in Verified
  <2>1. /\ c # None /\ VerifyChallenge(c, submission[r].post, clock)
        /\ deadline' = [deadline EXCEPT ![r] = clock + HandlingLimit]
        /\ pc[r] = "screen" /\ pc' = [pc EXCEPT ![r] = "post"]
        /\ UNCHANGED <<clock, uses, challenge, submission, createdAt>>
    BY <1>2 DEF TokenInv, TypeOK, Screen, Conclude, Goto, Verified, Token, database
  <2>2. Token(r) \in Tokens /\ c.issuedAt \in Nat
    BY <2>1, SubmissionFields DEF TokenInv, TypeOK, Token
  <2>3. /\ clock + HandlingLimit \in Nat /\ clock <= clock + HandlingLimit
        /\ clock + HandlingLimit <= c.issuedAt + 2 * Comments.ChallengeTTL
    BY <2>1, <2>2, SubmissionAssumption, HandlingAssumption, DurationsNat
       DEF TokenInv, TypeOK, VerifyChallenge
  <2>4. ConsumedInTime'
    BY <2>1, <2>3 DEF TokenInv, TypeOK, ConsumedInTime, Token, VerifyChallenge
  <2>5. \A q \in Requests : Spent(q)' <=> Spent(q)
    BY <2>1 DEF TokenInv, TypeOK, Spent
  <2>6. SpentOnce'
    BY <2>1, <2>5 DEF TokenInv, SpentOnce, Token, UsedUp
  <2>7. IssuedInThePast' /\ CreatedOnce'
    BY <2>1 DEF TokenInv, TypeOK, IssuedInThePast, CreatedOnce, FormatTime
  <2>8. QED
    BY <2>4, <2>6, <2>7 DEF TokenInv
<1>3. QED
  BY <1>1, <1>2

\* Whoever consumes finds the use of every request that spent the token.
LEMMA ConsumeInv == ASSUME TokenInv, UNCHANGED parentForeignKey, TypeOK', NEW r \in Requests, Consume(r) PROVE TokenInv'
<1> DEFINE s == submission[r]
           c == challenge[Token(r)]
           ttl == Comments.ChallengeTTL
<1>1. CASE Replayed(uses, s.token, s.post, clock)
  <2>1. /\ UNCHANGED <<clock, uses, challenge, submission, createdAt>>
        /\ pc[r] = "consume" /\ pc' = [pc EXCEPT ![r] = "record"]
        /\ deadline' = [deadline EXCEPT ![r] = None]
    BY <1>1 DEF Consume, Conclude, Goto
  <2>2. QED
    BY <2>1, Frame DEF TokenInv, TypeOK, Spent, Verified, CreatedOnce
<1>2. CASE ~Replayed(uses, s.token, s.post, clock)
  <2>1. /\ UNCHANGED <<clock, challenge, submission, createdAt>>
        /\ pc[r] = "consume" /\ pc' = [pc EXCEPT ![r] = "assess"]
        /\ deadline' = [deadline EXCEPT ![r] = None]
        /\ uses' = ConsumeChallenge(uses, s.token, s.post, clock)
    BY <1>2 DEF Consume, Goto
  <2>2. /\ c # None /\ c.post = s.post /\ Token(r) \in Tokens
        /\ c.issuedAt \in Nat /\ clock \in Nat
        /\ clock <= c.issuedAt + 2 * ttl
    BY <2>1, SubmissionFields, DurationsNat DEF TokenInv, TypeOK, ConsumedInTime, Token
  <2>3. FormatTime(clock - 2 * ttl) <= clock - 2 * ttl /\ FormatTime(clock - 2 * ttl) \in Int
    BY <2>2, FormatTimeBelow, DurationsNat
  <2>4. c.issuedAt <= FormatTime(clock) /\ FormatTime(clock) \in Nat
    BY <2>2, FormatTimeNat DEF TokenInv, IssuedInThePast
  <2>5. \A q \in Requests : Spent(q) => Token(q) # Token(r)
    <3> SUFFICES ASSUME NEW q \in Requests, Spent(q), Token(q) = Token(r) PROVE FALSE
      OBVIOUS
    <3>1. UsedUp(Token(r))
      BY DEF TokenInv, SpentOnce
    <3>2. PICK u \in uses : u.token = Token(r) /\ u.post = s.post /\ c.issuedAt <= u.at
      BY <3>1, <2>2, DurationsNat DEF UsedUp
    <3>3. u.at \in Nat
      BY DEF TokenInv, TypeOK
    <3>4. u \in PurgeUses(uses, clock)
      BY <3>2, <3>3, <2>2, <2>3, DurationsNat DEF PurgeUses
    <3>5. QED
      BY <3>2, <3>4, <1>2 DEF Replayed, Token
  <2>6. \A q \in Requests : Spent(q)' <=> Spent(q) \/ q = r
    BY <2>1 DEF TokenInv, TypeOK, Spent
  <2>7. UsedUp(Token(r))'
    <3> DEFINE u == [token |-> Token(r), post |-> s.post, at |-> FormatTime(clock)]
    <3>1. u \in uses' /\ u.token = Token(r) /\ u.post = c.post /\ c.issuedAt <= u.at
      BY <2>1, <2>2, <2>4 DEF ConsumeChallenge, Token
    <3>2. Token(r)' = Token(r) /\ challenge' = challenge
      BY <2>1 DEF Token
    <3> HIDE DEF u
    <3>3. QED
      BY <3>1, <3>2, <2>2 DEF UsedUp
  <2>8. ASSUME NEW t \in Tokens, UsedUp(t) PROVE UsedUp(t)'
    <3>1. CASE challenge[t].issuedAt < clock - 2 * ttl
      BY <3>1, <2>1, <2>8 DEF UsedUp
    <3>2. CASE \E u \in uses : /\ u.token = t /\ u.post = challenge[t].post
                               /\ challenge[t].issuedAt <= u.at
      <4>1. PICK u \in uses : /\ u.token = t /\ u.post = challenge[t].post
                              /\ challenge[t].issuedAt <= u.at
        BY <3>2
      <4>2. u.at \in Nat /\ challenge[t].issuedAt \in Nat
        BY <2>8 DEF TokenInv, TypeOK, UsedUp
      <4>3. CASE u.at >= FormatTime(clock - 2 * ttl)
        BY <4>1, <4>3, <2>1, <2>8 DEF UsedUp, ConsumeChallenge, PurgeUses
      <4>4. CASE u.at < FormatTime(clock - 2 * ttl)
        <5>1. challenge[t].issuedAt < clock - 2 * ttl
          BY <4>1, <4>2, <4>4, <2>2, <2>3, DurationsNat
        <5>2. QED
          BY <5>1, <2>1, <2>8 DEF UsedUp
      <4>5. QED
        BY <4>2, <4>3, <4>4, <2>3
    <3>3. QED
      BY <3>1, <3>2, <2>8 DEF UsedUp
  <2>9. SpentOnce'
    <3>1. \A q \in Requests : Token(q)' = Token(q)
      BY <2>1 DEF Token
    <3>2. \A q \in Requests : Spent(q) => Token(q) \in Tokens
      BY SubmissionFields DEF TokenInv, TypeOK, CreatedOnce, Spent, Token
    <3>3. \A q \in Requests : Spent(q)' => UsedUp(Token(q))'
      BY <2>1, <2>6, <2>7, <2>8, <3>1, <3>2 DEF TokenInv, SpentOnce, UsedUp
    <3>4. QED
      BY <2>5, <2>6, <3>1, <3>3 DEF TokenInv, SpentOnce
  <2>10. ConsumedInTime' /\ CreatedOnce' /\ IssuedInThePast'
    BY <2>1 DEF TokenInv, TypeOK, ConsumedInTime, CreatedOnce, IssuedInThePast, Token, FormatTime
  <2>11. QED
    BY <2>9, <2>10 DEF TokenInv
<1>3. QED
  BY <1>1, <1>2

\* The remaining steps of the handler fit the frame.
LEMMA HandlerInv ==
    ASSUME TokenInv, UNCHANGED parentForeignKey, NEW r \in Requests, Arrive(r) \/ Handle(r) \/ Fail(r)
    PROVE  TokenInv'
<1>1. TypeOK'
  BY HandlerTypes DEF TokenInv
<1> USE <1>1, Frame DEF TokenInv, TypeOK, Spent, Verified, CreatedOnce, Goto, database, request
<1>2. CASE Arrive(r)
  BY <1>2 DEF Arrive
<1>3. CASE CheckMute(r)
  BY <1>3 DEF CheckMute, Conclude
<1>4. CASE FindPost(r)
  BY <1>4 DEF FindPost, Conclude
<1>5. CASE FindParent(r)
  BY <1>5 DEF FindParent, Conclude
<1>6. CASE Assess(r)
  BY <1>6 DEF Assess
<1>7. CASE Honeypot(r) \/ Limited(r)
  BY <1>7 DEF Honeypot, Limited, Penalise
<1>8. CASE RetryAfter(r)
  BY <1>8 DEF RetryAfter
<1>9. CASE Create(r)
  BY <1>9 DEF Create
<1>10. CASE RecordAttempt(r)
  BY <1>10 DEF RecordAttempt
<1>11. CASE Fail(r)
  BY <1>11 DEF Fail
<1>12. QED
  BY <1>2, <1>3, <1>4, <1>5, <1>6, <1>7, <1>8, <1>9, <1>10, <1>11, ScreenInv, ConsumeInv
     DEF Handle

\* A token once issued is never issued again; no deadline is passed.
LEMMA OtherInv ==
    ASSUME TokenInv, UNCHANGED parentForeignKey,
           (\E t \in Tokens : Issue(t)) \/ Administer \/ Tick \/ Restart
    PROVE  TokenInv'
<1>1. TypeOK'
  BY OtherTypes DEF TokenInv
<1>2. CASE \E t \in Tokens : Issue(t)
  <2>1. PICK t \in Tokens : Issue(t)
    BY <1>2
  <2>2. PICK p \in posts : challenge' = [challenge EXCEPT ![t] = IssueChallenge(p, clock)]
    BY <2>1 DEF Issue
  <2>3. /\ challenge[t] = None
        /\ UNCHANGED <<clock, uses, pc, submission, createdAt, deadline>>
    BY <2>1 DEF Issue, database, request
  <2>4. \A q \in Requests :
           Spent(q) \/ pc[q] \in Verified => challenge'[Token(q)] = challenge[Token(q)]
    BY <2>2, <2>3 DEF TokenInv, TypeOK, SpentOnce, UsedUp, ConsumedInTime, Verified
  <2>5. IssuedInThePast'
    <3>1. FormatTime(clock) \in Nat
      BY FormatTimeNat DEF TokenInv, TypeOK
    <3>2. challenge'[t].issuedAt = FormatTime(clock)
      BY <2>2 DEF IssueChallenge, TokenInv, TypeOK
    <3>3. QED
      BY <2>2, <2>3, <3>1, <3>2 DEF TokenInv, TypeOK, IssuedInThePast, FormatTime
  <2>6. SpentOnce'
    BY <2>3, <2>4 DEF TokenInv, SpentOnce, Spent, Token, UsedUp
  <2>7. ConsumedInTime' /\ CreatedOnce'
    BY <2>3, <2>4 DEF TokenInv, ConsumedInTime, CreatedOnce, Token, Verified
  <2>8. QED
    BY <1>1, <2>5, <2>6, <2>7 DEF TokenInv
<1>3. CASE Administer
  BY <1>1, <1>3, Frame
     DEF Administer, SetStatus, DeleteComment, DeletePost, Unmute, TokenInv, Spent,
         Verified, CreatedOnce, request
<1>4. CASE Tick
  <2>1. /\ clock' = clock + 1 /\ clock \in Nat
        /\ \A q \in Requests : deadline[q] # None => clock < deadline[q]
        /\ UNCHANGED <<uses, challenge, pc, submission, createdAt, deadline>>
    BY <1>4 DEF Tick, database, request, TokenInv, TypeOK
  <2>2. FormatTime(clock) <= FormatTime(clock') /\ FormatTime(clock) \in Nat
        /\ FormatTime(clock') \in Nat
    BY <2>1, FormatTimeMonotone, FormatTimeNat
  <2>3. ASSUME NEW t \in Tokens, challenge[t] # None
        PROVE  challenge[t].issuedAt \in Nat
    BY <2>3 DEF TokenInv, TypeOK
  <2>4. IssuedInThePast'
    BY <2>1, <2>2, <2>3 DEF TokenInv, IssuedInThePast, FormatTime
  <2>5. ConsumedInTime'
    BY <2>1, SubmissionAssumption DEF TokenInv, ConsumedInTime, Token
  <2>6. \A t \in Tokens : UsedUp(t) => UsedUp(t)'
    BY <2>1, <2>3, DurationsNat DEF UsedUp
  <2>7. \A q \in Requests : Spent(q) => Token(q) \in Tokens
    BY SubmissionFields DEF TokenInv, TypeOK, CreatedOnce, Spent, Token
  <2>8. SpentOnce'
    BY <2>1, <2>6, <2>7 DEF TokenInv, SpentOnce, Spent, Token
  <2>9. QED
    BY <1>1, <2>1, <2>4, <2>5, <2>8 DEF TokenInv, CreatedOnce
<1>5. CASE Restart
  BY <1>1, <1>5, Frame DEF Restart, database, TokenInv, TypeOK, Spent, Verified, CreatedOnce
<1>6. QED
  BY <1>2, <1>3, <1>4, <1>5

\* No token is used at first.
LEMMA InitTokenInv == Init => TokenInv
<1> SUFFICES ASSUME Init PROVE TokenInv
  OBVIOUS
<1>1. FormatTime(0) = 0
  BY SecondAssumption DEF FormatTime
<1>2. IssuedInThePast
  BY <1>1 DEF Init, IssuedInThePast, IssueChallenge
<1>3. QED
  BY <1>2, InitTypes DEF Init, TokenInv, CreatedOnce, ConsumedInTime, SpentOnce, Spent

(***************************************************************************)
(* A challenge admits one comment, however many requests carry it, for     *)
(* every policy under which HandlingAssumption holds.                      *)
(***************************************************************************)
THEOREM SingleUse == Spec => []TokenAdmitsOneComment
<1>1. TokenInv /\ [Next]_vars => TokenInv'
  <2>1. TokenInv /\ Next => TokenInv'
    BY HandlerInv, OtherInv DEF Next, Step
  <2>2. TokenInv /\ UNCHANGED vars => TokenInv'
    BY DEF TokenInv, TypeOK, IssuedInThePast, CreatedOnce, ConsumedInTime, SpentOnce, Spent,
           UsedUp, Token, FormatTime, vars, database, request
  <2>3. QED
    BY <2>1, <2>2
<1>2. TokenInv => TokenAdmitsOneComment
  BY DEF TokenInv, SpentOnce, Spent, Token, TokenAdmitsOneComment
<1>3. QED
  BY InitTokenInv, <1>1, <1>2, PTL DEF Spec

-----------------------------------------------------------------------------
(***************************************************************************)
(* Threads keep together, whatever is stored at first, with or without the *)
(* foreign key.                                                            *)
(***************************************************************************)
\* Whatever bears this id has been in the table, or could not come any more.
Existed(id) == id \in OldComments \/ (id \in Requests /\ pc[id] \in {"record", "done"})

\* The request has found its parent and has yet to store its reply.
Replying(r) == pc[r] \in {"consume", "assess", "create"} /\ submission[r].parent # None

UniqueIds == \A c, d \in comments : c.id = d.id => c = d

StoredExisted ==
    \A c \in comments : Existed(c.id) /\ (c.parent # None => Existed(c.parent))

\* The parent's id is taken, so nothing else can come to bear it; and as long
\* as the parent is stored it is on the post of the reply.
ParentsKept ==
    \A r \in Requests : Replying(r) =>
        /\ Existed(submission[r].parent)
        /\ \A d \in comments : d.id = submission[r].parent => d.post = submission[r].post

ThreadInv ==
    /\ UniqueIds
    /\ StoredExisted
    /\ ParentsKept
    /\ RepliesStayOnTheirPost
    /\ NoOrphans

-----------------------------------------------------------------------------
\* The invariant holds on the boards a behaviour may start with.
LEMMA InitThreads == Init => ThreadInv
BY BoardAssumption, SubmissionAssumption
DEF Init, ThreadInv, UniqueIds, StoredExisted, ParentsKept, Existed, Replying,
    RepliesStayOnTheirPost, NoOrphans, Parented

\* Enough for a step that leaves the comments alone: a request at its end
\* stays there, and none finds a parent.
LEMMA ThreadFrame ==
    ASSUME ThreadInv, UNCHANGED parentForeignKey, UNCHANGED comments,
           \A r \in Requests :
              /\ pc[r] \in {"record", "done"} => pc'[r] \in {"record", "done"}
              /\ Replying(r)' => Replying(r) /\ UNCHANGED submission[r]
    PROVE  ThreadInv'
<1>1. \A id \in CommentIds : Existed(id) => Existed(id)'
  BY DEF Existed
<1>2. (UniqueIds /\ RepliesStayOnTheirPost /\ NoOrphans)'
  BY DEF ThreadInv, UniqueIds, RepliesStayOnTheirPost, NoOrphans, Parented
<1>3. StoredExisted'
  BY <1>1 DEF ThreadInv, StoredExisted, Existed, CommentIds
<1>4. ParentsKept'
  BY <1>1 DEF ThreadInv, ParentsKept, Existed, CommentIds
<1>5. QED
  BY <1>2, <1>3, <1>4 DEF ThreadInv

\* A parent that is found is the only row with its id, and on the post.
LEMMA FindParentThreads ==
    ASSUME TypeOK, UNCHANGED parentForeignKey, ThreadInv, NEW r \in Requests, FindParent(r)
    PROVE  ThreadInv'
<1>1. CASE ~ParentForPost(r)
  BY <1>1, ThreadFrame DEF FindParent, Conclude, Goto, Replying, database, TypeOK
<1>2. CASE ParentForPost(r)
  <2>1. /\ pc[r] = "parent" /\ pc' = [pc EXCEPT ![r] = "consume"]
        /\ UNCHANGED <<comments, submission>>
    BY <1>2 DEF FindParent, Goto, database
  <2>2. PICK p \in comments : p.id = submission[r].parent /\ p.post = submission[r].post
    BY <1>2 DEF ParentForPost
  <2>3. Existed(p.id) /\ \A d \in comments : d.id = p.id => d.post = p.post
    BY DEF ThreadInv, StoredExisted, UniqueIds
  <2>4. \A id : Existed(id) => Existed(id)'
    BY <2>1 DEF Existed, TypeOK
  <2>5. (UniqueIds /\ RepliesStayOnTheirPost /\ NoOrphans)'
    BY <2>1 DEF ThreadInv, UniqueIds, RepliesStayOnTheirPost, NoOrphans, Parented
  <2>6. StoredExisted'
    BY <2>1, <2>4 DEF ThreadInv, StoredExisted
  <2>7. ParentsKept'
    <3>1. SUFFICES ASSUME NEW q \in Requests, Replying(q)'
                   PROVE  /\ Existed(submission[q].parent)'
                          /\ \A d \in comments : d.id = submission[q].parent
                                                 => d.post = submission[q].post
      BY <2>1 DEF ParentsKept
    <3>2. CASE q = r
      BY <2>1, <2>2, <2>3, <2>4, <3>2
    <3>3. CASE q # r
      BY <2>1, <2>4, <3>1, <3>3 DEF ThreadInv, ParentsKept, Replying, TypeOK
    <3>4. QED
      BY <3>2, <3>3
  <2>8. QED
    BY <2>5, <2>6, <2>7 DEF ThreadInv
<1>3. QED
  BY <1>1, <1>2

\* The reply that is stored is on the post of its parent, and nothing stored
\* or under way has waited for its id.
LEMMA CreateThreads ==
    ASSUME TypeOK, UNCHANGED parentForeignKey, ThreadInv, NEW r \in Requests, Create(r)
    PROVE  ThreadInv'
<1>1. CASE ~KeysHold(NewComment(r))
  BY <1>1, ThreadFrame DEF Create, Goto, Replying, TypeOK
<1>2. CASE KeysHold(NewComment(r))
  <2> DEFINE n == NewComment(r)
  <2>1. /\ pc[r] = "create" /\ pc' = [pc EXCEPT ![r] = "record"]
        /\ comments' = comments \cup {n}
        /\ UNCHANGED submission
    BY <1>2 DEF Create, Goto
  <2>2. n.id = r /\ n.post = submission[r].post /\ n.parent = submission[r].parent
    BY DEF NewComment
  <2>3. r \notin OldComments /\ ~Existed(r) /\ r # None
    BY <2>1, SubmissionAssumption DEF Existed, CommentIds
  <2>4. \A id : Existed(id) => Existed(id)'
    BY <2>1 DEF Existed, TypeOK
  <2>5. Existed(r)'
    BY <2>1 DEF Existed, TypeOK
  <2>6. n.parent # None => /\ Existed(n.parent)
                           /\ \A d \in comments : d.id = n.parent => d.post = n.post
    BY <2>1, <2>2 DEF ThreadInv, ParentsKept, Replying
  <2>7. \A c \in comments : c.id # r /\ c.parent # r
    BY <2>3 DEF ThreadInv, StoredExisted
  <2>8. UniqueIds'
    BY <2>1, <2>2, <2>7 DEF ThreadInv, UniqueIds
  <2>9. StoredExisted'
    BY <2>1, <2>2, <2>4, <2>5, <2>6 DEF ThreadInv, StoredExisted
  <2>10. ParentsKept'
    <3>1. SUFFICES ASSUME NEW q \in Requests, Replying(q)'
                   PROVE  /\ Existed(submission[q].parent)'
                          /\ \A d \in comments' : d.id = submission[q].parent
                                                  => d.post = submission[q].post
      BY <2>1 DEF ParentsKept
    <3>2. Replying(q)
      BY <2>1, <3>1 DEF Replying, TypeOK
    <3>3. /\ Existed(submission[q].parent)
          /\ \A d \in comments : d.id = submission[q].parent => d.post = submission[q].post
      BY <3>2 DEF ThreadInv, ParentsKept
    <3>4. n.id # submission[q].parent
      BY <2>2, <2>3, <3>3
    <3>5. QED
      BY <2>1, <2>4, <3>3, <3>4
  <2>11. RepliesStayOnTheirPost'
    <3>1. SUFFICES ASSUME NEW c \in comments', NEW d \in comments', c.parent = d.id
                   PROVE  c.post = d.post
      BY DEF RepliesStayOnTheirPost
    <3>2. CASE d = n
      <4>1. c = n
        BY <2>1, <2>2, <2>7, <3>1, <3>2
      <4>2. QED
        BY <3>2, <4>1
    <3>3. CASE d # n /\ c = n
      <4>1. d \in comments /\ d.id \in CommentIds
        BY <2>1, <3>3 DEF TypeOK, CommentType
      <4>2. c.parent # None
        BY <3>1, <4>1, SubmissionAssumption
      <4>3. QED
        BY <2>6, <3>1, <3>3, <4>1, <4>2
    <3>4. CASE d # n /\ c # n
      BY <2>1, <3>1, <3>4 DEF ThreadInv, RepliesStayOnTheirPost
    <3>5. QED
      BY <3>2, <3>3, <3>4
  <2>12. NoOrphans'
    <3>1. parentForeignKey /\ n.parent # None => \E d \in comments : d.id = n.parent
      BY <1>2 DEF KeysHold
    <3>2. QED
      BY <2>1, <3>1 DEF ThreadInv, NoOrphans, Parented
  <2>13. QED
    BY <2>8, <2>9, <2>10, <2>11, <2>12 DEF ThreadInv
<1>3. QED
  BY <1>1, <1>2

\* The remaining steps of a request fit the frame.
LEMMA HandlerThreads ==
    ASSUME TypeOK, UNCHANGED parentForeignKey, ThreadInv, NEW r \in Requests, Arrive(r) \/ Handle(r) \/ Fail(r)
    PROVE  ThreadInv'
<1> USE ThreadFrame DEF TypeOK, Goto, Replying, database, request
<1>1. CASE Arrive(r)
  BY <1>1 DEF Arrive
<1>2. CASE CheckMute(r)
  BY <1>2 DEF CheckMute, Conclude
<1>3. CASE Screen(r)
  BY <1>3 DEF Screen, Conclude
<1>4. CASE FindPost(r)
  BY <1>4 DEF FindPost, Conclude
<1>5. CASE Consume(r)
  BY <1>5 DEF Consume, Conclude
<1>6. CASE Assess(r)
  BY <1>6 DEF Assess
<1>7. CASE Honeypot(r) \/ Limited(r)
  BY <1>7 DEF Honeypot, Limited, Penalise
<1>8. CASE RetryAfter(r)
  BY <1>8 DEF RetryAfter
<1>9. CASE RecordAttempt(r)
  BY <1>9 DEF RecordAttempt
<1>10. CASE Fail(r)
  BY <1>10 DEF Fail
<1>11. QED
  BY <1>1, <1>2, <1>3, <1>4, <1>5, <1>6, <1>7, <1>8, <1>9, <1>10,
     FindParentThreads, CreateThreads DEF Handle

\* Deleting a comment or a post leaves no reply to what it takes.
LEMMA DeletionTakesReplies ==
    ASSUME TypeOK, ThreadInv,
           (\E c \in comments : DeleteComment(c)) \/ (\E p \in posts : DeletePost(p))
    PROVE  /\ comments' \subseteq comments
           /\ UNCHANGED <<pc, submission>>
           /\ \A c, d \in comments : d.parent = c.id /\ c \notin comments' => d \notin comments'
<1>1. CASE \E c \in comments : DeleteComment(c)
  <2>1. PICK x \in comments : DeleteComment(x)
    BY <1>1
  <2>2. comments' = comments \ Thread(x) /\ UNCHANGED <<pc, submission>>
    BY <2>1 DEF DeleteComment, request
  <2>3. ASSUME NEW c \in Thread(x), NEW d \in comments, d.parent = c.id
        PROVE  d \in Thread(x)
    <3>1. SUFFICES ASSUME NEW S \in SUBSET comments, x \in S,
                          \A e \in comments : (\E f \in S : e.parent = f.id) => e \in S
                   PROVE  d \in S
      BY DEF Thread
    <3>2. c \in S
      BY <3>1 DEF Thread
    <3>3. QED
      BY <2>3, <3>1, <3>2
  <2>4. QED
    BY <2>2, <2>3
<1>2. CASE \E p \in posts : DeletePost(p)
  <2>1. PICK p \in posts : DeletePost(p)
    BY <1>2
  <2>2. comments' = {c \in comments : c.post # p} /\ UNCHANGED <<pc, submission>>
    BY <2>1 DEF DeletePost, request
  <2>3. QED
    BY <2>2 DEF ThreadInv, RepliesStayOnTheirPost
<1>3. QED
  BY <1>1, <1>2

\* What the administrator does keeps the invariant: a status is no part of
\* it, and what is deleted goes with its replies.
LEMMA AdministerThreads == ASSUME TypeOK, UNCHANGED parentForeignKey, ThreadInv, Administer PROVE ThreadInv'
<1>1. CASE \E c \in comments, st \in {"visible", "rejected"} : SetStatus(c, st)
  <2>1. PICK c \in comments, st \in {"visible", "rejected"} : SetStatus(c, st)
    BY <1>1
  <2> DEFINE m == [c EXCEPT !.status = st]
  <2>2. /\ comments' = (comments \ {c}) \cup {m} /\ UNCHANGED <<pc, submission>>
    BY <2>1 DEF SetStatus, request
  <2>3. m.id = c.id /\ m.post = c.post /\ m.parent = c.parent
    BY DEF TypeOK, CommentType
  <2>4. \A id : Existed(id)' <=> Existed(id)
    BY <2>2 DEF Existed
  <2>5. UniqueIds'
    BY <2>2, <2>3 DEF ThreadInv, UniqueIds
  <2>6. StoredExisted'
    BY <2>2, <2>3, <2>4 DEF ThreadInv, StoredExisted
  <2>7. ParentsKept'
    BY <2>2, <2>3, <2>4 DEF ThreadInv, ParentsKept, Replying
  <2>8. RepliesStayOnTheirPost'
    <3>1. ASSUME NEW e \in comments'
          PROVE  \E f \in comments : f.id = e.id /\ f.post = e.post /\ f.parent = e.parent
      BY <2>2, <2>3
    <3>2. QED
      BY <3>1 DEF ThreadInv, RepliesStayOnTheirPost
  <2>9. NoOrphans'
    BY <2>2, <2>3 DEF ThreadInv, NoOrphans, Parented
  <2>10. QED
    BY <2>5, <2>6, <2>7, <2>8, <2>9 DEF ThreadInv
<1>2. CASE (\E c \in comments : DeleteComment(c)) \/ (\E p \in posts : DeletePost(p))
  <2>1. /\ comments' \subseteq comments
        /\ UNCHANGED <<pc, submission>>
        /\ \A c, d \in comments : d.parent = c.id /\ c \notin comments' => d \notin comments'
    BY <1>2, DeletionTakesReplies
  <2>2. \A id : Existed(id)' <=> Existed(id)
    BY <2>1 DEF Existed
  <2>3. UniqueIds' /\ RepliesStayOnTheirPost'
    BY <2>1 DEF ThreadInv, UniqueIds, RepliesStayOnTheirPost
  <2>4. StoredExisted' /\ ParentsKept'
    BY <2>1, <2>2 DEF ThreadInv, StoredExisted, ParentsKept, Replying
  <2>5. NoOrphans'
    BY <2>1 DEF ThreadInv, NoOrphans, Parented
  <2>6. QED
    BY <2>3, <2>4, <2>5 DEF ThreadInv
<1>3. CASE \E ip \in IPs : Unmute(ip)
  BY <1>3, ThreadFrame DEF Unmute, Replying, request
<1>4. QED
  BY <1>1, <1>2, <1>3 DEF Administer

\* So does everything else.
LEMMA OtherThreads ==
    ASSUME TypeOK, UNCHANGED parentForeignKey, ThreadInv, (\E t \in Tokens : Issue(t)) \/ Tick \/ Restart \/ UNCHANGED vars
    PROVE  ThreadInv'
<1>1. CASE (\E t \in Tokens : Issue(t)) \/ Tick \/ UNCHANGED vars
  BY <1>1, ThreadFrame DEF Issue, Tick, Replying, vars, database, request
<1>2. CASE Restart
  BY <1>2, ThreadFrame DEF Restart, Replying, database, TypeOK
<1>3. QED
  BY <1>1, <1>2

\* The invariant is inductive.
THEOREM ThreadInvariance == Spec => []ThreadInv
<1>1. ASSUME TypeOK, ThreadInv, [Next]_vars PROVE ThreadInv'
  BY <1>1, HandlerThreads, AdministerThreads, OtherThreads DEF Next, Step, vars
<1>2. QED
  BY InitThreads, TypeCorrect, <1>1, PTL DEF Spec

(***************************************************************************)
(* A stored reply is on the post of its parent, although the parent is     *)
(* looked up long before the reply is stored.                              *)
(***************************************************************************)
THEOREM RepliesOnTheirPost == Spec => []RepliesStayOnTheirPost
BY ThreadInvariance, PTL DEF ThreadInv

\* With the foreign key no reply is ever without its parent.
THEOREM ParentsPresent == Spec => []NoOrphans
BY ThreadInvariance, PTL DEF ThreadInv

\* With or without it, a comment that goes takes its replies along.
THEOREM RepliesGoAlong == Spec => ThreadsGoWhole
<1> DEFINE Whole == \A c, d \in comments :
                       /\ d.parent = c.id
                       /\ \A e \in comments' : e.id # c.id
                       => \A e \in comments' : e.id # d.id
<1>1. ASSUME TypeOK, ThreadInv, [Next]_vars PROVE Whole
  <2>1. CASE (\E c \in comments : DeleteComment(c)) \/ (\E p \in posts : DeletePost(p))
    <3>1. /\ comments' \subseteq comments
          /\ \A c, d \in comments : d.parent = c.id /\ c \notin comments' => d \notin comments'
      BY <1>1, <2>1, DeletionTakesReplies
    <3>2. QED
      BY <1>1, <3>1 DEF ThreadInv, UniqueIds
  <2>2. CASE \E c \in comments, st \in {"visible", "rejected"} : SetStatus(c, st)
    <3>1. PICK x \in comments, st \in {"visible", "rejected"} : SetStatus(x, st)
      BY <2>2
    <3>2. /\ comments' = (comments \ {x}) \cup {[x EXCEPT !.status = st]}
          /\ [x EXCEPT !.status = st].id = x.id
      BY <1>1, <3>1 DEF SetStatus, TypeOK, CommentType
    <3>3. \A c \in comments : \E e \in comments' : e.id = c.id
      BY <3>2
    <3>4. QED
      BY <3>3
  <2>3. CASE comments \subseteq comments'
    BY <2>3
  <2>4. CASE \E r \in Requests : Arrive(r) \/ Handle(r) \/ Fail(r)
    <3>1. comments \subseteq comments'
      BY <2>4 DEF Arrive, Handle, Fail, CheckMute, Screen, FindPost, FindParent, Consume, Assess,
                  Honeypot, Limited, Penalise, RetryAfter, Create, RecordAttempt, database
    <3>2. QED
      BY <2>3, <3>1
  <2>5. CASE \/ (\E t \in Tokens : Issue(t)) \/ Tick \/ Restart \/ UNCHANGED vars
             \/ (\E ip \in IPs : Unmute(ip))
    <3>1. comments \subseteq comments'
      BY <2>5 DEF Issue, Tick, Restart, Unmute, vars, database
    <3>2. QED
      BY <2>3, <3>1
  <2>6. QED
    BY <1>1, <2>1, <2>2, <2>4, <2>5 DEF Next, Step, Administer
<1>2. QED
  BY ThreadInvariance, TypeCorrect, <1>1, PTL DEF Spec, ThreadsGoWhole

-----------------------------------------------------------------------------
(***************************************************************************)
(* The rate limits, for every policy: what was recorded before a request   *)
(* arrived is still there, wherever it matters, when it is assessed.       *)
(***************************************************************************)
\* What the attempts before r allow at time t: the bodies of the properties.
CooldownOver(r, t) ==
    Comments.Cooldown <= Retention =>
        \A a \in earlier[r] : a.ip = submission[r].ip => t - a.at >= Comments.Cooldown

Mine(r) == {a \in earlier[r] : a.ip = submission[r].ip}

EarlierAccepted(r) == {a \in earlier[r] : a.status \in Accepted}

OnPost(r) == {a \in EarlierAccepted(r) : a.post = submission[r].post}

QuotasLeft(r, t) ==
    /\ Cardinality(Since(Mine(r), Comments.BurstWindow, t)) < Comments.BurstMax
    /\ Cardinality(Since(OnPost(r), Comments.PostRateLimitWindow, t))
          < Comments.PostRateLimitMax
    /\ Cardinality(Since(EarlierAccepted(r), Comments.GlobalRateLimitWindow, t))
          < Comments.GlobalRateLimitMax

TextNew(r, t) ==
    \A a \in Since(earlier[r], Comments.DuplicateWindow, t) :
        ~ /\ a.ip = submission[r].ip /\ a.post = submission[r].post
          /\ a.text = submission[r].text /\ a.status \in Accepted

SimilarWaits(r, t) ==
    status[r] = "visible" =>
        \A a \in Since(earlier[r], Comments.DuplicateWindow, t) :
            /\ a.ip = submission[r].ip /\ a.post = submission[r].post
            /\ Fingerprint[a.text] = Fingerprint[submission[r].text]
            /\ a.status \in Accepted
            => submission[r].signals < 2

Admitted(r, t) ==
    CooldownOver(r, t) /\ QuotasLeft(r, t) /\ TextNew(r, t) /\ SimilarWaits(r, t)

\* A row is in the table until it is older than the retention.
Remembered ==
    \A a \in log : a \in attempts \/ a.at < FormatTime(clock - Retention)

HistoryInv ==
    /\ IsFiniteSet(log)
    /\ \A a \in log : a.at <= clock
    /\ Remembered

\* A request on its way to store its comment, and one that has stored it, was
\* admitted at that time.
AdmittedInv ==
    \A r \in Requests :
        /\ pc[r] = "create" => Admitted(r, clock)
        /\ createdAt[r] # None => pc[r] \in {"record", "done"} /\ Admitted(r, createdAt[r])

RateInv == TypeOK /\ HistoryInv /\ AdmittedInv

-----------------------------------------------------------------------------
\* The settings the limits use are natural numbers.
LEMMA SettingsNat ==
    /\ Comments.Cooldown \in Nat /\ Comments.BurstWindow \in Nat
    /\ Comments.DuplicateWindow \in Nat /\ Comments.PostRateLimitWindow \in Nat
    /\ Comments.GlobalRateLimitWindow \in Nat /\ Comments.AttemptsTTL \in Nat
    /\ Comments.BurstMax \in Nat /\ Comments.PostRateLimitMax \in Nat
    /\ Comments.GlobalRateLimitMax \in Nat
BY PolicyAssumption DEF Durations, Thresholds

\* The retention covers every window.
LEMMA RetentionCovers ==
    /\ Retention \in Nat
    /\ Comments.BurstWindow <= Retention
    /\ Comments.DuplicateWindow <= Retention
    /\ Comments.PostRateLimitWindow <= Retention
    /\ Comments.GlobalRateLimitWindow <= Retention
<1> DEFINE kept == {Comments.AttemptsTTL, Comments.BurstWindow, Comments.DuplicateWindow,
                    Comments.PostRateLimitWindow, Comments.GlobalRateLimitWindow}
<1>1. kept \subseteq Nat
  BY SettingsNat
<1>2. \E d \in kept : \A e \in kept : e <= d
  BY SettingsNat
<1>3. Retention \in kept /\ \A e \in kept : e <= Retention
  BY <1>2 DEF Retention
<1>4. QED
  BY <1>1, <1>3

\* A set of naturals with an upper bound has a greatest element.
LEMMA GreatestExists ==
    ASSUME NEW T \in SUBSET Nat, T # {}, NEW n \in Nat, \A t \in T : t <= n
    PROVE  \E t \in T : \A u \in T : u <= t
<1> DEFINE D == {n - t : t \in T}
<1>1. D \subseteq Nat /\ D # {}
  <2>1. ASSUME NEW t \in T PROVE n - t \in Nat
    OBVIOUS
  <2>2. QED
    BY <2>1
<1>2. PICK d \in D : \A e \in D : <<e, d>> \notin OpToRel(<, Nat)
  BY <1>1, WFMin, NatLessThanWellFounded
<1>3. \A e \in D : ~(e < d)
  BY <1>1, <1>2 DEF OpToRel
<1>4. PICK t \in T : d = n - t
  BY DEF D
<1>5. \A u \in T : u <= t
  <2>1. SUFFICES ASSUME NEW u \in T PROVE u <= t
    OBVIOUS
  <2>2. n - u \in D /\ ~(n - u < n - t)
    BY <1>3, <1>4
  <2>3. QED
    BY <2>2
<1>6. QED
  BY <1>5

\* As time passes a window reaches back less far.
LEMMA SinceShrinks ==
    ASSUME NEW rows \in SUBSET RowType, NEW w \in Nat, NEW t \in Nat, NEW u \in Nat, t <= u
    PROVE  Since(rows, w, u) \subseteq Since(rows, w, t)
<1>1. FormatTime(t - w) <= FormatTime(u - w)
      /\ FormatTime(t - w) \in Int /\ FormatTime(u - w) \in Int
  BY FormatTimeMonotone, FormatTimeBelow
<1>2. \A a \in rows : a.at \in Nat
  BY DEF RowType
<1>3. QED
  BY <1>1, <1>2 DEF Since

\* So what is admitted stays admitted.
LEMMA AdmittedLater ==
    ASSUME TypeOK, IsFiniteSet(log), NEW r \in Requests, NEW t \in Nat, NEW u \in Nat, t <= u,
           Admitted(r, t)
    PROVE  Admitted(r, u)
<1>1. earlier[r] \subseteq log /\ earlier[r] \subseteq RowType
  BY DEF TypeOK
<1>2. \A a \in earlier[r] : a.at \in Nat
  BY <1>1 DEF RowType
<1>3. CooldownOver(r, u)
  BY <1>2, SettingsNat DEF Admitted, CooldownOver
<1>4. ASSUME NEW rows \in SUBSET earlier[r], NEW w \in Nat, NEW max \in Nat,
             Cardinality(Since(rows, w, t)) < max
      PROVE  Cardinality(Since(rows, w, u)) < max
  <2>1. Since(rows, w, u) \subseteq Since(rows, w, t)
    BY <1>1, SinceShrinks
  <2>2. Since(rows, w, t) \in SUBSET log
    BY <1>1 DEF Since
  <2>3. IsFiniteSet(Since(rows, w, t)) /\ IsFiniteSet(Since(rows, w, u))
    BY <2>1, <2>2, FS_Subset
  <2>4. /\ Cardinality(Since(rows, w, u)) <= Cardinality(Since(rows, w, t))
        /\ Cardinality(Since(rows, w, u)) \in Nat /\ Cardinality(Since(rows, w, t)) \in Nat
    BY <2>1, <2>3, FS_Subset, FS_CardinalityType
  <2>5. QED
    BY <1>4, <2>4
<1>5. QuotasLeft(r, u)
  <2>1. Mine(r) \subseteq earlier[r] /\ OnPost(r) \subseteq earlier[r]
        /\ EarlierAccepted(r) \subseteq earlier[r]
    BY DEF Mine, OnPost, EarlierAccepted
  <2>2. QED
    BY <1>4, <2>1, SettingsNat DEF Admitted, QuotasLeft
<1>6. Since(earlier[r], Comments.DuplicateWindow, u)
         \subseteq Since(earlier[r], Comments.DuplicateWindow, t)
  BY <1>1, SinceShrinks, SettingsNat
<1>7. TextNew(r, u) /\ SimilarWaits(r, u)
  BY <1>6 DEF Admitted, TextNew, SimilarWaits
<1>8. QED
  BY <1>3, <1>5, <1>7 DEF Admitted

-----------------------------------------------------------------------------
\* Nothing is stored at first.
LEMMA InitRates == Init => RateInv
<1> SUFFICES ASSUME Init PROVE RateInv
  OBVIOUS
<1>1. log = {} /\ \A r \in Requests : pc[r] = "idle" /\ createdAt[r] = None
  BY DEF Init
<1>2. HistoryInv
  BY <1>1, FS_EmptySet DEF HistoryInv, Remembered
<1>3. AdmittedInv
  BY <1>1 DEF AdmittedInv
<1>4. QED
  BY <1>2, <1>3, InitTypes DEF RateInv

\* A cleanup keeps what is to be remembered.
LEMMA CleaningRemembers ==
    ASSUME TypeOK, Remembered
    PROVE  \A a \in log : \/ a \in CleanAttempts(attempts, lastCleanup, clock)
                          \/ a.at < FormatTime(clock - Retention)
<1>1. clock - Retention \in Int
  BY RetentionCovers DEF TypeOK
<1>2. FormatTime(clock - Retention) \in Int /\ \A a \in log : a.at \in Nat
  BY <1>1, FormatTimeBelow DEF TypeOK, RowType
<1>3. QED
  BY <1>2 DEF Remembered, CleanAttempts

\* Enough for a step that writes no attempt and leaves the clock alone.
LEMMA HistoryFrame ==
    ASSUME TypeOK, HistoryInv, UNCHANGED <<clock, log>>,
           attempts' \in {attempts, CleanAttempts(attempts, lastCleanup, clock)}
    PROVE  HistoryInv'
BY CleaningRemembers DEF HistoryInv, Remembered, FormatTime

\* A row is written with the time of its writing, or a little less.
LEMMA InsertHistory ==
    ASSUME TypeOK, HistoryInv, UNCHANGED clock, NEW r \in Requests, NEW st, Insert(r, st)
    PROVE  HistoryInv'
<1>1. Row(r, st).at <= clock
  BY FormatTimeBelow DEF TypeOK, Row
<1>2. log' = log \cup {Row(r, st)}
      /\ attempts' = CleanAttempts(attempts, lastCleanup, clock) \cup {Row(r, st)}
  BY DEF Insert
<1>3. IsFiniteSet(log')
  BY <1>2, FS_AddElement DEF HistoryInv
<1>4. \A a \in log' : a.at <= clock
  BY <1>1, <1>2 DEF HistoryInv
<1>5. \A a \in log' : a \in attempts' \/ a.at < FormatTime(clock - Retention)
  BY <1>2, CleaningRemembers DEF HistoryInv
<1>6. QED
  BY <1>3, <1>4, <1>5 DEF HistoryInv, Remembered, FormatTime

\* The history stays true whatever happens.
LEMMA NextHistory == ASSUME TypeOK, HistoryInv, Next PROVE HistoryInv'
<1> USE DEF database, request
<1>1. ASSUME NEW r \in Requests, Arrive(r) \/ Handle(r) \/ Fail(r) PROVE HistoryInv'
  <2>1. CASE Honeypot(r) \/ Limited(r) \/ RecordAttempt(r)
    BY <2>1, InsertHistory DEF Honeypot, Limited, Penalise, RecordAttempt
  <2>2. CASE Arrive(r)
    BY <2>2, HistoryFrame DEF Arrive
  <2>3. CASE CheckMute(r) \/ FindPost(r) \/ FindParent(r) \/ Consume(r) \/ Assess(r)
             \/ RetryAfter(r) \/ Create(r)
    BY <2>3, HistoryFrame
       DEF CheckMute, FindPost, FindParent, Consume, Assess, RetryAfter, Create
  <2>4. CASE Screen(r)
    BY <2>4, HistoryFrame DEF Screen
  <2>5. CASE Fail(r)
    BY <2>5, HistoryFrame DEF Fail
  <2>6. QED
    BY <1>1, <2>1, <2>2, <2>3, <2>4, <2>5 DEF Handle
<1>2. CASE (\E t \in Tokens : Issue(t)) \/ Administer \/ Restart
  BY <1>2, HistoryFrame
     DEF Issue, Administer, SetStatus, DeleteComment, DeletePost, Unmute, Restart
<1>3. CASE Tick
  <2>1. clock' = clock + 1 /\ UNCHANGED <<log, attempts>> /\ clock \in Nat
    BY <1>3 DEF Tick, TypeOK
  <2>2. /\ FormatTime(clock - Retention) <= FormatTime(clock' - Retention)
        /\ FormatTime(clock - Retention) \in Int /\ FormatTime(clock' - Retention) \in Int
    BY <2>1, RetentionCovers, FormatTimeMonotone, FormatTimeBelow
  <2>3. \A a \in log : a.at \in Nat
    BY DEF TypeOK, RowType
  <2>4. \A a \in log : a.at <= clock' /\ (a \in attempts \/ a.at < FormatTime(clock' - Retention))
    BY <2>1, <2>2, <2>3 DEF HistoryInv, Remembered
  <2>5. QED
    BY <2>1, <2>4 DEF HistoryInv, Remembered, FormatTime
<1>4. QED
  BY <1>1, <1>2, <1>3 DEF Next, Step

-----------------------------------------------------------------------------
\* What a limit looks at among the remembered rows is all there has been.
LEMMA WindowSeen ==
    ASSUME TypeOK, Remembered, NEW r \in Requests, NEW w \in Nat, w <= Retention
    PROVE  Since(earlier[r], w, clock) \subseteq CleanAttempts(attempts, lastCleanup, clock)
<1>1. FormatTime(clock - Retention) <= FormatTime(clock - w)
      /\ FormatTime(clock - Retention) \in Int /\ FormatTime(clock - w) \in Int
  BY RetentionCovers, FormatTimeMonotone, FormatTimeBelow DEF TypeOK
<1>2. \A a \in earlier[r] : a \in log /\ a.at \in Nat
  BY DEF TypeOK, RowType
<1>3. QED
  BY <1>1, <1>2, CleaningRemembers DEF Since

\* A request that AttemptStats and RateLimit let pass is admitted.
LEMMA AssessAdmits ==
    ASSUME TypeOK, HistoryInv, NEW r \in Requests, Assess(r), pc'[r] = "create"
    PROVE  /\ CooldownOver(r, clock) /\ QuotasLeft(r, clock) /\ TextNew(r, clock)
           /\ SimilarWaits(r, clock)'
<1> DEFINE s == submission[r]
           kept == CleanAttempts(attempts, lastCleanup, clock)
           stats == AttemptStats(kept, s, clock)
<1>1. /\ ~RateLimit(stats, clock) /\ clock \in Nat
      /\ status' = [status EXCEPT ![r] = Moderate(s.signals, stats)]
      /\ UNCHANGED <<clock, submission, earlier>>
  BY DEF Assess, TypeOK, Goto
<1>2. /\ kept \subseteq log /\ kept \subseteq RowType /\ IsFiniteSet(kept)
      /\ earlier[r] \subseteq log /\ Remembered
  BY FS_Subset DEF TypeOK, HistoryInv, CleanAttempts
<1>3. \A a \in log : a.at \in Nat /\ a.at <= clock
  BY DEF TypeOK, HistoryInv, RowType
<1>4. s \in Submissions /\ s.signals \in Nat
  BY SubmissionAssumption DEF TypeOK, Assess, SubmissionType
<1>5. CooldownOver(r, clock)
  <2> SUFFICES ASSUME Comments.Cooldown <= Retention, NEW a \in earlier[r], a.ip = s.ip
               PROVE  clock - a.at >= Comments.Cooldown
    BY DEF CooldownOver
  <2>1. CASE a \in kept
    <3> DEFINE mine == {b \in kept : b.ip = s.ip}
               T == {b.at : b \in mine}
    <3>1. T \in SUBSET Nat /\ T # {} /\ \A t \in T : t <= clock
      BY <1>2, <1>3, <2>1
    <3>2. PICK t \in T : \A u \in T : u <= t
      <4> HIDE DEF T
      <4>1. QED
        BY <1>1, <3>1, GreatestExists
    <3>3. PICK b \in mine : b.at = t
      BY DEF T
    <3>4. b \in stats.last
      BY <3>2, <3>3 DEF AttemptStats
    <3>5. ~(clock - b.at < Comments.Cooldown)
      BY <1>1, <3>4 DEF RateLimit
    <3>6. a.at <= b.at
      BY <2>1, <3>2, <3>3
    <3>7. a.at \in Nat /\ b.at \in Nat
      BY <1>2, <1>3
    <3>8. QED
      BY <1>1, <3>5, <3>6, <3>7, SettingsNat
  <2>2. CASE a.at < FormatTime(clock - Retention)
    <3>1. FormatTime(clock - Retention) \in Int
          /\ FormatTime(clock - Retention) <= clock - Retention
      BY <1>1, RetentionCovers, FormatTimeBelow
    <3>2. QED
      BY <1>1, <1>2, <1>3, <2>2, <3>1, RetentionCovers, SettingsNat
  <2>3. QED
    BY <1>2, <2>1, <2>2, CleaningRemembers
<1>6. QuotasLeft(r, clock)
  <2>1. ASSUME NEW A, NEW B \in SUBSET kept, A \subseteq B, NEW max \in Nat,
               ~(Cardinality(B) >= max)
        PROVE  Cardinality(A) < max
    <3>1. IsFiniteSet(B) /\ IsFiniteSet(A)
      BY <1>2, <2>1, FS_Subset
    <3>2. Cardinality(A) <= Cardinality(B) /\ Cardinality(A) \in Nat /\ Cardinality(B) \in Nat
      BY <2>1, <3>1, FS_Subset, FS_CardinalityType
    <3>3. QED
      BY <2>1, <3>2
  <2>2. /\ stats.ipRecent \subseteq kept /\ stats.postRecent \subseteq kept
        /\ stats.globalRecent \subseteq kept
    BY DEF AttemptStats, Since
  <2>3. Since(Mine(r), Comments.BurstWindow, clock) \subseteq stats.ipRecent
    <3>1. Since(earlier[r], Comments.BurstWindow, clock) \subseteq kept
      BY <1>2, WindowSeen, SettingsNat, RetentionCovers
    <3>2. QED
      BY <3>1 DEF Since, Mine, AttemptStats
  <2>4. Since(OnPost(r), Comments.PostRateLimitWindow, clock) \subseteq stats.postRecent
    <3>1. Since(earlier[r], Comments.PostRateLimitWindow, clock) \subseteq kept
      BY <1>2, WindowSeen, SettingsNat, RetentionCovers
    <3>2. QED
      BY <3>1 DEF Since, OnPost, EarlierAccepted, AttemptStats
  <2>5. Since(EarlierAccepted(r), Comments.GlobalRateLimitWindow, clock)
           \subseteq stats.globalRecent
    <3>1. Since(earlier[r], Comments.GlobalRateLimitWindow, clock) \subseteq kept
      BY <1>2, WindowSeen, SettingsNat, RetentionCovers
    <3>2. QED
      BY <3>1 DEF Since, EarlierAccepted, AttemptStats
  <2>6. /\ ~(Cardinality(stats.ipRecent) >= Comments.BurstMax)
        /\ ~(Cardinality(stats.postRecent) >= Comments.PostRateLimitMax)
        /\ ~(Cardinality(stats.globalRecent) >= Comments.GlobalRateLimitMax)
    BY <1>1 DEF RateLimit
  <2> HIDE DEF stats, kept
  <2>7. QED
    BY <2>1, <2>2, <2>3, <2>4, <2>5, <2>6, SettingsNat DEF QuotasLeft
<1>7. Since(earlier[r], Comments.DuplicateWindow, clock) \subseteq kept
  BY <1>2, WindowSeen, SettingsNat, RetentionCovers
<1>8. \A a \in Since(earlier[r], Comments.DuplicateWindow, clock) :
         /\ a.ip = s.ip /\ a.post = s.post /\ a.status \in Accepted
         => IF a.text = s.text THEN a \in stats.duplicate
            ELSE Fingerprint[a.text] = Fingerprint[s.text] => a \in stats.fingerprint
  BY <1>7 DEF Since, AttemptStats
<1>9. TextNew(r, clock)
  BY <1>1, <1>8 DEF RateLimit, TextNew
<1>10. SimilarWaits(r, clock)'
  <2> SUFFICES ASSUME status'[r] = "visible",
                      NEW a \in Since(earlier[r], Comments.DuplicateWindow, clock),
                      a.ip = s.ip, a.post = s.post, a.status \in Accepted,
                      Fingerprint[a.text] = Fingerprint[s.text]
               PROVE  s.signals < 2
    BY <1>1 DEF SimilarWaits, Since, FormatTime
  <2>1. stats.fingerprint # {}
    BY <1>8, <1>9 DEF TextNew
  <2>2. Moderate(s.signals, stats) # "pending"
    BY <1>1 DEF TypeOK
  <2> HIDE DEF stats
  <2>3. QED
    BY <1>4, <2>1, <2>2 DEF Moderate
<1>11. QED
  BY <1>5, <1>6, <1>9, <1>10

\* Enough for a step that admits nobody, stores nothing and takes no time.
LEMMA AdmittedFrame ==
    ASSUME AdmittedInv, UNCHANGED <<clock, createdAt>>,
           \A r \in Requests :
              /\ pc'[r] = "create" => pc[r] = "create"
              /\ pc[r] \in {"create", "record", "done"} =>
                    UNCHANGED <<submission[r], status[r], earlier[r]>>
              /\ pc[r] \in {"record", "done"} => pc'[r] \in {"record", "done"}
    PROVE  AdmittedInv'
<1> SUFFICES ASSUME NEW r \in Requests
             PROVE  /\ pc'[r] = "create" => Admitted(r, clock)'
                    /\ createdAt'[r] # None =>
                          pc'[r] \in {"record", "done"} /\ Admitted(r, createdAt[r])'
  BY DEF AdmittedInv
<1>1. ASSUME pc'[r] = "create" PROVE Admitted(r, clock)'
  <2>1. Admitted(r, clock) /\ UNCHANGED <<submission[r], status[r], earlier[r]>>
    BY <1>1 DEF AdmittedInv
  <2>2. QED
    BY <2>1 DEF Admitted, CooldownOver, QuotasLeft, Mine, OnPost, EarlierAccepted, TextNew,
                SimilarWaits, Since, FormatTime
<1>2. ASSUME createdAt'[r] # None
      PROVE  pc'[r] \in {"record", "done"} /\ Admitted(r, createdAt[r])'
  <2>1. /\ Admitted(r, createdAt[r]) /\ pc'[r] \in {"record", "done"}
        /\ UNCHANGED <<submission[r], status[r], earlier[r], createdAt>>
    BY <1>2 DEF AdmittedInv
  <2>2. QED
    BY <2>1 DEF Admitted, CooldownOver, QuotasLeft, Mine, OnPost, EarlierAccepted, TextNew,
                SimilarWaits, Since, FormatTime
<1>3. QED
  BY <1>1, <1>2

\* The step that admits.
LEMMA AssessInv == ASSUME RateInv, NEW r \in Requests, Assess(r) PROVE AdmittedInv'
<1>1. UNCHANGED <<clock, createdAt, submission, earlier>> /\ pc[r] = "assess"
      /\ \A q \in Requests : q # r => UNCHANGED <<pc[q], status[q]>>
  BY DEF RateInv, TypeOK, Assess, Goto
<1>2. CASE pc'[r] # "create"
  BY <1>1, <1>2, AdmittedFrame DEF RateInv
<1>3. CASE pc'[r] = "create"
  <2>1. CooldownOver(r, clock) /\ QuotasLeft(r, clock) /\ TextNew(r, clock)
        /\ SimilarWaits(r, clock)'
    BY <1>3, AssessAdmits DEF RateInv
  <2>2. Admitted(r, clock)'
    BY <1>1, <2>1 DEF Admitted, CooldownOver, QuotasLeft, Mine, OnPost, EarlierAccepted,
                      TextNew, Since, FormatTime
  <2>3. createdAt[r] = None
    BY <1>1 DEF RateInv, AdmittedInv
  <2>4. ASSUME NEW q \in Requests, q # r
        PROVE  /\ pc'[q] = "create" => Admitted(q, clock)'
               /\ createdAt'[q] # None =>
                     pc'[q] \in {"record", "done"} /\ Admitted(q, createdAt[q])'
    <3>1. UNCHANGED <<pc[q], status[q], submission, earlier, clock, createdAt>>
      BY <1>1, <2>4
    <3>2. Admitted(q, clock)' <=> Admitted(q, clock)
      BY <3>1 DEF Admitted, CooldownOver, QuotasLeft, Mine, OnPost, EarlierAccepted, TextNew,
                  SimilarWaits, Since, FormatTime
    <3>3. Admitted(q, createdAt[q])' <=> Admitted(q, createdAt[q])
      BY <3>1 DEF Admitted, CooldownOver, QuotasLeft, Mine, OnPost, EarlierAccepted, TextNew,
                  SimilarWaits, Since, FormatTime
    <3>4. QED
      BY <3>1, <3>2, <3>3 DEF RateInv, AdmittedInv
  <2>5. QED
    BY <1>1, <2>2, <2>3, <2>4 DEF AdmittedInv
<1>4. QED
  BY <1>2, <1>3

\* The step that stores a comment does so at a time at which it was admitted.
LEMMA CreateInv == ASSUME RateInv, NEW r \in Requests, Create(r) PROVE AdmittedInv'
<1>1. UNCHANGED <<clock, submission, status, earlier>> /\ pc[r] = "create"
      /\ pc' = [pc EXCEPT ![r] = pc'[r]] /\ pc'[r] \in {"record", "done"}
      /\ createdAt' \in {createdAt, [createdAt EXCEPT ![r] = clock]}
      /\ (createdAt' # createdAt => pc'[r] = "record")
  BY DEF RateInv, TypeOK, Create, Goto
<1>2. CASE createdAt' = createdAt
  BY <1>1, <1>2, AdmittedFrame DEF RateInv, TypeOK
<1>3. CASE createdAt' = [createdAt EXCEPT ![r] = clock]
  <2>1. Admitted(r, clock)
    BY <1>1 DEF RateInv, AdmittedInv
  <2>2. \A q \in Requests : createdAt'[q] = (IF q = r THEN clock ELSE createdAt[q])
    BY <1>3 DEF RateInv, TypeOK
  <2>3. ASSUME NEW q \in Requests, createdAt'[q] # None
        PROVE  pc'[q] \in {"record", "done"} /\ Admitted(q, createdAt'[q])
    BY <1>1, <2>1, <2>2, <2>3 DEF RateInv, AdmittedInv, TypeOK
  <2>4. ASSUME NEW q \in Requests, pc'[q] = "create"
        PROVE  Admitted(q, clock)
    BY <1>1, <2>4 DEF RateInv, AdmittedInv, TypeOK
  <2>5. ASSUME NEW q \in Requests, createdAt'[q] # None PROVE Admitted(q, createdAt[q])'
    <3>1. Admitted(q, createdAt'[q])
      BY <2>3, <2>5
    <3>2. QED
      BY <3>1, <1>1 DEF Admitted, CooldownOver, QuotasLeft, Mine, OnPost, EarlierAccepted,
                        TextNew, SimilarWaits, Since, FormatTime
  <2>6. ASSUME NEW q \in Requests, pc'[q] = "create" PROVE Admitted(q, clock)'
    <3>1. Admitted(q, clock)
      BY <2>4, <2>6
    <3>2. QED
      BY <3>1, <1>1 DEF Admitted, CooldownOver, QuotasLeft, Mine, OnPost, EarlierAccepted,
                        TextNew, SimilarWaits, Since, FormatTime
  <2>7. QED
    BY <2>3, <2>5, <2>6 DEF AdmittedInv
<1>4. QED
  BY <1>1, <1>2, <1>3

\* Every other step admits nobody.
LEMMA NextAdmitted == ASSUME RateInv, Next PROVE AdmittedInv'
<1> USE DEF database, request, Goto, Conclude
<1>1. ASSUME NEW r \in Requests, Arrive(r) \/ Handle(r) \/ Fail(r) PROVE AdmittedInv'
  <2> USE AdmittedFrame DEF RateInv, TypeOK
  <2>1. CASE Arrive(r)
    BY <2>1 DEF Arrive
  <2>2. CASE CheckMute(r)
    BY <2>2 DEF CheckMute
  <2>3. CASE Screen(r)
    BY <2>3 DEF Screen
  <2>4. CASE FindPost(r)
    BY <2>4 DEF FindPost
  <2>5. CASE FindParent(r)
    BY <2>5 DEF FindParent
  <2>6. CASE Consume(r)
    BY <2>6 DEF Consume
  <2>7. CASE Honeypot(r) \/ Limited(r)
    BY <2>7 DEF Honeypot, Limited, Penalise
  <2>8. CASE RetryAfter(r)
    BY <2>8 DEF RetryAfter
  <2>9. CASE RecordAttempt(r)
    BY <2>9 DEF RecordAttempt
  <2>10. CASE Fail(r)
    BY <2>10 DEF Fail
  <2>11. QED
    BY <1>1, <2>1, <2>2, <2>3, <2>4, <2>5, <2>6, <2>7, <2>8, <2>9, <2>10, AssessInv, CreateInv
       DEF Handle
<1>2. CASE (\E t \in Tokens : Issue(t)) \/ Administer
  BY <1>2, AdmittedFrame
     DEF Issue, Administer, SetStatus, DeleteComment, DeletePost, Unmute, RateInv
<1>3. CASE Restart
  BY <1>3, AdmittedFrame DEF Restart, RateInv, TypeOK
<1>4. CASE Tick
  <2>1. /\ clock' = clock + 1 /\ clock \in Nat
        /\ UNCHANGED <<pc, submission, status, earlier, createdAt>>
    BY <1>4 DEF Tick, RateInv, TypeOK
  <2>2. ASSUME NEW r \in Requests, pc'[r] = "create" PROVE Admitted(r, clock)'
    <3>1. Admitted(r, clock)
      BY <2>1, <2>2 DEF RateInv, AdmittedInv
    <3>2. Admitted(r, clock + 1)
      BY <3>1, <2>1, AdmittedLater DEF RateInv, HistoryInv
    <3>3. QED
      BY <3>2, <2>1 DEF Admitted, CooldownOver, QuotasLeft, Mine, OnPost, EarlierAccepted,
                        TextNew, SimilarWaits, Since, FormatTime
  <2>3. ASSUME NEW r \in Requests, createdAt'[r] # None
        PROVE  pc'[r] \in {"record", "done"} /\ Admitted(r, createdAt[r])'
    <3>1. Admitted(r, createdAt[r]) /\ pc'[r] \in {"record", "done"}
      BY <2>1, <2>3 DEF RateInv, AdmittedInv
    <3>2. QED
      BY <3>1, <2>1 DEF Admitted, CooldownOver, QuotasLeft, Mine, OnPost, EarlierAccepted,
                        TextNew, SimilarWaits, Since, FormatTime
  <2>4. QED
    BY <2>2, <2>3 DEF AdmittedInv
<1>5. QED
  BY <1>1, <1>2, <1>3, <1>4 DEF Next, Step

-----------------------------------------------------------------------------
\* The invariant behind the four limits, which is about every reader's history.
THEOREM RatesInvariant == Spec => []RateInv
<1>1. RateInv /\ [Next]_vars => RateInv'
  <2>1. RateInv /\ Next => RateInv'
    <3>1. RateInv /\ Next => TypeOK'
      BY HandlerTypes, OtherTypes DEF Next, Step, RateInv
    <3>2. QED
      BY <3>1, NextHistory, NextAdmitted DEF RateInv
  <2>2. RateInv /\ UNCHANGED vars => RateInv'
    <3> SUFFICES ASSUME RateInv, UNCHANGED vars PROVE RateInv'
      OBVIOUS
    <3>1. TypeOK'
      BY DEF RateInv, TypeOK, vars, database, request
    <3>2. HistoryInv'
      BY HistoryFrame DEF RateInv, vars, database, request
    <3>3. AdmittedInv'
      BY AdmittedFrame DEF RateInv, vars, database, request
    <3>4. QED
      BY <3>1, <3>2, <3>3 DEF RateInv
  <2>3. QED
    BY <2>1, <2>2
<1>2. QED
  BY InitRates, <1>1, PTL DEF Spec

(***************************************************************************)
(* No comment is stored within the cooldown of an attempt of its ip that   *)
(* was recorded before its request arrived, whatever cleanups, restarts    *)
(* and other readers do, ...                                               *)
(***************************************************************************)
THEOREM CooldownHolds == Spec => []CooldownKept
<1>1. RateInv => CooldownKept
  BY DEF RateInv, AdmittedInv, Admitted, CooldownOver, CooldownKept
<1>2. QED
  BY RatesInvariant, <1>1, PTL

\* ... nor when such attempts exhaust a quota of its ip, its post or the site, ...
THEOREM QuotasHold == Spec => []QuotasKept
<1>1. RateInv => QuotasKept
  BY DEF RateInv, AdmittedInv, Admitted, QuotasLeft, Mine, OnPost, EarlierAccepted, QuotasKept
<1>2. QED
  BY RatesInvariant, <1>1, PTL

\* ... nor when it repeats the text of one within the duplicate window; ...
THEOREM RepeatsRefused == Spec => []NoRepeatedText
<1>1. RateInv => NoRepeatedText
  BY DEF RateInv, AdmittedInv, Admitted, TextNew, NoRepeatedText
<1>2. QED
  BY RatesInvariant, <1>1, PTL

\* ... and one that resembles an earlier text waits for approval when its own
\* signals make up the rest of the score.
THEOREM SimilarHeld == Spec => []SimilarTextsWait
<1>1. RateInv => SimilarTextsWait
  BY DEF RateInv, AdmittedInv, Admitted, SimilarWaits, SimilarTextsWait
<1>2. QED
  BY RatesInvariant, <1>1, PTL
-----------------------------------------------------------------------------
(***************************************************************************)
(* Mutes.  The mute of an offence is in the table, and ends no earlier     *)
(* than MuteDuration after it, until it has run out or is lifted; ...      *)
(***************************************************************************)
Served(a, t) == t >= a.at + Comments.MuteDuration

Muted(a) ==
    \/ \E m \in mutes : m.ip = a.ip /\ m.until >= a.at + Comments.MuteDuration
    \/ Served(a, FormatTime(clock))

OffencesMute ==
    /\ \A a \in log : a.at <= FormatTime(clock)
    /\ \A a \in log : Offence(log, a) /\ pardoned[a.ip] < a.at => Muted(a)

\* ... so whoever passes CheckMute has no earlier offence to answer for.
Clean(r, t) ==
    \A a \in earlier[r] :
        a.ip = submission[r].ip /\ Offence(earlier[r], a) /\ pardoned[a.ip] < a.at => Served(a, t)

Unmuted ==
    {"screen", "honeypot", "post", "parent", "consume", "assess", "limited", "create"}

PassedClean ==
    \A r \in Requests :
        /\ pc[r] \in Unmuted => Clean(r, FormatTime(clock))
        /\ createdAt[r] # None => Clean(r, createdAt[r])

MuteInv == RateInv /\ OffencesMute /\ PassedClean

\* Whole seconds are added to a stored time as to the time it was made from.
LEMMA WholeSeconds ==
    ASSUME NEW t \in Int, NEW d \in Nat, d % Second = 0
    PROVE  FormatTime(t + d) = FormatTime(t) + d /\ FormatTime(t - d) = FormatTime(t) - d
<1> DEFINE q == t \div Second
           m == t % Second
           k == d \div Second
<1>1. /\ q \in Int /\ k \in Int /\ m \in 0 .. Second - 1
      /\ t = Second * q + m /\ d = Second * k
  BY SecondAssumption
<1>2. ASSUME NEW i \in Int PROVE (Second * i + m) \div Second = i
  BY <1>1, SecondAssumption
<1>3. /\ (t + d) \div Second = q + k /\ (t - d) \div Second = q - k
      /\ Second * (q + k) = Second * q + d /\ Second * (q - k) = Second * q - d
  <2>1. Second * (q + k) = Second * q + Second * k /\ Second * (q - k) = Second * q - Second * k
    BY <1>1, SecondAssumption
  <2>2. t + d = Second * (q + k) + m /\ t - d = Second * (q - k) + m
    BY <2>1, <1>1, SecondAssumption
  <2> HIDE DEF q, m, k
  <2>3. q + k \in Int /\ q - k \in Int
    BY <1>1
  <2>4. QED
    BY <1>1, <1>2, <2>1, <2>2, <2>3
<1>4. QED
  BY <1>1, <1>3 DEF FormatTime

\* The windows and durations of a mute are whole seconds.
LEMMA MuteSettings ==
    /\ Comments.BurstWindow \in Nat /\ Comments.BurstWindow % Second = 0
    /\ Comments.MuteDuration \in Nat /\ Comments.MuteDuration % Second = 0
    /\ Comments.HoneypotMuteThreshold \in Nat /\ Comments.RejectedMuteThreshold \in Nat
BY PolicyAssumption DEF Durations, Thresholds

\* More rows make no offence undone.
LEMMA OffenceGrows ==
    ASSUME NEW big, IsFiniteSet(big), NEW small \in SUBSET big, NEW a, Offence(small, a)
    PROVE  Offence(big, a)
<1> DEFINE mine(rows) == {b \in Since(rows, Comments.BurstWindow, a.at) : b.ip = a.ip}
           traps(rows) == {b \in mine(rows) : b.status = "honeypot" /\ b.at <= a.at}
           refused(rows) == {b \in mine(rows) :
                                /\ b.status \in Refused
                                /\ b.at < a.at \/ (b.at = a.at /\ b.status = "limited")}
<1>1. /\ traps(small) \subseteq traps(big) /\ refused(small) \subseteq refused(big)
      /\ traps(big) \subseteq big /\ refused(big) \subseteq big
  BY DEF Since
<1>2. ASSUME NEW S, NEW B \in SUBSET big, S \subseteq B, NEW n \in Nat, Cardinality(S) >= n
      PROVE  Cardinality(B) >= n
  <2>1. IsFiniteSet(B) /\ IsFiniteSet(S)
    BY <1>2, FS_Subset
  <2>2. Cardinality(S) <= Cardinality(B) /\ Cardinality(S) \in Nat /\ Cardinality(B) \in Nat
    BY <2>1, <1>2, FS_Subset, FS_CardinalityType
  <2>3. QED
    BY <2>2, <1>2
<1>3. \/ /\ a.status = "honeypot"
         /\ Cardinality(traps(small)) >= Comments.HoneypotMuteThreshold
      \/ /\ a.status = "limited"
         /\ Cardinality(refused(small)) >= Comments.RejectedMuteThreshold
  BY DEF Offence
<1>4. \/ /\ a.status = "honeypot"
         /\ Cardinality(traps(big)) >= Comments.HoneypotMuteThreshold
      \/ /\ a.status = "limited"
         /\ Cardinality(refused(big)) >= Comments.RejectedMuteThreshold
  BY <1>1, <1>2, <1>3, MuteSettings
<1>5. QED
  BY <1>4 DEF Offence

\* Lifting or ending a mute aside, a step that writes no attempt keeps them.
LEMMA OffencesKept ==
    ASSUME TypeOK, OffencesMute, UNCHANGED <<clock, log, pardoned>>,
           mutes' \in {mutes, LiveMutes(mutes, clock)}
    PROVE  OffencesMute'
<1>1. ASSUME NEW a \in log, Muted(a) PROVE Muted(a)'
  <2>1. a.at \in Nat /\ FormatTime(clock) \in Nat
    BY FormatTimeNat DEF TypeOK, RowType
  <2>2. CASE Served(a, FormatTime(clock))
    BY <2>2 DEF Muted, Served, FormatTime
  <2>3. CASE \E m \in mutes : m.ip = a.ip /\ m.until >= a.at + Comments.MuteDuration
    <3>1. PICK m \in mutes : m.ip = a.ip /\ m.until >= a.at + Comments.MuteDuration
      BY <2>3
    <3>2. m \in mutes' \/ FormatTime(clock) >= m.until
      BY <2>1 DEF LiveMutes, TypeOK
    <3>3. m \in mutes' \/ Served(a, FormatTime(clock))
      BY <2>1, <3>1, <3>2, MuteSettings DEF Served, TypeOK
    <3>4. QED
      BY <3>1, <3>3 DEF Muted, Served, FormatTime
  <2>4. QED
    BY <1>1, <2>2, <2>3 DEF Muted
<1>2. \A a \in log : Offence(log, a)' <=> Offence(log, a)
  BY DEF Offence, Since, FormatTime
<1>3. QED
  BY <1>1, <1>2 DEF OffencesMute, FormatTime

\* What an offence at this time counts is what the muting transaction counts.
LEMMA CountedRows ==
    ASSUME TypeOK, HistoryInv, HistoryInv', UNCHANGED clock, log \subseteq log',
           NEW b, log' = log \cup {b}, b.at = FormatTime(clock), log' \subseteq RowType,
           attempts' = CleanAttempts(attempts, lastCleanup, clock) \cup {b}
    PROVE  Since(log', Comments.BurstWindow, FormatTime(clock))
              \subseteq Since(attempts', Comments.BurstWindow, clock)
<1> DEFINE w == Comments.BurstWindow
<1>1. /\ FormatTime(clock) \in Nat /\ clock \in Nat
      /\ FormatTime(clock - w) = FormatTime(clock) - w
      /\ FormatTime(FormatTime(clock) - w) = FormatTime(clock) - w
  <2>1. clock \in Nat /\ FormatTime(clock) \in Nat
    BY FormatTimeNat DEF TypeOK
  <2>2. w \in Nat /\ w % Second = 0
    BY MuteSettings
  <2>3. ASSUME NEW t \in Nat PROVE FormatTime(t - w) = FormatTime(t) - w
    <3>1. t \in Int
      OBVIOUS
    <3> HIDE DEF w
    <3>2. QED
      BY <2>2, <3>1, WholeSeconds
  <2>4. FormatTime(FormatTime(clock)) = FormatTime(clock)
    <3>1. clock \div Second \in Int
      BY <2>1, SecondAssumption
    <3>2. \A i \in Int : (Second * i) \div Second = i
      BY SecondAssumption
    <3>3. QED
      BY <3>1, <3>2 DEF FormatTime
  <2>5. QED
    BY <2>1, <2>3, <2>4
<1>2. FormatTime(clock - Retention) <= FormatTime(clock - w)
      /\ FormatTime(clock - Retention) \in Int /\ FormatTime(clock - w) \in Int
  <2>1. clock - Retention \in Int /\ clock - w \in Int /\ clock - Retention <= clock - w
    BY <1>1, RetentionCovers, MuteSettings
  <2> HIDE DEF w
  <2>2. QED
    BY <2>1, FormatTimeMonotone, FormatTimeBelow
<1>3. \A c \in log : c.at >= FormatTime(clock - w) => c \in attempts'
  <2>1. \A c \in log : c.at \in Nat
    BY DEF TypeOK, RowType
  <2>2. QED
    BY <1>2, <2>1, CleaningRemembers DEF HistoryInv
<1>4. QED
  BY <1>1, <1>3 DEF Since

\* The transaction that writes an offence mutes its ip.
LEMMA InsertOffences ==
    ASSUME TypeOK, HistoryInv, HistoryInv', OffencesMute, UNCHANGED <<clock, pardoned>>,
           NEW r \in Requests, pc[r] # "idle",
           NEW st \in Accepted \cup Refused, Insert(r, st),
           IF \/ st = "honeypot" /\ HoneypotMutes(attempts', submission[r].ip, clock)
              \/ st = "limited" /\ RejectionMutes(attempts', submission[r].ip, clock)
           THEN mutes' = UpsertMute(mutes, submission[r].ip, clock)
           ELSE UNCHANGED mutes
    PROVE  OffencesMute'
<1> DEFINE b == Row(r, st)
           ip == submission[r].ip
           now == FormatTime(clock)
           end == [ip |-> ip, until |-> MutedUntil(clock)]
           recent == Since(attempts', Comments.BurstWindow, clock)
<1>1. /\ log' = log \cup {b} /\ b.at = now /\ b.ip = ip /\ b.status = st
      /\ attempts' = CleanAttempts(attempts, lastCleanup, clock) \cup {b}
      /\ log' \subseteq RowType /\ now \in Nat
  BY InsertTypes, FormatTimeNat DEF Insert, Row, TypeOK
<1>2. MutedUntil(clock) = now + Comments.MuteDuration
  <2> DEFINE d == Comments.MuteDuration
  <2>1. clock \in Int /\ d \in Nat /\ d % Second = 0
    BY MuteSettings DEF TypeOK
  <2> HIDE DEF d
  <2>2. FormatTime(clock + d) = FormatTime(clock) + d
    BY <2>1, WholeSeconds
  <2>3. QED
    BY <2>2 DEF MutedUntil, d
<1>3. \A a \in log' : a.at \in Nat /\ a.at <= now
  BY <1>1 DEF OffencesMute, RowType
<1>4. Since(log', Comments.BurstWindow, now) \subseteq recent
  BY <1>1, CountedRows
<1>5. IsFiniteSet(log') /\ IsFiniteSet(recent)
  BY <1>1, FS_Subset, FS_AddElement DEF HistoryInv, Since, CleanAttempts, TypeOK
<1> SUFFICES ASSUME NEW a \in log', Offence(log, a)', pardoned'[a.ip] < a.at
             PROVE  Muted(a)'
  BY <1>3 DEF OffencesMute, FormatTime
<1>a. Offence(log', a) /\ pardoned[a.ip] < a.at
  BY DEF Offence, Since, FormatTime
<1>6. CASE end \in mutes' /\ a.ip = ip
  <2>1. end.ip = a.ip /\ end.until >= a.at + Comments.MuteDuration
    BY <1>1, <1>2, <1>3, <1>6, MuteSettings
  <2> HIDE DEF end
  <2>2. QED
    BY <1>6, <2>1 DEF Muted
<1>7. CASE a \in log /\ Offence(log, a)
  <2>1. Muted(a)
    BY <1>a, <1>7 DEF OffencesMute
  <2>2. CASE Served(a, now)
    BY <2>2 DEF Muted, Served, FormatTime
  <2>3. CASE \E m \in mutes : m.ip = a.ip /\ m.until >= a.at + Comments.MuteDuration
    BY <2>3, <1>6 DEF Muted, UpsertMute
  <2>4. QED
    BY <2>1, <2>2, <2>3 DEF Muted
<1>8. CASE ~(a \in log /\ Offence(log, a))
  <2> DEFINE mine(rows) == {c \in Since(rows, Comments.BurstWindow, a.at) : c.ip = a.ip}
             traps(rows) == {c \in mine(rows) : c.status = "honeypot" /\ c.at <= a.at}
             refused(rows) == {c \in mine(rows) :
                                  /\ c.status \in Refused
                                  /\ c.at < a.at \/ (c.at = a.at /\ c.status = "limited")}
  <2>1. CASE /\ a.status = "honeypot"
             /\ Cardinality(traps(log')) >= Comments.HoneypotMuteThreshold
    <3>1. a = b \/ traps(log) # traps(log')
      BY <1>1, <1>8, <2>1 DEF Offence
    <3>2. a = b \/ b \in traps(log')
      BY <1>1, <3>1 DEF Since
    <3>3. a.ip = ip /\ st = "honeypot" /\ a.at = now
      BY <1>1, <1>3, <2>1, <3>2
    <3>4. traps(log') \subseteq {c \in recent : c.ip = ip /\ c.status = "honeypot"}
      BY <1>4, <3>3
    <3>5. HoneypotMutes(attempts', ip, clock)
      <4> DEFINE B == {c \in recent : c.ip = ip /\ c.status = "honeypot"}
                 A == traps(log')
      <4>1. IsFiniteSet(B) /\ A \subseteq B
        BY <1>5, <3>4, FS_Subset
      <4>2. IsFiniteSet(A)
        BY <4>1, FS_Subset
      <4>3. Cardinality(A) >= Comments.HoneypotMuteThreshold
        BY <2>1
      <4> HIDE DEF A, B
      <4>4. Cardinality(B) >= Comments.HoneypotMuteThreshold
        <5>1. Cardinality(A) <= Cardinality(B) /\ Cardinality(A) \in Nat /\ Cardinality(B) \in Nat
          BY <4>1, <4>2, FS_Subset, FS_CardinalityType
        <5>2. QED
          BY <5>1, <4>3, MuteSettings
      <4>5. QED
        BY <4>4 DEF HoneypotMutes, B
    <3>6. QED
      BY <1>6, <3>3, <3>5 DEF UpsertMute
  <2>2. CASE /\ a.status = "limited"
             /\ Cardinality(refused(log')) >= Comments.RejectedMuteThreshold
    <3>1. a = b \/ refused(log) # refused(log')
      BY <1>1, <1>8, <2>2 DEF Offence
    <3>2. a = b \/ b \in refused(log')
      BY <1>1, <3>1 DEF Since
    <3>3. a.ip = ip /\ st = "limited" /\ a.at = now
      BY <1>1, <1>3, <2>2, <3>2
    <3>4. refused(log') \subseteq {c \in recent : c.ip = ip /\ c.status \in Refused}
      BY <1>4, <3>3
    <3>5. RejectionMutes(attempts', ip, clock)
      <4> DEFINE B == {c \in recent : c.ip = ip /\ c.status \in Refused}
                 A == refused(log')
      <4>1. IsFiniteSet(B) /\ A \subseteq B
        BY <1>5, <3>4, FS_Subset
      <4>2. IsFiniteSet(A)
        BY <4>1, FS_Subset
      <4>3. Cardinality(A) >= Comments.RejectedMuteThreshold
        BY <2>2
      <4> HIDE DEF A, B
      <4>4. Cardinality(B) >= Comments.RejectedMuteThreshold
        <5>1. Cardinality(A) <= Cardinality(B) /\ Cardinality(A) \in Nat /\ Cardinality(B) \in Nat
          BY <4>1, <4>2, FS_Subset, FS_CardinalityType
        <5>2. QED
          BY <5>1, <4>3, MuteSettings
      <4>5. QED
        BY <4>4 DEF RejectionMutes, B
    <3>6. QED
      BY <1>6, <3>3, <3>5 DEF UpsertMute
  <2>3. QED
    BY <1>a, <2>1, <2>2 DEF Offence
<1>9. QED
  BY <1>7, <1>8

\* The mutes are upheld whatever happens.
LEMMA NextOffences == ASSUME RateInv, HistoryInv', OffencesMute, Next PROVE OffencesMute'
<1> USE DEF database, request
<1>1. TypeOK /\ HistoryInv
  BY DEF RateInv
<1>2. ASSUME NEW r \in Requests, Arrive(r) \/ Handle(r) \/ Fail(r) PROVE OffencesMute'
  <2>1. CASE Honeypot(r)
    BY <1>1, <2>1, InsertOffences DEF Honeypot, Penalise, Refused
  <2>2. CASE Limited(r)
    BY <1>1, <2>2, InsertOffences DEF Limited, Penalise, Refused
  <2>3. CASE RecordAttempt(r)
    <3>1. status[r] \in Accepted \cup Refused /\ status[r] \notin {"honeypot", "limited"}
      BY <1>1, <2>3 DEF TypeOK, RecordAttempt, Accepted, Refused
    <3>2. QED
      BY <1>1, <2>3, <3>1, InsertOffences DEF RecordAttempt
  <2>4. CASE Arrive(r) \/ Screen(r) \/ Fail(r)
    BY <1>1, <2>4, OffencesKept DEF Arrive, Screen, Fail
  <2>5. CASE CheckMute(r) \/ FindPost(r) \/ FindParent(r) \/ Consume(r) \/ Assess(r)
             \/ RetryAfter(r) \/ Create(r)
    BY <1>1, <2>5, OffencesKept
       DEF CheckMute, FindPost, FindParent, Consume, Assess, RetryAfter, Create
  <2>6. QED
    BY <1>2, <2>1, <2>2, <2>3, <2>4, <2>5 DEF Handle
<1>3. CASE \E ip \in IPs : Unmute(ip)
  <2>1. PICK ip \in IPs : Unmute(ip)
    BY <1>3
  <2>2. /\ mutes' = {m \in mutes : m.ip # ip} /\ pardoned' = [pardoned EXCEPT ![ip] = clock]
        /\ UNCHANGED <<clock, log>>
    BY <2>1 DEF Unmute
  <2>3. \A a \in log : a.ip \in IPs /\ a.at \in Nat /\ a.at <= clock /\ clock \in Nat
    BY <1>1 DEF TypeOK, HistoryInv, RowType
  <2>4. ASSUME NEW a \in log, Offence(log, a), pardoned'[a.ip] < a.at PROVE Muted(a)'
    <3>1. a.ip # ip /\ pardoned[a.ip] < a.at
      BY <1>1, <2>2, <2>3, <2>4 DEF TypeOK
    <3>2. Muted(a)
      BY <2>4, <3>1 DEF OffencesMute
    <3>3. QED
      BY <2>2, <3>1, <3>2 DEF Muted, Served, FormatTime
  <2>5. \A a \in log : Offence(log, a)' <=> Offence(log, a)
    BY <2>2 DEF Offence, Since, FormatTime
  <2>6. QED
    BY <2>2, <2>4, <2>5 DEF OffencesMute, FormatTime
<1>4. CASE Tick
  <2>1. clock' = clock + 1 /\ UNCHANGED <<log, mutes, pardoned>> /\ clock \in Nat
    BY <1>1, <1>4 DEF Tick, TypeOK
  <2>2. /\ FormatTime(clock) <= FormatTime(clock + 1)
        /\ FormatTime(clock) \in Nat /\ FormatTime(clock + 1) \in Nat
    BY <2>1, FormatTimeMonotone, FormatTimeNat
  <2>3. \A a \in log : a.at \in Nat
    BY <1>1 DEF TypeOK, RowType
  <2>4. ASSUME NEW a \in log, Muted(a)
        PROVE  \/ \E m \in mutes : m.ip = a.ip /\ m.until >= a.at + Comments.MuteDuration
               \/ Served(a, FormatTime(clock + 1))
    BY <2>2, <2>3, <2>4, MuteSettings DEF Muted, Served
  <2>5. \A a \in log : Muted(a) => Muted(a)'
    BY <2>1, <2>4 DEF Muted, Served, FormatTime
  <2>6. \A a \in log : Offence(log, a)' <=> Offence(log, a)
    BY <2>1 DEF Offence, Since, FormatTime
  <2>7. FormatTime(clock)' = FormatTime(clock + 1)
    BY <2>1 DEF FormatTime
  <2>8. \A a \in log : a.at <= FormatTime(clock + 1)
    BY <2>2, <2>3 DEF OffencesMute
  <2>9. QED
    BY <2>1, <2>5, <2>6, <2>7, <2>8 DEF OffencesMute
<1>5. CASE (\E t \in Tokens : Issue(t)) \/ Restart
           \/ (Administer /\ ~\E ip \in IPs : Unmute(ip))
  BY <1>1, <1>5, OffencesKept DEF Issue, Restart, Administer, SetStatus, DeleteComment, DeletePost
<1>6. QED
  BY <1>2, <1>3, <1>4, <1>5 DEF Next, Step, Administer

\* A pardon of now only narrows what is to be served, as time does.
LEMMA CleanLater ==
    ASSUME TypeOK, TypeOK', NEW r \in Requests, NEW t \in Nat, NEW u \in Nat, t <= u, Clean(r, t),
           UNCHANGED <<submission[r], earlier[r]>>,
           \A a \in earlier[r] : pardoned'[a.ip] < a.at => pardoned[a.ip] < a.at
    PROVE  \A a \in earlier'[r] :
              a.ip = submission'[r].ip /\ Offence(earlier'[r], a) /\ pardoned'[a.ip] < a.at
                 => Served(a, u)
<1>1. \A a \in earlier[r] : a.at \in Nat
  BY DEF TypeOK, RowType
<1>2. QED
  BY <1>1, MuteSettings DEF Clean, Served

\* Pardons are of now, and what has been recorded is not from later.
LEMMA PardonsNarrow ==
    ASSUME TypeOK, HistoryInv, Next
    PROVE  \A a \in log : pardoned'[a.ip] < a.at => pardoned[a.ip] < a.at
<1>1. \/ UNCHANGED pardoned
      \/ \E ip \in IPs : pardoned' = [pardoned EXCEPT ![ip] = clock]
  BY DEF Next, Step, Administer, Handle, Arrive, CheckMute, Screen, FindPost, FindParent, Consume,
         Assess, Honeypot, Limited, Penalise, RetryAfter, Create, RecordAttempt, Fail, Issue,
         SetStatus, DeleteComment, DeletePost, Unmute, Tick, Restart
<1>2. \A a \in log : a.ip \in IPs /\ a.at \in Nat /\ a.at <= clock /\ clock \in Nat
  BY DEF TypeOK, HistoryInv, RowType
<1>3. QED
  BY <1>1, <1>2 DEF TypeOK

\* Whoever passes CheckMute has no mute in force, hence nothing to serve.
LEMMA CheckMuteClean ==
    ASSUME RateInv, OffencesMute, NEW r \in Requests, CheckMute(r), pc'[r] # "record"
    PROVE  Clean(r, FormatTime(clock))
<1>1. TypeOK /\ IsFiniteSet(log) /\ earlier[r] \subseteq log
  BY DEF RateInv, HistoryInv, TypeOK
<1>2. ~IsMuted(mutes, submission[r].ip, clock)
  BY <1>1 DEF CheckMute, Conclude, Goto, TypeOK
<1> SUFFICES ASSUME NEW a \in earlier[r], a.ip = submission[r].ip, Offence(earlier[r], a),
                    pardoned[a.ip] < a.at
             PROVE  Served(a, FormatTime(clock))
  BY DEF Clean
<1>3. Muted(a)
  BY <1>1, OffenceGrows DEF OffencesMute
<1>4. a.at \in Nat /\ FormatTime(clock) \in Nat
  BY <1>1, FormatTimeNat DEF TypeOK, RowType
<1>5. ASSUME NEW m \in mutes, m.ip = a.ip, m.until >= a.at + Comments.MuteDuration
      PROVE  Served(a, FormatTime(clock))
  <2>1. ~(m.until > FormatTime(clock)) /\ m.until \in Nat
    BY <1>1, <1>2, <1>5 DEF IsMuted, LiveMutes, TypeOK
  <2>2. QED
    BY <1>4, <1>5, <2>1, MuteSettings DEF Served
<1>6. QED
  BY <1>3, <1>5 DEF Muted

\* No request goes past the mute check except by that check, and a comment is
\* stored at a time at which its request was clean.
LEMMA NextPassed ==
    ASSUME RateInv, TypeOK', OffencesMute, PassedClean, Next
    PROVE  PassedClean'
<1>1. TypeOK /\ HistoryInv /\ AdmittedInv
  BY DEF RateInv
<1>2. ASSUME NEW r \in Requests
      PROVE  /\ pc'[r] \in Unmuted =>
                   \/ pc[r] \in Unmuted /\ UNCHANGED <<submission[r], earlier[r]>>
                   \/ CheckMute(r) /\ pc'[r] # "record" /\ UNCHANGED <<submission, earlier, clock, pardoned>>
             /\ createdAt'[r] # None => UNCHANGED <<submission[r], earlier[r]>>
             /\ createdAt'[r] # createdAt[r] => createdAt'[r] = clock /\ pc[r] \in Unmuted
  <2> USE <1>1 DEF database, request, Goto, Conclude, Unmuted, TypeOK, AdmittedInv
  <2>1. CASE \E q \in Requests : Arrive(q)
    BY <2>1 DEF Arrive
  <2>2. CASE \E q \in Requests : CheckMute(q)
    BY <2>2 DEF CheckMute
  <2>3. CASE \E q \in Requests : Screen(q) \/ FindPost(q) \/ FindParent(q)
    BY <2>3 DEF Screen, FindPost, FindParent
  <2>4. CASE \E q \in Requests : Consume(q) \/ Assess(q)
    BY <2>4 DEF Consume, Assess
  <2>5. CASE \E q \in Requests : Honeypot(q) \/ Limited(q) \/ RetryAfter(q) \/ RecordAttempt(q)
    BY <2>5 DEF Honeypot, Limited, Penalise, RetryAfter, RecordAttempt
  <2>6. CASE \E q \in Requests : Create(q)
    BY <2>6 DEF Create
  <2>7. CASE \E q \in Requests : Fail(q)
    BY <2>7 DEF Fail
  <2>8. CASE (\E t \in Tokens : Issue(t)) \/ Administer \/ Tick \/ Restart
    BY <2>8 DEF Issue, Administer, SetStatus, DeleteComment, DeletePost, Unmute, Tick, Restart
  <2> HIDE <1>1
  <2>9. QED
    BY <2>1, <2>2, <2>3, <2>4, <2>5, <2>6, <2>7, <2>8 DEF Next, Step, Handle
<1>3. /\ clock \in Nat /\ clock' \in Nat /\ FormatTime(clock) \in Nat /\ FormatTime(clock') \in Nat
      /\ FormatTime(clock) <= FormatTime(clock') /\ FormatTime(clock) <= clock
  <2>1. clock' \in {clock, clock + 1}
    BY DEF Next, Step, Administer, Handle, Arrive, CheckMute, Screen, FindPost, FindParent,
           Consume, Assess, Honeypot, Limited, Penalise, RetryAfter, Create, RecordAttempt, Fail,
           Issue, SetStatus, DeleteComment, DeletePost, Unmute, Tick, Restart
  <2>2. clock \in Nat /\ clock' \in Nat /\ clock <= clock'
    BY <1>1, <2>1 DEF TypeOK
  <2>3. FormatTime(clock) \in Nat /\ FormatTime(clock') \in Nat
    BY <2>2, FormatTimeNat
  <2>4. FormatTime(clock) <= FormatTime(clock')
    BY <2>2, FormatTimeMonotone
  <2>5. FormatTime(clock) <= clock
    BY <2>2, FormatTimeBelow
  <2>6. QED
    BY <2>2, <2>3, <2>4, <2>5
<1>4. \A r \in Requests : \A a \in earlier[r] : pardoned'[a.ip] < a.at => pardoned[a.ip] < a.at
  BY <1>1, PardonsNarrow DEF TypeOK
<1>5. ASSUME NEW r \in Requests, pc'[r] \in Unmuted PROVE Clean(r, FormatTime(clock))'
  <2>1. Clean(r, FormatTime(clock)) /\ UNCHANGED <<submission[r], earlier[r]>>
    BY <1>2, <1>5, CheckMuteClean DEF PassedClean
  <2>2. FormatTime(clock)' = FormatTime(clock')
    BY DEF FormatTime
  <2>3. \A a \in earlier'[r] :
           a.ip = submission'[r].ip /\ Offence(earlier'[r], a) /\ pardoned'[a.ip] < a.at
              => Served(a, FormatTime(clock'))
    BY <1>1, <1>3, <1>4, <2>1, CleanLater
  <2>4. QED
    BY <2>2, <2>3 DEF Clean, Offence, Since, Served, FormatTime
<1>6. ASSUME NEW r \in Requests, createdAt'[r] # None PROVE Clean(r, createdAt[r])'
  <2>1. createdAt'[r] \in Nat /\ UNCHANGED <<submission[r], earlier[r]>>
    BY <1>2, <1>6 DEF TypeOK
  <2>2. \E t \in Nat : t <= createdAt'[r] /\ Clean(r, t)
    BY <1>2, <1>3, <1>6, <2>1 DEF PassedClean
  <2>3. \A a \in earlier'[r] :
           a.ip = submission'[r].ip /\ Offence(earlier'[r], a) /\ pardoned'[a.ip] < a.at
              => Served(a, createdAt'[r])
    BY <1>1, <1>4, <2>1, <2>2, CleanLater
  <2>4. QED
    BY <2>3 DEF Clean, Offence, Since, Served, FormatTime
<1>7. QED
  BY <1>5, <1>6 DEF PassedClean

(***************************************************************************)
(* A request that arrives after an offence of its ip stores no comment     *)
(* until the mute for it would be over, unless the administrator lifted    *)
(* it: no later offence, cleanup, failure or restart shortens a mute, and  *)
(* the threshold is never missed because rows were cleaned away.           *)
(***************************************************************************)
THEOREM MutesUpheld == Spec => []MutesHold
<1>1. Init => MuteInv
  <2> SUFFICES ASSUME Init PROVE MuteInv
    OBVIOUS
  <2>1. OffencesMute /\ PassedClean
    BY DEF Init, OffencesMute, PassedClean, Unmuted
  <2>2. QED
    BY <2>1, InitRates DEF MuteInv
<1>2. MuteInv /\ [Next]_vars => MuteInv'
  <2>1. MuteInv /\ Next => MuteInv'
    <3> SUFFICES ASSUME MuteInv, Next PROVE MuteInv'
      OBVIOUS
    <3>1. RateInv'
      <4>1. TypeOK'
        BY HandlerTypes, OtherTypes DEF Next, Step, MuteInv, RateInv
      <4>2. QED
        BY <4>1, NextHistory, NextAdmitted DEF MuteInv, RateInv
    <3>2. OffencesMute' /\ PassedClean'
      BY <3>1, NextOffences, NextPassed DEF MuteInv, RateInv
    <3>3. QED
      BY <3>1, <3>2 DEF MuteInv
  <2>2. MuteInv /\ UNCHANGED vars => MuteInv'
    <3> SUFFICES ASSUME MuteInv, UNCHANGED vars PROVE MuteInv'
      OBVIOUS
    <3>1. RateInv'
      BY HistoryFrame, AdmittedFrame DEF MuteInv, RateInv, TypeOK, vars, database, request
    <3>2. OffencesMute'
      BY OffencesKept DEF MuteInv, RateInv, vars, database, request
    <3>3. PassedClean'
      BY DEF MuteInv, PassedClean, Clean, Offence, Since, Served, FormatTime, vars, database,
             request
    <3>4. QED
      BY <3>1, <3>2, <3>3 DEF MuteInv
  <2>3. QED
    BY <2>1, <2>2
<1>3. MuteInv => MutesHold
  BY DEF MuteInv, PassedClean, Clean, Served, MutesHold
<1>4. QED
  BY <1>1, <1>2, <1>3, PTL DEF Spec
=============================================================================
