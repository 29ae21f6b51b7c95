------------------------- MODULE MCCommentSubmission -------------------------
(***************************************************************************)
(* Instances of CommentSubmission for TLC.  Each run has its own policy,   *)
(* submissions and initial comments, which leave in play what the run is   *)
(* about; nothing else is restricted.                                      *)
(***************************************************************************)
EXTENDS CommentSubmission, TLC

CONSTANTS r1, r2, r3, old, reply, p1, p2, t1, t2, t3, a, b, x, y

OnlyRequests == Permutations(Requests)

Interchangeable == Permutations(Requests) \cup Permutations(Tokens)

\* A policy that limits nothing within the bounds of the runs.
Lenient ==
    [ChallengeTTL |-> 20, ChallengeClockSkew |-> 1, Cooldown |-> 1,
     BurstWindow |-> 1, BurstMax |-> 9, DuplicateWindow |-> 1,
     PostRateLimitWindow |-> 1, PostRateLimitMax |-> 9,
     GlobalRateLimitWindow |-> 1, GlobalRateLimitMax |-> 9,
     AttemptsTTL |-> 1, MuteDuration |-> 1,
     HoneypotMuteThreshold |-> 9, RejectedMuteThreshold |-> 9,
     CleanupInterval |-> 20]

Distinct == [t \in {x, y} |-> t]

Alike == [t \in {x, y} |-> x]

\* A well-formed submission that raises no suspicion.
Plain(ip, post, parent, text, token) ==
    [ip |-> ip, post |-> post, parent |-> parent, text |-> text, token |-> token,
     form |-> "valid", signals |-> 0]

EmptyBoard == {{}}

-----------------------------------------------------------------------------
\* Two requests with one token; a second lasts two ticks.
TokenPolicy ==
    [Lenient EXCEPT !.ChallengeTTL = 4, !.ChallengeClockSkew = 2, !.Cooldown = 2,
                    !.BurstWindow = 2, !.DuplicateWindow = 2, !.PostRateLimitWindow = 2,
                    !.GlobalRateLimitWindow = 2, !.AttemptsTTL = 2, !.MuteDuration = 2]

TokenSubmissions ==
    {Plain(ip, post, None, x, t1) : ip \in {a, b}, post \in {p1, p2}}

-----------------------------------------------------------------------------
\* Two requests and the history between them.
RatePolicy ==
    [Lenient EXCEPT !.Cooldown = 2, !.BurstWindow = 2, !.DuplicateWindow = 3,
                    !.PostRateLimitWindow = 2, !.GlobalRateLimitWindow = 2,
                    !.AttemptsTTL = 2, !.CleanupInterval = 1]

RateSubmissions ==
    UNION {{Plain(ip, post, None, x, t), [Plain(ip, post, None, y, t) EXCEPT !.signals = 2]} :
               ip \in {a, b}, post \in {p1, p2}, t \in Tokens}

-----------------------------------------------------------------------------
\* Three requests under quotas of two, with traps and rejections that mute.
LimitPolicy ==
    [Lenient EXCEPT !.BurstWindow = 2, !.BurstMax = 2, !.PostRateLimitMax = 2,
                    !.GlobalRateLimitMax = 2, !.MuteDuration = 2, !.HoneypotMuteThreshold = 1,
                    !.RejectedMuteThreshold = 2, !.CleanupInterval = 1]

LimitSubmissions ==
    UNION {{Plain(a, p1, None, x, t), [Plain(a, p1, None, x, t) EXCEPT !.form = "honeypot"],
            [Plain(a, p1, None, x, t) EXCEPT !.form = "bad_content"],
            Plain(b, p1, None, x, t)} : t \in Tokens}

\* Either valid requests of two clients, with a challenge for each, or requests
\* of one client, which may spring the trap, with one challenge among them.
LimitScenes ==
    LET sent == {submission[r] : r \in Requests} \ {None}
    IN  /\ \A t \in Tokens : challenge[t] # None
        /\ \/ clock <= 2 /\ \A s \in sent : s.form = "valid"
           \/ \A s, q \in sent : s.ip = a /\ s.token = q.token

-----------------------------------------------------------------------------
\* Replies, while posts and comments are moderated and deleted.
ThreadSubmissions ==
    {Plain(a, post, parent, x, t1) : post \in {p1, p2}, parent \in {r1, r2, old}}
        \cup {[Plain(b, p1, None, y, t1) EXCEPT !.signals = 5]}

ThreadBoards ==
    {{[id |-> old, post |-> p1, parent |-> None, status |-> "visible"],
      [id |-> reply, post |-> p1, parent |-> old, status |-> "visible"]}}
=============================================================================
