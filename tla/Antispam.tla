------------------------------ MODULE Antispam ------------------------------
(***************************************************************************)
(* The anti-spam service (backend/internal/antispam): what each of its     *)
(* operations reads from and makes of the tables comment_challenge_uses,   *)
(* comment_attempts and comment_mutes.  The tables are arguments here; the *)
(* handler that calls the operations is CommentSubmission.                 *)
(*                                                                         *)
(*   uses      set of [token, post, at]                                    *)
(*   attempts  set of [req, ip, post, status, text, at]: req, the request  *)
(*             that wrote the row, stands for its key; the rows the        *)
(*             honeypot wrote and those of a rate limit are told apart by  *)
(*             their reason in the code, by the statuses "honeypot" and    *)
(*             "limited" here; both count as rejected                      *)
(*   mutes     set of [ip, until], one row at most for an ip               *)
(*                                                                         *)
(* Every `at' and `until' is a stored time.                                *)
(***************************************************************************)
EXTENDS Timestamps, FiniteSets

CONSTANTS
    Comments,    \* config.Comments, a record named after the Go struct, with
                 \* the constant hour between two cleanups as CleanupInterval
    Fingerprint  \* [Texts -> value]: alike texts have one fingerprint

Durations ==
    {"ChallengeTTL", "ChallengeClockSkew", "Cooldown", "BurstWindow", "DuplicateWindow",
     "PostRateLimitWindow", "GlobalRateLimitWindow", "AttemptsTTL", "MuteDuration",
     "CleanupInterval"}

Thresholds ==
    {"BurstMax", "PostRateLimitMax", "GlobalRateLimitMax", "HoneypotMuteThreshold",
     "RejectedMuteThreshold"}

\* config.go accepts positive integers only, durations in whole seconds.
ASSUME PolicyAssumption ==
    /\ DOMAIN Comments = Durations \cup Thresholds
    /\ \A d \in Durations : Comments[d] \in Nat \ {0} /\ Comments[d] % Second = 0
    /\ \A t \in Thresholds : Comments[t] \in Nat \ {0}

-----------------------------------------------------------------------------
(***************************************************************************)
(* Challenges.  A token is the signed triple of a post, the second it was  *)
(* issued in and a nonce; nothing is stored when it is issued.             *)
(***************************************************************************)
IssueChallenge(post, now) == [post |-> post, issuedAt |-> FormatTime(now)]

VerifyChallenge(challenge, post, now) ==
    /\ challenge.post = post
    /\ challenge.issuedAt <= now + Comments.ChallengeClockSkew
    /\ now - challenge.issuedAt <= Comments.ChallengeTTL

\* The record of a use forgotten after one TTL.
PurgeUsesEarly(uses, now) ==
    {u \in uses : u.at >= FormatTime(now - Comments.ChallengeTTL)}

PurgeUses(uses, now) ==
    {u \in uses : u.at >= FormatTime(now - 2 * Comments.ChallengeTTL)}

\* ConsumeChallenge finds the token used and rolls back, or uses it.
Replayed(uses, token, post, now) ==
    \E u \in PurgeUses(uses, now) : u.token = token /\ u.post = post

ConsumeChallenge(uses, token, post, now) ==
    PurgeUses(uses, now) \cup {[token |-> token, post |-> post, at |-> FormatTime(now)]}

-----------------------------------------------------------------------------
(***************************************************************************)
(* Attempts.  cleanupAttempts keeps what any window may still count.       *)
(***************************************************************************)
\* Without regard to the windows.
RetentionOfTTL == Comments.AttemptsTTL

Retention ==
    LET kept == {Comments.AttemptsTTL, Comments.BurstWindow, Comments.DuplicateWindow,
                 Comments.PostRateLimitWindow, Comments.GlobalRateLimitWindow}
    IN  CHOOSE d \in kept : \A e \in kept : e <= d

CleanupDue(lastCleanup, now) == now >= lastCleanup + Comments.CleanupInterval

\* The retention is not subtracted.
CleanUpToNow(attempts, lastCleanup, now) ==
    IF CleanupDue(lastCleanup, now)
    THEN {a \in attempts : a.at >= FormatTime(now)}
    ELSE attempts

CleanAttempts(attempts, lastCleanup, now) ==
    IF CleanupDue(lastCleanup, now)
    THEN {a \in attempts : a.at >= FormatTime(now - Retention)}
    ELSE attempts

Accepted == {"visible", "pending"}

Refused == {"rejected", "muted", "honeypot", "limited"}

Since(rows, window, now) == {a \in rows : a.at >= FormatTime(now - window)}

\* The rows behind each figure of Stats, for a submission s.
AttemptStats(attempts, s, now) ==
    LET mine == {a \in attempts : a.ip = s.ip}
        accepted == {a \in attempts : a.status \in Accepted}
        onPost == {a \in accepted : a.post = s.post}
        alike == Since(mine \cap onPost, Comments.DuplicateWindow, now)
    IN  [last |-> {a \in mine : \A b \in mine : b.at <= a.at},
         ipRecent |-> Since(mine, Comments.BurstWindow, now),
         ipRejected |-> {a \in Since(mine, Comments.BurstWindow, now) : a.status \in Refused},
         postRecent |-> Since(onPost, Comments.PostRateLimitWindow, now),
         globalRecent |-> Since(accepted, Comments.GlobalRateLimitWindow, now),
         duplicate |-> {a \in alike : a.text = s.text},
         fingerprint |-> {a \in alike : /\ a.text # s.text
                                        /\ Fingerprint[a.text] = Fingerprint[s.text]}]

\* A quota is refused one attempt too late.
RateLimitLoose(stats, now) ==
    \/ \E a \in stats.last : now - a.at < Comments.Cooldown
    \/ Cardinality(stats.ipRecent) > Comments.BurstMax
    \/ Cardinality(stats.postRecent) > Comments.PostRateLimitMax
    \/ Cardinality(stats.globalRecent) > Comments.GlobalRateLimitMax
    \/ stats.duplicate # {}

RateLimit(stats, now) ==
    \/ \E a \in stats.last : now - a.at < Comments.Cooldown
    \/ Cardinality(stats.ipRecent) >= Comments.BurstMax
    \/ Cardinality(stats.postRecent) >= Comments.PostRateLimitMax
    \/ Cardinality(stats.globalRecent) >= Comments.GlobalRateLimitMax
    \/ stats.duplicate # {}

(***************************************************************************)
(* Moderate adds the signals of the request source and the text, their sum *)
(* the submission's own `signals', to those of the history.                *)
(***************************************************************************)
Moderate(signals, stats) ==
    LET similar == IF stats.fingerprint # {} THEN 3 ELSE 0
        nearBurst == IF /\ Cardinality(stats.ipRecent) >= 2
                        /\ Cardinality(stats.ipRecent) >= Comments.BurstMax - 2
                     THEN 2 ELSE 0
        rejections == IF Cardinality(stats.ipRejected) >= 3 THEN 3 ELSE 0
    IN  IF signals + similar + nearBurst + rejections >= 5 THEN "pending" ELSE "visible"

-----------------------------------------------------------------------------
(***************************************************************************)
(* Mutes.  A muting transaction inserts its attempt first and counts it.   *)
(***************************************************************************)
HoneypotMutes(attempts, ip, now) ==
    Cardinality({a \in Since(attempts, Comments.BurstWindow, now) :
                     a.ip = ip /\ a.status = "honeypot"}) >= Comments.HoneypotMuteThreshold

RejectionMutes(attempts, ip, now) ==
    Cardinality({a \in Since(attempts, Comments.BurstWindow, now) :
                     a.ip = ip /\ a.status \in Refused}) >= Comments.RejectedMuteThreshold

MutedUntil(now) == FormatTime(now + Comments.MuteDuration)

\* A mute in force is not extended.
UpsertMuteOnce(mutes, ip, now) ==
    IF \E m \in mutes : m.ip = ip THEN mutes
    ELSE mutes \cup {[ip |-> ip, until |-> MutedUntil(now)]}

UpsertMute(mutes, ip, now) ==
    {m \in mutes : m.ip # ip} \cup {[ip |-> ip, until |-> MutedUntil(now)]}

\* ActiveMute deletes every mute that has run out, then looks ip up.
LiveMutes(mutes, now) == {m \in mutes : m.until > FormatTime(now)}

IsMuted(mutes, ip, now) == \E m \in LiveMutes(mutes, now) : m.ip = ip
=============================================================================
