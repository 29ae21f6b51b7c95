----------------------------- MODULE CommentForm -----------------------------
(***************************************************************************)
(* The comment form of a post (frontend/app/components/PostComments.vue:   *)
(* prepare, prepareOnFocus, submit) and of the server what it depends on:  *)
(* the challenge it fetches, keeps while the reader writes and spends      *)
(* (backend/internal/antispam: IssueChallenge, VerifyChallenge,            *)
(* ConsumeChallenge).  Answers take their time or never come; the reader   *)
(* may focus the form again meanwhile.                                     *)
(***************************************************************************)
EXTENDS Integers, Sequences

CONSTANTS
    Second,     \* instants in a second, for the server counts in seconds
    Ttl,        \* instants a challenge is good for, whole seconds
    MaxTime,    \* bound: the last instant
    MaxTokens,  \* bound: challenges the server issues
    MaxTexts    \* bound: comments the reader writes

ASSUME CommentFormAssumption ==
    /\ Second \in Nat \ {0} /\ Ttl \in Nat \ {0} /\ Ttl % Second = 0
    /\ MaxTime \in Nat /\ MaxTokens \in Nat /\ MaxTexts \in Nat

Tokens == 1 .. MaxTokens
Texts == 1 .. MaxTexts

\* No token, no text.
None == 0

VARIABLES
    now,
    issued,     \* the challenges in the order of issue: when each was made
    used,       \* the challenges that the server consumed
    stored,     \* the comments that the server stored
    challenge,  \* the challenge the form keeps, or None
    received,   \* when it was received: expires is Ttl later
    preparing,  \* the request for a challenge: "none", "asked", or its answer
    sending,    \* "no", or the await that submit is in
    content,    \* the comment in the form, or None
    written,    \* history: how many comments were written
    post,       \* the request that carries the comment
    feedback,
    refusals    \* history: challenges refused, and whether the network was slow

server == <<issued, used, stored>>
formVars == <<now, server, challenge, received, preparing, sending, content, written,
          post, feedback, refusals>>

NoPost == [token |-> None, at |-> 0, delay |-> 0, answer |-> "none"]

FormInit ==
    /\ now = 0
    /\ issued = <<>> /\ used = {} /\ stored = {}
    /\ challenge = None /\ received = 0
    /\ preparing = "none"
    /\ sending = "no" /\ content = None /\ written = 0
    /\ post = NoPost /\ feedback = "none" /\ refusals = {}

Tick ==
    /\ now < MaxTime
    /\ now' = now + 1
    /\ UNCHANGED <<server, challenge, received, preparing, sending, content, written,
                   post, feedback, refusals>>

\* The reader writes; the fields are disabled while the form is sent.
Write ==
    /\ sending = "no" /\ content = None /\ written < MaxTexts
    /\ written' = written + 1 /\ content' = written + 1
    /\ UNCHANGED <<now, server, challenge, received, preparing, sending, post, feedback, refusals>>

-----------------------------------------------------------------------------
\* The whole lifetime is used, to its last second.
FreshToTheEnd == challenge # None /\ now < received + Ttl
\* prepare: the form's challenge is good for another second at least.
Fresh == challenge # None /\ now < received + Ttl - Second

\* prepare: one request at a time, which every caller awaits.
Ask == preparing' = IF preparing = "none" THEN "asked" ELSE preparing

\* prepareOnFocus.
Focus ==
    /\ ~Fresh /\ Ask
    /\ UNCHANGED <<now, server, challenge, received, sending, content, written, post, feedback, refusals>>

\* submit: the comment goes out with the challenge, taken after the await.
Send(token, delay) ==
    /\ sending' = "post"
    /\ post' = [token |-> token, at |-> now, delay |-> delay, answer |-> "none"]

Submit ==
    /\ sending = "no" /\ content # None
    /\ feedback' = "none"
    /\ \/ /\ Fresh
          /\ Send(challenge, received - issued[challenge])
          /\ UNCHANGED preparing
       \/ /\ ~Fresh /\ Ask
          /\ sending' = "prepare"
          /\ UNCHANGED post
    /\ UNCHANGED <<now, server, challenge, received, content, written, refusals>>

\* The server answers the request for a challenge, ...
Issue ==
    /\ preparing = "asked" /\ Len(issued) < MaxTokens
    /\ issued' = Append(issued, now)
    /\ preparing' = "answered"
    /\ UNCHANGED <<now, used, stored, challenge, received, sending, content, written,
                   post, feedback, refusals>>

\* The form keeps the answer, but the submission that waits for it is forgotten.
ReceiveAlone ==
    /\ preparing = "answered"
    /\ preparing' = "none"
    /\ challenge' = Len(issued) /\ received' = now
    /\ UNCHANGED <<now, server, sending, post, content, written, feedback, refusals>>
\* ... and the form keeps the answer, and goes on when it waits for it.
Receive ==
    /\ preparing = "answered"
    /\ preparing' = "none"
    /\ challenge' = Len(issued) /\ received' = now
    /\ \/ sending = "prepare" /\ Send(Len(issued), now - issued[Len(issued)])
       \/ sending # "prepare" /\ UNCHANGED <<sending, post>>
    /\ UNCHANGED <<now, server, content, written, feedback, refusals>>

\* The form failed: the error is shown and submit's finally clears up.
End == sending' = "no" /\ post' = NoPost /\ challenge' = None

NotPrepared ==
    /\ preparing # "none"
    /\ preparing' = "none"
    /\ feedback' = "error"
    /\ \/ sending = "prepare" /\ End
       \/ sending # "prepare" /\ UNCHANGED <<sending, post, challenge>>
    /\ UNCHANGED <<now, server, received, content, written, refusals>>

-----------------------------------------------------------------------------
Age(token) == now - (issued[token] - (issued[token] % Second))

Answer(reason) ==
    /\ post' = [post EXCEPT !.answer = reason]
    /\ refusals' = IF reason \in {"stored", "refused"} THEN refusals
                   ELSE refusals \cup {[reason |-> reason, slow |-> post.delay + (now - post.at) > 0]}

\* The server checks the challenge, consumes it and decides about the comment.
ServeForm ==
    /\ sending = "post" /\ post.answer = "none"
    /\ \/ Age(post.token) > Ttl /\ Answer("expired") /\ UNCHANGED <<used, stored>>
       \/ Age(post.token) <= Ttl /\ post.token \in used /\ Answer("replay") /\ UNCHANGED <<used, stored>>
       \/ /\ Age(post.token) <= Ttl /\ post.token \notin used
          /\ \/ Answer("refused") /\ used' \in {used, used \cup {post.token}} /\ UNCHANGED stored
             \/ Answer("stored") /\ used' = used \cup {post.token} /\ stored' = stored \cup {content}
    /\ UNCHANGED <<now, issued, challenge, received, preparing, sending, content, written, feedback>>

\* The text leaves the form when the server has it; else it stays for another try.
Cleared == content' = IF post.answer = "stored" THEN None ELSE content

\* The answer arrives; a visible comment is awaited in the list as well.
AnsweredForm ==
    /\ sending = "post" /\ post.answer # "none"
    /\ Cleared
    /\ feedback' = IF post.answer = "stored" THEN "posted" ELSE "error"
    /\ \/ post.answer = "stored" /\ sending' = "refresh" /\ post' = NoPost /\ UNCHANGED challenge
       \/ End
    /\ UNCHANGED <<now, server, received, preparing, written, refusals>>

\* The request or its answer is lost: fetch rejects.
Lost ==
    /\ sending = "post"
    /\ feedback' = "error" /\ End
    /\ UNCHANGED <<now, server, received, preparing, content, written, refusals>>

\* The comments were loaded again, or that failed; useAsyncData does not throw.
Refreshed ==
    /\ sending = "refresh" /\ End
    /\ UNCHANGED <<now, server, received, preparing, content, written, feedback, refusals>>

Preparation == Issue \/ Receive \/ NotPrepared
Submission == ServeForm \/ AnsweredForm \/ Lost \/ Refreshed

FormNext == Tick \/ Write \/ Focus \/ Submit \/ Preparation \/ Submission

\* The browser ends every fetch, with an answer or an error; submit passes no
\* timeout of its own.
FormFairness == WF_formVars(Preparation) /\ WF_formVars(Submission)

FormSpec == FormInit /\ [][FormNext]_formVars /\ FormFairness

-----------------------------------------------------------------------------
FormTypeOK ==
    /\ now \in 0 .. MaxTime
    /\ issued \in Seq(0 .. MaxTime) /\ Len(issued) <= MaxTokens
    /\ used \subseteq 1 .. Len(issued) /\ stored \subseteq Texts
    /\ challenge \in 0 .. Len(issued) /\ received \in 0 .. now
    /\ preparing \in {"none", "asked", "answered"}
    /\ sending \in {"no", "prepare", "post", "refresh"}
    /\ sending = "prepare" => preparing # "none"
    /\ sending = "post" => post.token \in Tokens /\ content # None
    /\ feedback \in {"none", "posted", "error"}

(***************************************************************************)
(* The server never calls an honest reader's challenge a replay: the form  *)
(* sends each challenge once, whatever the fate of the comment it went     *)
(* with and whatever requests for challenges are under way (submit's       *)
(* finally, and the one request of prepare).                               *)
(***************************************************************************)
ChallengesAreSpentOnce == \A r \in refusals : r.reason # "replay"

(***************************************************************************)
(* A comment is refused for an expired challenge only when the network was *)
(* slow: the second that prepare keeps back makes up for the second the    *)
(* server cuts off when it notes the time of issue.                        *)
(***************************************************************************)
ExpiresOnlyOnTheWay == \A r \in refusals : r.reason = "expired" => r.slow

(***************************************************************************)
(* A comment that was written is on the server or still in the form, and   *)
(* the form says posted of one that is on the server only (submit).        *)
(***************************************************************************)
CommentsAreNotLost ==
    /\ \A text \in 1 .. written : text \in stored \/ content = text
    /\ feedback = "posted" => stored # {} /\ (content = None => written \in stored)

(***************************************************************************)
(* The form sends no challenge twice and none that it could know to be     *)
(* expired, and no comment is lost unless the server has it, however late  *)
(* answers come or the network fails.                                      *)
(***************************************************************************)
FormIsSound ==
    /\ FormTypeOK
    /\ ChallengesAreSpentOnce
    /\ ExpiresOnlyOnTheWay
    /\ CommentsAreNotLost

(***************************************************************************)
(* The form does not stay disabled: every submission comes to an end.      *)
(***************************************************************************)
SendingEnds == sending # "no" ~> sending = "no"
=============================================================================
