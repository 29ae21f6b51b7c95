--------------------------- MODULE FrontendProofs ---------------------------
(***************************************************************************)
(* The frontend's parts for every bound: that the comment form spends its  *)
(* challenges once and in time, what becomes of the administrator's        *)
(* drafts, and what the audio player shows.                                *)
(***************************************************************************)
EXTENDS CommentForm, Composer, AudioPlayer, TLAPS

-----------------------------------------------------------------------------
(***************************************************************************)
(* The comment form.  A challenge that the form may still send is unused,  *)
(* also one that is on its way to the form; the one that it sent was       *)
(* fresh when it went out, for all that the form could know of its age.    *)
(***************************************************************************)
Reasons == {"stored", "refused", "expired", "replay"}

Posts == [token : Tokens, at : 0 .. MaxTime, delay : Nat, answer : Reasons \cup {"none"}]

\* The server counts a challenge's age from here.
Base(token) == issued[token] - (issued[token] % Second)

Issued ==
    /\ now \in 0 .. MaxTime
    /\ issued \in Seq(0 .. MaxTime) /\ Len(issued) <= MaxTokens
    /\ \A n \in 1 .. Len(issued) : issued[n] <= now
    /\ used \subseteq 1 .. Len(issued)

Keeps ==
    /\ challenge \in 0 .. Len(issued) /\ received \in 0 .. now
    /\ challenge # None => issued[challenge] <= received
    /\ sending \in {"no", "prepare"} => challenge \notin used

Stages ==
    /\ preparing \in {"none", "asked", "answered"}
    /\ sending \in {"no", "prepare", "post", "refresh"}
    /\ sending = "prepare" => preparing # "none"
    /\ sending \in {"prepare", "post"} => content # None

\* The challenge in the answer is the latest, which nobody has sent yet.
OnItsWay ==
    preparing = "answered" =>
        /\ Len(issued) > 0 /\ Len(issued) \notin used
        /\ challenge # Len(issued)
        /\ sending = "post" => post.token # Len(issued)

Carried ==
    sending = "post" =>
        /\ post \in Posts /\ post.token <= Len(issued) /\ post.at <= now
        /\ post.answer = "none" => post.token \notin used
        /\ post.answer = "stored" => content \in stored
        /\ post.at - post.delay - Base(post.token) <= Ttl

Comments ==
    /\ stored \subseteq Texts /\ written \in 0 .. MaxTexts /\ content \in {None, written}
    /\ feedback \in {"none", "posted", "error"}
    /\ CommentsAreNotLost

Refusals == ChallengesAreSpentOnce /\ ExpiresOnlyOnTheWay

FormInv == Issued /\ Keeps /\ Stages /\ OnItsWay /\ Carried /\ Comments /\ Refusals

\* What the server cuts off is less than a second, and a life at least one.
LEMMA CutOff == \A n \in Nat : n % Second \in 0 .. Second - 1
BY CommentFormAssumption

LEMMA FormNumbers ==
    /\ Second \in Nat \ {0} /\ Ttl \in Nat \ {0} /\ Second <= Ttl
    /\ MaxTime \in Nat /\ MaxTokens \in Nat /\ MaxTexts \in Nat
BY CommentFormAssumption

\* The number of a challenge fits, and it was made at some instant.
LEMMA Made ==
    ASSUME Issued
    PROVE  /\ Len(issued) \in Nat /\ Len(issued) \in 0 .. MaxTokens /\ now \in Nat
           /\ \A n \in 1 .. Len(issued) : /\ n \in Tokens /\ n # None
                                          /\ issued[n] \in Nat /\ issued[n] <= now
                                          /\ Base(n) \in issued[n] - Second + 1 .. issued[n]
<1>1. /\ issued \in Seq(0 .. MaxTime) /\ Len(issued) <= MaxTokens /\ now \in 0 .. MaxTime
      /\ \A n \in 1 .. Len(issued) : issued[n] <= now
  BY DEF Issued
<1>2. /\ Len(issued) \in Nat /\ Len(issued) \in 0 .. MaxTokens /\ now \in Nat
      /\ \A n \in 1 .. Len(issued) : n \in Tokens /\ n # None /\ issued[n] \in Nat /\ issued[n] <= now
  <2>1. Len(issued) \in Nat /\ Len(issued) \in 0 .. MaxTokens /\ now \in Nat
    BY <1>1, FormNumbers
  <2>2. \A n \in 1 .. Len(issued) : n \in Tokens /\ n # None
    BY <2>1, FormNumbers DEF Tokens, None
  <2>3. \A n \in 1 .. Len(issued) : issued[n] \in Nat
    <3> DEFINE Instants == 0 .. MaxTime
    <3>1. issued \in Seq(Instants) /\ Instants \subseteq Nat
      BY <1>1, FormNumbers
    <3> HIDE DEF Instants
    <3>2. \A n \in 1 .. Len(issued) : issued[n] \in Instants
      BY <3>1
    <3>3. QED
      BY <3>1, <3>2
  <2>4. QED
    BY <1>1, <2>1, <2>2, <2>3
<1>3. ASSUME NEW n \in 1 .. Len(issued)
      PROVE  Base(n) \in issued[n] - Second + 1 .. issued[n]
  <2> DEFINE made == issued[n]
             over == made % Second
  <2>1. made \in Nat
    BY <1>2
  <2>2. over \in 0 .. Second - 1
    <3> HIDE DEF made
    <3>1. QED
      BY <2>1, CutOff
  <2>3. Base(n) = made - over
    BY DEF Base
  <2> HIDE DEF made, over
  <2>4. Base(n) \in made - Second + 1 .. made
    BY <2>1, <2>2, <2>3, FormNumbers
  <2>5. QED
    BY <2>4 DEF made
<1>4. QED
  BY <1>2, <1>3

\* Time passes, the reader writes and focuses the form.
LEMMA ReaderSteps ==
    ASSUME FormInv
    PROVE  /\ Tick => FormInv'
           /\ Write => FormInv'
           /\ Focus => FormInv'
<1>1. ASSUME Tick PROVE FormInv'
  <2>1. /\ now' = now + 1 /\ now' \in 0 .. MaxTime /\ now \in Nat
        /\ UNCHANGED <<issued, used, stored, challenge, received, preparing, sending, content,
                       written, post, feedback, refusals>>
    BY <1>1, FormNumbers DEF Tick, server, FormInv, Issued
  <2>2. \A n \in 1 .. Len(issued) : issued[n] <= now'
    <3>1. \A n \in 1 .. Len(issued) : issued[n] \in Nat /\ issued[n] <= now
      BY Made DEF FormInv
    <3>2. QED
      BY <2>1, <3>1
  <2>3. Issued'
    BY <2>1, <2>2 DEF FormInv, Issued
  <2>4. Keeps'
    BY <2>1 DEF FormInv, Keeps
  <2>5. sending = "post" => post.at <= now'
    <3>1. sending = "post" => post.at \in Nat /\ post.at <= now
      BY FormNumbers DEF FormInv, Carried, Posts
    <3>2. QED
      BY <2>1, <3>1
  <2>6. Carried'
    BY <2>1, <2>5 DEF FormInv, Carried, Base
  <2>7. QED
    BY <2>1, <2>3, <2>4, <2>6
    DEF FormInv, Stages, OnItsWay, Comments, CommentsAreNotLost, Refusals,
        ChallengesAreSpentOnce, ExpiresOnlyOnTheWay
<1>2. ASSUME Write PROVE FormInv'
  <2>1. /\ sending = "no" /\ content = None /\ written < MaxTexts
        /\ written' = written + 1 /\ content' = written + 1
        /\ UNCHANGED <<now, issued, used, stored, challenge, received, preparing, sending,
                       post, feedback, refusals>>
    BY <1>2 DEF Write, server
  <2>2. written \in Nat /\ written' \in 0 .. MaxTexts /\ written' # None
    BY <2>1, FormNumbers DEF FormInv, Comments, None
  <2>3. \A text \in 1 .. written' : text \in stored \/ content' = text
    BY <2>1, <2>2 DEF FormInv, Comments, CommentsAreNotLost, None
  <2>4. Comments'
    BY <2>1, <2>2, <2>3 DEF FormInv, Comments, CommentsAreNotLost
  <2>5. QED
    BY <2>1, <2>2, <2>4
    DEF FormInv, Issued, Keeps, Stages, OnItsWay, Carried, Base, Refusals,
        ChallengesAreSpentOnce, ExpiresOnlyOnTheWay
<1>3. ASSUME Focus PROVE FormInv'
  <2>1. /\ preparing' = IF preparing = "none" THEN "asked" ELSE preparing
        /\ UNCHANGED <<now, issued, used, stored, challenge, received, sending, content, written,
                       post, feedback, refusals>>
    BY <1>3 DEF Focus, Ask, server
  <2>2. QED
    BY <2>1
    DEF FormInv, Issued, Keeps, Stages, OnItsWay, Carried, Base, Comments, CommentsAreNotLost,
        Refusals, ChallengesAreSpentOnce, ExpiresOnlyOnTheWay
<1>4. QED
  BY <1>1, <1>2, <1>3

\* What goes out carries an unused challenge that is fresh as far as is known.
LEMMA SendStep ==
    ASSUME FormInv, NEW token \in 1 .. Len(issued), NEW delay \in Nat, Send(token, delay),
           token \notin used, now - delay - Base(token) <= Ttl,
           UNCHANGED <<now, issued, used>>
    PROVE  Carried' /\ sending' = "post" /\ post'.token = token
<1>1. /\ sending' = "post"
      /\ post' = [token |-> token, at |-> now, delay |-> delay, answer |-> "none"]
  BY DEF Send
<1>2. token \in Tokens /\ now \in 0 .. MaxTime /\ token <= Len(issued) /\ now <= now
  BY Made DEF FormInv, Issued
<1>3. post' \in Posts /\ post'.token = token /\ post'.at = now /\ post'.delay = delay
      /\ post'.answer = "none"
  BY <1>1, <1>2 DEF Posts
<1>4. QED
  BY <1>1, <1>2, <1>3 DEF Carried, Base

LEMMA SubmitStep == ASSUME FormInv, Submit PROVE FormInv'
<1>1. /\ sending = "no" /\ content # None /\ feedback' = "none"
      /\ UNCHANGED <<now, issued, used, stored, challenge, received, content, written, refusals>>
  BY DEF Submit, server
<1>2. Issued' /\ Comments' /\ Refusals'
  BY <1>1 DEF FormInv, Issued, Comments, CommentsAreNotLost, Refusals,
              ChallengesAreSpentOnce, ExpiresOnlyOnTheWay
<1>3. CASE Fresh /\ Send(challenge, received - issued[challenge]) /\ UNCHANGED preparing
  <2>1. /\ challenge \in 1 .. Len(issued) /\ challenge \notin used /\ received \in Nat
        /\ issued[challenge] <= received /\ now < received + Ttl - Second
    BY <1>1, <1>3, Made DEF FormInv, Keeps, Fresh, None
  <2>2. /\ received - issued[challenge] \in Nat
        /\ now - (received - issued[challenge]) - Base(challenge) <= Ttl
    <3>1. issued[challenge] \in Nat /\ Base(challenge) \in issued[challenge] - Second + 1 .. issued[challenge]
          /\ now \in Nat
      BY <2>1, Made DEF FormInv
    <3> DEFINE made == issued[challenge]
               base == Base(challenge)
    <3>2. made \in Nat /\ base \in made - Second + 1 .. made /\ made <= received
      BY <2>1, <3>1
    <3> HIDE DEF made, base
    <3>3. received - made \in Nat /\ now - (received - made) - base <= Ttl
      BY <2>1, <3>1, <3>2, FormNumbers
    <3>4. QED
      BY <3>3 DEF made, base
  <2>3. Carried' /\ sending' = "post" /\ post'.token = challenge
    BY <1>1, <1>3, <2>1, <2>2, SendStep
  <2>4. QED
    BY <1>1, <1>2, <1>3, <2>3 DEF FormInv, Keeps, Stages, OnItsWay
<1>4. CASE ~Fresh /\ Ask /\ sending' = "prepare" /\ UNCHANGED post
  BY <1>1, <1>2, <1>4 DEF FormInv, Ask, Keeps, Stages, OnItsWay, Carried
<1>5. QED
  BY <1>3, <1>4 DEF Submit

\* The challenge is fetched.
LEMMA PreparationSteps ==
    ASSUME FormInv
    PROVE  /\ Issue => FormInv'
           /\ Receive => FormInv'
           /\ NotPrepared => FormInv'
<1>1. ASSUME Issue PROVE FormInv'
  <2>1. /\ preparing = "asked" /\ Len(issued) < MaxTokens
        /\ issued' = Append(issued, now) /\ preparing' = "answered"
        /\ UNCHANGED <<now, used, stored, challenge, received, sending, content, written,
                       post, feedback, refusals>>
    BY <1>1 DEF Issue
  <2>2. /\ issued \in Seq(0 .. MaxTime) /\ now \in 0 .. MaxTime /\ Len(issued) \in Nat
        /\ Len(issued) \in 0 .. MaxTokens
    BY Made DEF FormInv, Issued
  <2>3. /\ issued' \in Seq(0 .. MaxTime) /\ Len(issued') = Len(issued) + 1
        /\ issued'[Len(issued) + 1] = now
        /\ \A n \in 1 .. Len(issued) : issued'[n] = issued[n]
    BY <2>1, <2>2
  <2>4. Len(issued') <= MaxTokens
    BY <2>1, <2>2, <2>3, FormNumbers
  <2>5. \A n \in 1 .. Len(issued') : n \in 1 .. Len(issued) \/ n = Len(issued) + 1
    BY <2>2, <2>3
  <2>6. \A n \in 1 .. Len(issued') : issued'[n] <= now
    <3>1. \A n \in 1 .. Len(issued) : issued'[n] <= now
      BY <2>3 DEF FormInv, Issued
    <3>2. now <= now
      BY <2>2
    <3>3. QED
      BY <2>3, <2>5, <3>1, <3>2
  <2>7. Issued'
    BY <2>1, <2>2, <2>3, <2>4, <2>6 DEF FormInv, Issued
  <2>8. Keeps'
    <3>1. challenge \in 0 .. Len(issued') /\ (challenge # None => challenge \in 1 .. Len(issued))
      BY <2>2, <2>3 DEF FormInv, Keeps, None
    <3>2. QED
      BY <2>1, <2>3, <3>1 DEF FormInv, Keeps
  <2>9. OnItsWay'
    <3>1. Len(issued') \notin used /\ challenge # Len(issued') /\ Len(issued') > 0
      BY <2>2, <2>3 DEF FormInv, Issued, Keeps
    <3>2. sending = "post" => post.token # Len(issued')
      BY <2>2, <2>3 DEF FormInv, Carried
    <3>3. QED
      BY <2>1, <3>1, <3>2 DEF OnItsWay
  <2>10. Carried'
    <3>1. sending = "post" => post.token \in 1 .. Len(issued) /\ post.token <= Len(issued')
      <4>1. sending = "post" => post.token \in Tokens /\ post.token <= Len(issued)
        BY DEF FormInv, Carried, Posts
      <4>2. QED
        BY <2>2, <2>3, <4>1, FormNumbers DEF Tokens
    <3>2. sending = "post" => Base(post.token)' = Base(post.token)
      BY <2>1, <2>3, <3>1 DEF Base
    <3>3. QED
      BY <2>1, <3>1, <3>2 DEF FormInv, Carried
  <2>11. QED
    BY <2>1, <2>7, <2>8, <2>9, <2>10
    DEF FormInv, Stages, Comments, CommentsAreNotLost, Refusals,
        ChallengesAreSpentOnce, ExpiresOnlyOnTheWay
<1>2. ASSUME Receive PROVE FormInv'
  <2>1. /\ preparing = "answered" /\ preparing' = "none"
        /\ challenge' = Len(issued) /\ received' = now
        /\ UNCHANGED <<now, issued, used, stored, content, written, feedback, refusals>>
        /\ \/ sending = "prepare" /\ Send(Len(issued), now - issued[Len(issued)])
           \/ sending # "prepare" /\ UNCHANGED <<sending, post>>
    BY <1>2 DEF Receive, server
  <2> DEFINE token == Len(issued)
             made == issued[token]
             base == Base(token)
  <2>2. /\ token \in 1 .. Len(issued) /\ token \notin used /\ now \in Nat /\ token # None
        /\ made \in Nat /\ made <= now /\ base \in made - Second + 1 .. made
    BY <2>1, Made DEF FormInv, OnItsWay
  <2>3. Issued' /\ Comments' /\ Refusals'
    BY <2>1 DEF FormInv, Issued, Comments, CommentsAreNotLost, Refusals,
                ChallengesAreSpentOnce, ExpiresOnlyOnTheWay
  <2>4. challenge' \in 0 .. Len(issued) /\ received' \in 0 .. now /\ issued[challenge'] <= received'
    BY <2>1, <2>2
  <2>5. Keeps' /\ OnItsWay'
    BY <2>1, <2>2, <2>4 DEF Keeps, OnItsWay
  <2>6. CASE sending = "prepare" /\ Send(token, now - made)
    <3> HIDE DEF made, base
    <3>1. now - made \in Nat /\ now - (now - made) - base <= Ttl
      BY <2>2, FormNumbers
    <3>2. Carried' /\ sending' = "post"
      <4>1. now - (now - made) - Base(token) <= Ttl
        BY <3>1 DEF base
      <4>2. QED
        BY <2>1, <2>2, <2>6, <3>1, <4>1, SendStep
    <3>3. Stages'
      BY <2>1, <2>6, <3>2 DEF FormInv, Stages
    <3>4. QED
      BY <2>3, <2>5, <3>2, <3>3 DEF FormInv
  <2>7. CASE sending # "prepare" /\ UNCHANGED <<sending, post>>
    BY <2>1, <2>3, <2>5, <2>7 DEF FormInv, Stages, Carried, Base
  <2>8. QED
    BY <2>1, <2>6, <2>7
<1>3. ASSUME NotPrepared PROVE FormInv'
  <2>1. /\ preparing' = "none" /\ feedback' = "error"
        /\ \/ sending = "prepare" /\ sending' = "no" /\ challenge' = None
           \/ sending # "prepare" /\ UNCHANGED <<sending, post, challenge>>
        /\ UNCHANGED <<now, issued, used, stored, received, content, written, refusals>>
    BY <1>3 DEF NotPrepared, End, server
  <2>2. None \in 0 .. Len(issued) /\ None \notin used
    BY Made DEF FormInv, Issued, None
  <2>3. QED
    BY <2>1, <2>2
    DEF FormInv, Issued, Keeps, Stages, OnItsWay, Carried, Base, Comments, CommentsAreNotLost,
        Refusals, ChallengesAreSpentOnce, ExpiresOnlyOnTheWay
<1>4. QED
  BY <1>1, <1>2, <1>3

\* The comment is sent, answered, lost.
LEMMA SubmissionSteps ==
    ASSUME FormInv
    PROVE  /\ ServeForm => FormInv'
           /\ AnsweredForm => FormInv'
           /\ Lost => FormInv'
           /\ Refreshed => FormInv'
<1>1. None \in 0 .. Len(issued) /\ None \notin used
  BY Made DEF FormInv, Issued, None
<1>2. ASSUME ServeForm PROVE FormInv'
  <2> DEFINE token == post.token
  <2>1. /\ sending = "post" /\ post.answer = "none" /\ content # None
        /\ UNCHANGED <<now, issued, challenge, received, preparing, sending, content, written, feedback>>
        /\ used' \in {used, used \cup {token}}
    BY <1>2 DEF ServeForm, FormInv, Stages
  <2>2. /\ post \in Posts /\ token \in 1 .. Len(issued) /\ token \notin used
        /\ post.at - post.delay - Base(token) <= Ttl
        /\ post.at \in Nat /\ post.at <= now /\ post.delay \in Nat /\ now \in Nat
        /\ Base(token) \in Int /\ Ttl \in Nat
    <3>1. /\ post \in Posts /\ token \in Tokens /\ token <= Len(issued) /\ token \notin used
          /\ post.at - post.delay - Base(token) <= Ttl
          /\ post.at \in 0 .. MaxTime /\ post.at <= now /\ post.delay \in Nat
      BY <2>1 DEF FormInv, Carried, Posts
    <3>2. token \in 1 .. Len(issued) /\ now \in Nat /\ Len(issued) \in Nat
      BY <3>1, Made, FormNumbers DEF FormInv, Tokens
    <3>3. Base(token) \in Int
      BY <3>2, Made, FormNumbers DEF FormInv
    <3>4. QED
      BY <3>1, <3>2, <3>3, FormNumbers
  <2>3. PICK reason \in Reasons :
           /\ Answer(reason)
           /\ reason = "expired" => Age(token) > Ttl
           /\ reason # "replay"
           /\ IF reason = "stored" THEN stored' = stored \cup {content} ELSE stored' = stored
    BY <1>2, <2>2 DEF ServeForm, Reasons
  <2>4. post' = [post EXCEPT !.answer = reason]
    BY <2>3 DEF Answer
  <2>5. /\ post' \in Posts /\ post'.token = token /\ post'.at = post.at /\ post'.delay = post.delay
        /\ post'.answer = reason
    BY <2>2, <2>4 DEF Posts
  \* Without a delay the server cannot have found the challenge too old.
  <2>6. Age(token) > Ttl => post.delay + (now - post.at) > 0
    <3> DEFINE base == Base(token)
    <3>1. Age(token) = now - base
      BY DEF Age, Base
    <3> HIDE DEF base, token
    <3>2. base \in Int /\ post.at - post.delay - base <= Ttl
      BY <2>2 DEF base, token
    <3>3. QED
      BY <2>2, <3>1, <3>2
  <2>7. Refusals'
    <3> SUFFICES ASSUME NEW r \in refusals'
                 PROVE  r.reason # "replay" /\ (r.reason = "expired" => r.slow)
      BY DEF Refusals, ChallengesAreSpentOnce, ExpiresOnlyOnTheWay
    <3>1. CASE r \in refusals
      BY <3>1 DEF FormInv, Refusals, ChallengesAreSpentOnce, ExpiresOnlyOnTheWay
    <3>2. CASE r \notin refusals
      <4>1. r = [reason |-> reason, slow |-> post.delay + (now - post.at) > 0]
        BY <2>3, <3>2 DEF Answer
      <4>2. r.reason = reason /\ r.slow = (post.delay + (now - post.at) > 0)
        BY <4>1
      <4>3. QED
        BY <2>3, <2>6, <4>2
    <3>3. QED
      BY <3>1, <3>2
  <2>8. Comments'
    <3>1. content \in Texts
      BY <2>1, FormNumbers DEF FormInv, Comments, Texts, None
    <3>2. stored \subseteq stored' /\ stored' \subseteq Texts
      BY <2>3, <3>1 DEF FormInv, Comments
    <3>3. CommentsAreNotLost'
      BY <2>1, <3>2 DEF FormInv, Comments, CommentsAreNotLost
    <3>4. QED
      BY <2>1, <3>2, <3>3 DEF FormInv, Comments
  <2>9. Issued' /\ Stages'
    BY <2>1, <2>2 DEF FormInv, Issued, Stages
  <2>10. Keeps'
    BY <2>1 DEF FormInv, Keeps
  <2>11. OnItsWay'
    BY <2>1, <2>5 DEF FormInv, OnItsWay
  <2>12. Carried'
    <3>1. reason = "stored" => content \in stored'
      BY <2>3
    <3>2. token <= Len(issued)
      BY <2>1 DEF FormInv, Carried
    <3>3. Base(token)' = Base(token)
      BY <2>1, <2>5 DEF Base
    <3>4. reason # "none"
      BY DEF Reasons
    <3> HIDE DEF token
    <3>5. QED
      BY <2>1, <2>2, <2>5, <3>1, <3>2, <3>3, <3>4 DEF Carried, Base
  <2>13. QED
    BY <2>7, <2>8, <2>9, <2>10, <2>11, <2>12 DEF FormInv
<1>3. ASSUME AnsweredForm PROVE FormInv'
  <2>1. /\ sending = "post" /\ content # None
        /\ content' = (IF post.answer = "stored" THEN None ELSE content)
        /\ feedback' = (IF post.answer = "stored" THEN "posted" ELSE "error")
        /\ \/ sending' = "refresh" /\ UNCHANGED challenge
           \/ sending' = "no" /\ challenge' = None
        /\ UNCHANGED <<now, issued, used, stored, received, preparing, written, refusals>>
    BY <1>3 DEF AnsweredForm, Cleared, End, server, FormInv, Stages
  <2>2. /\ post.answer = "stored" => content \in stored
        /\ content = written /\ written \in Nat
    BY <2>1, FormNumbers DEF FormInv, Carried, Comments
  <2>3. Comments'
    <3>1. \A text \in 1 .. written : text \in stored \/ content' = text
      BY <2>1, <2>2 DEF FormInv, Comments, CommentsAreNotLost
    <3>2. feedback' = "posted" => stored # {} /\ written \in stored
      BY <2>1, <2>2
    <3>3. QED
      BY <2>1, <2>2, <3>1, <3>2 DEF FormInv, Comments, CommentsAreNotLost
  <2>4. QED
    BY <1>1, <2>1, <2>3
    DEF FormInv, Issued, Keeps, Stages, OnItsWay, Carried, Refusals,
        ChallengesAreSpentOnce, ExpiresOnlyOnTheWay, None
<1>4. ASSUME Lost PROVE FormInv'
  <2>1. /\ sending' = "no" /\ challenge' = None /\ feedback' = "error"
        /\ UNCHANGED <<now, issued, used, stored, received, preparing, content, written, refusals>>
    BY <1>4 DEF Lost, End, server
  <2>2. QED
    BY <1>1, <2>1
    DEF FormInv, Issued, Keeps, Stages, OnItsWay, Carried, Comments, CommentsAreNotLost, Refusals,
        ChallengesAreSpentOnce, ExpiresOnlyOnTheWay, None
<1>5. ASSUME Refreshed PROVE FormInv'
  <2>1. /\ sending' = "no" /\ challenge' = None
        /\ UNCHANGED <<now, issued, used, stored, received, preparing, content, written, feedback, refusals>>
    BY <1>5 DEF Refreshed, End, server
  <2>2. QED
    BY <1>1, <2>1
    DEF FormInv, Issued, Keeps, Stages, OnItsWay, Carried, Comments, CommentsAreNotLost, Refusals,
        ChallengesAreSpentOnce, ExpiresOnlyOnTheWay, None
<1>6. QED
  BY <1>2, <1>3, <1>4, <1>5

(***************************************************************************)
(* For any length of a second and a challenge's life, and however late     *)
(* answers come or the network fails: the form sends no challenge twice    *)
(* and none that it could know to be expired, and a comment that was       *)
(* written is in the form or on the server.                                *)
(***************************************************************************)
THEOREM TheFormIsSound == FormSpec => []FormIsSound
<1>1. FormInit => FormInv
  <2> SUFFICES ASSUME FormInit PROVE FormInv
    OBVIOUS
  <2>1. /\ issued = <<>> /\ Len(issued) = 0 /\ issued \in Seq(0 .. MaxTime)
        /\ now = 0 /\ used = {} /\ stored = {} /\ challenge = 0 /\ received = 0 /\ preparing = "none"
        /\ sending = "no" /\ content = 0 /\ written = 0 /\ feedback = "none" /\ refusals = {}
    BY DEF FormInit, None
  <2>2. Issued /\ Keeps
    BY <2>1, FormNumbers DEF Issued, Keeps, None
  <2>3. Comments
    BY <2>1, FormNumbers DEF Comments, CommentsAreNotLost, None
  <2>4. QED
    BY <2>1, <2>2, <2>3
    DEF FormInv, Stages, OnItsWay, Carried, Refusals, ChallengesAreSpentOnce, ExpiresOnlyOnTheWay
<1>2. FormInv /\ [FormNext]_formVars => FormInv'
  <2> SUFFICES ASSUME FormInv, [FormNext]_formVars PROVE FormInv'
    OBVIOUS
  <2>1. CASE FormNext
    BY <2>1, ReaderSteps, SubmitStep, PreparationSteps, SubmissionSteps
    DEF FormNext, Preparation, Submission
  <2>2. CASE UNCHANGED formVars
    BY <2>2
    DEF formVars, server, FormInv, Issued, Keeps, Stages, OnItsWay, Carried, Base, Comments,
        CommentsAreNotLost, Refusals, ChallengesAreSpentOnce, ExpiresOnlyOnTheWay
  <2>3. QED
    BY <2>1, <2>2
<1>3. FormInv => FormIsSound
  <2> SUFFICES ASSUME FormInv PROVE FormIsSound
    OBVIOUS
  <2>1. sending = "post" => post.token \in Tokens /\ content # None
    BY DEF FormInv, Carried, Posts, Stages
  <2>2. FormTypeOK
    BY <2>1 DEF FormInv, Issued, Keeps, Stages, Comments, FormTypeOK
  <2>3. QED
    BY <2>2 DEF FormInv, Comments, Refusals, FormIsSound
<1>4. QED
  BY <1>1, <1>2, <1>3, PTL DEF FormSpec

-----------------------------------------------------------------------------
(***************************************************************************)
(* The composer.  An instance on the page that publishes still holds what  *)
(* it sent; as long as no instance was opened over a publication, nobody   *)
(* else waits for an answer.                                               *)
(***************************************************************************)
Publications == [draft : Drafts \ {Initial}, answer : {"none", "saved", "refused"}]

Kept ==
    /\ instance \in 0 .. MaxInstances /\ (mounted => instance > 0)
    /\ draft \in Drafts /\ storage \in Drafts \cup {Nothing}
    /\ edits \in 0 .. MaxEdits
    /\ mounted \in BOOLEAN /\ valid \in BOOLEAN /\ timer \in BOOLEAN /\ saved \in BOOLEAN
    /\ storageError \in BOOLEAN /\ result \in BOOLEAN /\ overlapped \in BOOLEAN
    /\ published \subseteq Drafts \ {Initial}
    /\ timer => mounted
    /\ result => draft \in published /\ sent[instance] = Nothing

Sent ==
    /\ DOMAIN sent = Instances
    /\ \A i \in Instances : sent[i] # Nothing =>
          /\ sent[i] \in Publications /\ i <= instance
          /\ sent[i].answer = "saved" => sent[i].draft \in published
          /\ i # instance => overlapped
          /\ i = instance /\ mounted => sent[i].draft = draft

ComposerInv == Kept /\ Sent /\ SavedIsStored /\ NothingUnsaved /\ PublishedIsGone

\* The instance that is on the page is one of them.
LEMMA OnThePage ==
    ASSUME ComposerInv
    PROVE  /\ mounted => instance \in Instances
           /\ Initial \in Drafts /\ Nothing \notin Drafts
           /\ MaxEdits \in Nat /\ MaxInstances \in Nat
BY ComposerAssumption DEF ComposerInv, Kept, Instances, Drafts, Initial

\* What the administrator does with the editor.
LEMMA EditorSteps ==
    ASSUME ComposerInv
    PROVE  /\ Edit => ComposerInv'
           /\ Spoil => ComposerInv'
           /\ Reset => ComposerInv'
           /\ NewPost => ComposerInv'
           /\ Fill => ComposerInv'
<1> USE OnThePage
<1>1. ASSUME Edit PROVE ComposerInv'
  <2>1. /\ edits' \in Drafts /\ draft' = edits' /\ edits' \in 0 .. MaxEdits /\ valid' \in BOOLEAN
        /\ saved' = FALSE /\ timer' = TRUE /\ mounted /\ ~result /\ sent[instance] = Nothing
        /\ UNCHANGED <<mounted, instance, recovered, result, storageError, storage, sent,
                       published, overlapped>>
    <3>1. /\ edits < MaxEdits /\ edits' = edits + 1 /\ draft' = edits + 1
          /\ valid' \in {valid, TRUE} /\ saved' = FALSE /\ timer' = TRUE
          /\ mounted /\ ~result /\ sent[instance] = Nothing
          /\ UNCHANGED <<mounted, instance, recovered, result, storageError, storage, sent,
                         published, overlapped>>
      BY <1>1 DEF Edit, Watch, Busy
    <3>2. valid' \in BOOLEAN
      BY <3>1 DEF ComposerInv, Kept
    <3>3. edits \in 0 .. MaxEdits
      BY DEF ComposerInv, Kept
    <3>4. QED
      BY <3>1, <3>2, <3>3 DEF Drafts
  <2>2. Kept'
    BY <2>1 DEF ComposerInv, Kept
  <2>3. Sent'
    BY <2>1 DEF ComposerInv, Sent
  <2>4. QED
    BY <2>1, <2>2, <2>3 DEF ComposerInv, SavedIsStored, NothingUnsaved, PublishedIsGone
<1>2. ASSUME Spoil PROVE ComposerInv'
  BY <1>2 DEF Spoil, outside, ComposerInv, Kept, Sent, SavedIsStored, NothingUnsaved, PublishedIsGone
<1>3. ASSUME Reset PROVE ComposerInv'
  <2>1. /\ mounted /\ ~result /\ sent[instance] = Nothing
        /\ draft' = Initial /\ valid' = TRUE /\ saved' = FALSE /\ timer' = TRUE
        /\ storageError' \in BOOLEAN /\ storage' \in {storage, Initial}
        /\ UNCHANGED <<mounted, instance, result, sent, edits, published, overlapped>>
    BY <1>3 DEF Reset, Watch, Busy, outside
  <2>2. Kept'
    BY <2>1 DEF ComposerInv, Kept
  <2>3. Sent'
    BY <2>1 DEF ComposerInv, Sent
  <2>4. QED
    BY <2>1, <2>2, <2>3 DEF ComposerInv, SavedIsStored, NothingUnsaved, PublishedIsGone
<1>4. ASSUME NewPost PROVE ComposerInv'
  <2>1. /\ mounted /\ result /\ sent[instance] = Nothing
        /\ draft' = Initial /\ result' = FALSE /\ saved' = FALSE /\ timer' = TRUE
        /\ UNCHANGED <<mounted, instance, valid, storageError, storage, sent, edits,
                       published, overlapped>>
    BY <1>4 DEF NewPost, Watch, outside, ComposerInv, Kept
  <2>2. Kept'
    BY <2>1 DEF ComposerInv, Kept
  <2>3. Sent'
    BY <2>1 DEF ComposerInv, Sent
  <2>4. QED
    BY <2>1, <2>2, <2>3 DEF ComposerInv, SavedIsStored, NothingUnsaved, PublishedIsGone
<1>5. ASSUME Fill PROVE ComposerInv'
  BY <1>5 DEF Fill, page, shown, ComposerInv, Kept, Sent, SavedIsStored, NothingUnsaved, PublishedIsGone
<1>6. QED
  BY <1>1, <1>2, <1>3, <1>4, <1>5

\* What persist does to the storage and to what is said of it.
LEMMA Persisted ==
    ASSUME ComposerInv, Persist
    PROVE  /\ storage' \in {storage, draft} /\ saved' \in BOOLEAN /\ storageError' \in BOOLEAN
           /\ result => storage' = storage
           /\ saved' => (saved /\ storage' = storage) \/ storage' = draft
           /\ valid /\ ~result => storage' = draft \/ storageError'
BY DEF Persist, PersistIf, ComposerInv, Kept

\* The instances come and go; what they store is their draft.
LEMMA InstanceSteps ==
    ASSUME ComposerInv
    PROVE  /\ Open => ComposerInv'
           /\ Timeout => ComposerInv'
           /\ Leave => ComposerInv'
           /\ Publish => ComposerInv'
           /\ Crash => ComposerInv'
<1> USE OnThePage
<1>1. ASSUME Open PROVE ComposerInv'
  <2>1. /\ ~mounted /\ instance < MaxInstances /\ mounted' = TRUE /\ instance' = instance + 1
        /\ draft' = (IF storage = Nothing THEN Initial ELSE storage)
        /\ timer' = (storage # Nothing) /\ valid' = TRUE /\ result' = FALSE /\ saved' = FALSE
        /\ storageError' = FALSE
        /\ overlapped' = (overlapped \/ \E i \in Instances : sent[i] # Nothing)
        /\ UNCHANGED <<storage, sent, edits, published>>
    BY <1>1 DEF Open
  <2>2. Kept'
    <3>1. /\ draft' \in Drafts /\ storage' \in Drafts \cup {Nothing}
          /\ instance' \in 0 .. MaxInstances /\ instance' > 0
      BY <2>1 DEF ComposerInv, Kept
    <3>2. timer' \in BOOLEAN /\ overlapped' \in BOOLEAN
      BY <2>1
    <3>3. QED
      BY <2>1, <3>1, <3>2 DEF ComposerInv, Kept
  <2>3. Sent'
    <3> SUFFICES ASSUME NEW i \in Instances, sent[i] # Nothing
                 PROVE  /\ sent[i] \in Publications /\ i <= instance' /\ i # instance'
                        /\ sent[i].answer = "saved" => sent[i].draft \in published
                        /\ overlapped'
      BY <2>1 DEF ComposerInv, Sent
    <3>1. overlapped'
      BY <2>1
    <3>2. i <= instance /\ i \in Nat /\ instance \in Nat
      BY DEF ComposerInv, Sent, Kept, Instances
    <3>3. QED
      BY <2>1, <3>1, <3>2 DEF ComposerInv, Sent
  <2>4. QED
    BY <2>1, <2>2, <2>3 DEF ComposerInv, SavedIsStored, NothingUnsaved, PublishedIsGone
<1>2. ASSUME Timeout PROVE ComposerInv'
  <2>1. /\ mounted /\ timer' = FALSE /\ Persist
        /\ UNCHANGED <<mounted, instance, draft, valid, result, sent, edits, published, overlapped>>
    BY <1>2 DEF Timeout, shown, outside
  <2>2. Kept'
    BY <2>1, Persisted DEF ComposerInv, Kept
  <2>3. Sent'
    BY <2>1 DEF ComposerInv, Sent
  <2>4. QED
    BY <2>1, <2>2, <2>3, Persisted DEF ComposerInv, SavedIsStored, NothingUnsaved, PublishedIsGone
<1>3. ASSUME Leave PROVE ComposerInv'
  <2>1. /\ mounted /\ mounted' = FALSE /\ timer' = FALSE /\ Persist
        /\ UNCHANGED <<instance, draft, valid, result, sent, edits, published, overlapped>>
    BY <1>3 DEF Leave, shown, outside
  <2>2. Kept'
    BY <2>1, Persisted DEF ComposerInv, Kept
  <2>3. Sent'
    BY <2>1 DEF ComposerInv, Sent
  <2>4. QED
    BY <2>1, <2>2, <2>3, Persisted DEF ComposerInv, SavedIsStored, NothingUnsaved, PublishedIsGone
<1>4. ASSUME Publish PROVE ComposerInv'
  <2> DEFINE publication == [draft |-> draft, answer |-> "none"]
  <2>1. /\ mounted /\ ~result /\ valid /\ draft # Initial /\ timer' = FALSE /\ Persist
        /\ sent' = [sent EXCEPT ![instance] = publication]
        /\ UNCHANGED <<mounted, instance, draft, valid, result, edits, published, overlapped>>
    BY <1>4 DEF Publish, shown
  <2>2. Kept'
    BY <2>1, Persisted DEF ComposerInv, Kept
  <2>3. /\ publication \in Publications /\ publication.answer = "none"
        /\ publication.draft = draft
    BY <2>1 DEF ComposerInv, Kept, Publications
  <2> HIDE DEF publication
  <2>4. /\ DOMAIN sent' = Instances
        /\ \A i \in Instances : sent'[i] = IF i = instance THEN publication ELSE sent[i]
    BY <2>1 DEF ComposerInv, Sent
  <2>5. instance <= instance
    BY DEF ComposerInv, Kept
  <2>6. Sent'
    BY <2>1, <2>3, <2>4, <2>5 DEF ComposerInv, Sent
  <2>7. QED
    BY <2>1, <2>2, <2>6, Persisted DEF ComposerInv, SavedIsStored, NothingUnsaved, PublishedIsGone
<1>5. ASSUME Crash PROVE ComposerInv'
  <2>1. /\ mounted' = FALSE /\ timer' = FALSE /\ sent' = [i \in Instances |-> Nothing]
        /\ UNCHANGED <<instance, draft, valid, result, saved, storageError, storage, edits, overlapped>>
        /\ mounted
    BY <1>5 DEF Crash, shown
  <2>2. published \subseteq published' /\ published' \subseteq Drafts \ {Initial}
    BY <1>5 DEF Crash, ComposerInv, Kept, Sent, Publications
  <2>3. Kept'
    BY <2>1, <2>2 DEF ComposerInv, Kept
  <2>4. Sent'
    BY <2>1 DEF Sent
  <2>5. QED
    BY <2>1, <2>3, <2>4 DEF ComposerInv, SavedIsStored, NothingUnsaved, PublishedIsGone
<1>6. QED
  BY <1>1, <1>2, <1>3, <1>4, <1>5

\* The server's answer, and what it does to an instance that waits for it.
LEMMA PublicationSteps ==
    ASSUME ComposerInv, NEW i \in Instances
    PROVE  /\ Serve(i) => ComposerInv'
           /\ Answered(i) => ComposerInv'
           /\ Failed(i) => ComposerInv'
<1> USE OnThePage
<1>1. ASSUME Serve(i) PROVE ComposerInv'
  <2> DEFINE served(reason) == [sent[i] EXCEPT !.answer = reason]
  <2>1. /\ sent[i] # Nothing /\ sent[i] \in Publications
        /\ UNCHANGED <<mounted, instance, draft, valid, result, timer, saved, storageError, storage,
                       edits, overlapped>>
    BY <1>1 DEF Serve, page, shown, ComposerInv, Sent
  <2>2. PICK reason \in {"saved", "refused"} :
           /\ sent' = [sent EXCEPT ![i] = served(reason)]
           /\ published' = IF reason = "saved" THEN published \cup {sent[i].draft} ELSE published
    BY <1>1 DEF Serve
  <2>3. /\ served(reason) \in Publications /\ served(reason).draft = sent[i].draft
        /\ served(reason).answer = reason
    BY <2>1 DEF Publications
  <2>4. sent[i].draft \in Drafts \ {Initial}
    BY <2>1 DEF Publications
  <2> HIDE DEF served
  <2>5. /\ DOMAIN sent' = Instances
        /\ \A j \in Instances : sent'[j] = IF j = i THEN served(reason) ELSE sent[j]
    BY <2>2 DEF ComposerInv, Sent
  <2>6. result => instance # i
    BY <2>1 DEF ComposerInv, Kept
  <2>7. Kept'
    <3>1. published \subseteq published' /\ published' \subseteq Drafts \ {Initial}
      BY <2>2, <2>4 DEF ComposerInv, Kept
    <3>2. result => sent'[instance] = Nothing
      BY <2>2, <2>6 DEF ComposerInv, Kept, Sent
    <3>3. QED
      BY <2>1, <3>1, <3>2 DEF ComposerInv, Kept
  <2>8. Sent'
    BY <2>1, <2>2, <2>3, <2>4, <2>5 DEF ComposerInv, Sent
  <2>9. QED
    BY <2>1, <2>7, <2>8 DEF ComposerInv, SavedIsStored, NothingUnsaved, PublishedIsGone
<1>2. ASSUME sent' = [sent EXCEPT ![i] = Nothing], UNCHANGED <<instance, draft, published, overlapped, mounted>>
      PROVE  Sent' /\ sent'[i] = Nothing /\ (sent[instance] = Nothing => sent'[instance] = Nothing)
  BY <1>2 DEF ComposerInv, Sent
<1>3. ASSUME Answered(i) PROVE ComposerInv'
  <2>1. /\ sent[i] # Nothing /\ sent[i].answer = "saved" /\ storage' = Nothing
        /\ sent' = [sent EXCEPT ![i] = Nothing]
        /\ IF mounted /\ instance = i THEN result' = TRUE /\ timer' = FALSE
           ELSE UNCHANGED <<result, timer>>
        /\ UNCHANGED <<mounted, instance, draft, valid, saved, storageError, edits, published, overlapped>>
    BY <1>3 DEF Answered
  <2>2. Sent' /\ sent'[i] = Nothing /\ (sent[instance] = Nothing => sent'[instance] = Nothing)
    BY <1>2, <2>1
  <2>3. mounted /\ instance = i => draft \in published
    BY <2>1 DEF ComposerInv, Sent
  <2>4. Kept'
    BY <2>1, <2>2, <2>3 DEF ComposerInv, Kept
  <2>5. mounted /\ ~overlapped => result'
    BY <2>1 DEF ComposerInv, Sent
  <2>6. QED
    BY <2>1, <2>2, <2>4, <2>5 DEF ComposerInv, SavedIsStored, NothingUnsaved, PublishedIsGone
<1>4. ASSUME Failed(i) PROVE ComposerInv'
  <2>1. /\ sent' = [sent EXCEPT ![i] = Nothing]
        /\ UNCHANGED <<mounted, instance, draft, valid, result, timer, saved, storageError, storage,
                       edits, published, overlapped>>
    BY <1>4 DEF Failed, page, shown
  <2>2. Sent' /\ sent'[i] = Nothing /\ (sent[instance] = Nothing => sent'[instance] = Nothing)
    BY <1>2, <2>1
  <2>3. Kept'
    BY <2>1, <2>2 DEF ComposerInv, Kept
  <2>4. QED
    BY <2>1, <2>2, <2>3 DEF ComposerInv, SavedIsStored, NothingUnsaved, PublishedIsGone
<1>5. QED
  BY <1>1, <1>3, <1>4

(***************************************************************************)
(* For any number of edits, openings and publications: a draft that is     *)
(* said to be saved is stored, no other goes without a timer or a warning, *)
(* and a draft that was published does not come back.                      *)
(***************************************************************************)
THEOREM TheDraftsAreKept == ComposerSpec => []DraftsAreKept
<1>1. ComposerInit => ComposerInv
  <2> SUFFICES ASSUME ComposerInit PROVE ComposerInv
    OBVIOUS
  <2>1. Kept
    <3>1. /\ instance \in 0 .. MaxInstances /\ edits \in 0 .. MaxEdits
          /\ draft \in Drafts /\ storage \in Drafts \cup {Nothing}
          /\ published \subseteq Drafts \ {Initial}
      BY ComposerAssumption DEF ComposerInit, Drafts, Initial
    <3>2. QED
      BY <3>1 DEF ComposerInit, Kept
  <2>2. Sent
    BY DEF ComposerInit, Sent
  <2>3. QED
    BY <2>1, <2>2 DEF ComposerInit, ComposerInv, SavedIsStored, NothingUnsaved, PublishedIsGone
<1>2. ComposerInv /\ [ComposerNext]_composerVars => ComposerInv'
  <2> SUFFICES ASSUME ComposerInv, [ComposerNext]_composerVars PROVE ComposerInv'
    OBVIOUS
  <2>1. CASE ComposerNext
    BY <2>1, EditorSteps, InstanceSteps, PublicationSteps DEF ComposerNext
  <2>2. CASE UNCHANGED composerVars
    BY <2>2 DEF composerVars, page, shown, outside, ComposerInv, Kept, Sent, SavedIsStored,
                NothingUnsaved, PublishedIsGone
  <2>3. QED
    BY <2>1, <2>2
<1>3. ComposerInv => DraftsAreKept
  BY DEF ComposerInv, Kept, Sent, Publications, ComposerTypeOK, DraftsAreKept
<1>4. QED
  BY <1>1, <1>2, <1>3, PTL DEF ComposerSpec

-----------------------------------------------------------------------------
(***************************************************************************)
(* The audio player.  A call of the element's play that is settled after   *)
(* its track was left belongs to an earlier generation.                    *)
(***************************************************************************)
OfTheTrack(call) == call.request = generation => call.track = track /\ call.track \in Tracks

PlayerInv ==
    /\ PlayerTypeOK
    /\ paused \in BOOLEAN /\ unavailable \in BOOLEAN /\ silent \in BOOLEAN /\ error \in BOOLEAN
    /\ \A c \in waiting : c.track \in Tracks
    /\ \A s \in settled : s.call.request <= generation /\ OfTheTrack(s.call)
    /\ \A c \in waiting : c.request \in Nat
    /\ \A s \in settled : s.call.request \in Nat
    /\ FailuresAreOfTheTrack
    /\ RetriesLoad

\* The plugin's calls go into the next generation.
LEMMA PlayerRequests ==
    ASSUME PlayerInv
    PROVE  /\ \A t \in Tracks : Play(t) => PlayerInv'
           /\ Pause => PlayerInv'
           /\ Close => PlayerInv'
<1>1. /\ track \in Tracks \cup {NoTrack} /\ src = track
      /\ generation \in 0 .. MaxRequests /\ MaxRequests \in Nat
      /\ events \subseteq {"play", "pause", "error"}
      /\ paused \in BOOLEAN /\ unavailable \in BOOLEAN /\ silent \in BOOLEAN /\ error \in BOOLEAN
      /\ \A c \in waiting : /\ c.request \in Nat /\ c.request <= generation
                            /\ c.track = track /\ c.track \in Tracks
      /\ waiting # {} => ~silent /\ ~error
      /\ \A s \in settled : s.call.request \in Nat /\ s.call.request <= generation
      /\ unavailable => track # NoTrack /\ blamed = track
  BY AudioPlayerAssumption DEF PlayerInv, PlayerTypeOK, FailuresAreOfTheTrack, RetriesLoad
\* What was waiting and is rejected belongs to an earlier generation from now on.
<1>2. ASSUME NEW calls \in SUBSET waiting, generation' = generation + 1
      PROVE  \A s \in Settled(calls, FALSE) :
                s.call.request \in Nat /\ s.call.request <= generation' /\ s.call.request # generation'
  BY <1>1, <1>2 DEF Settled
<1>3. ASSUME generation' = generation + 1
      PROVE  \A s \in settled : s.call.request <= generation' /\ s.call.request # generation'
  BY <1>1, <1>3
<1>4. ASSUME NEW t \in Tracks, Play(t) PROVE PlayerInv'
  <2> DEFINE call == Call(generation + 1, t)
             reload == ~SameTrack(t)
             aborted == IF reload THEN waiting ELSE {}
             quiet == silent \/ reload
  <2>1. /\ generation < MaxRequests /\ generation' = generation + 1 /\ unavailable' = FALSE
        /\ track' = (IF reload THEN t ELSE track) /\ src' = track'
        /\ error' = (error /\ ~reload) /\ paused' = paused
        /\ \/ /\ silent' = FALSE /\ waiting' = (waiting \ aborted) \cup {call}
              /\ settled' = settled \cup Settled(aborted, FALSE)
           \/ /\ silent' = quiet /\ waiting' = waiting \ aborted
              /\ settled' = settled \cup Settled(aborted \cup {call}, FALSE)
        /\ events' \subseteq {"play", "pause", "error"}
    BY <1>1, <1>4 DEF Play, Silenced
  <2>2. call.request = generation' /\ call.track = t /\ generation' \in Nat /\ generation' \in 0 .. MaxRequests
    BY <1>1, <2>1 DEF Call
  <2>3. track' = t /\ error' = FALSE
    BY <1>1, <2>1 DEF SameTrack
  <2>4. aborted \in SUBSET waiting /\ \A c \in waiting \ aborted : track = t
    BY <1>1 DEF SameTrack
  <2>5. \A s \in Settled(aborted \cup {call}, FALSE) :
           s \in Settled(aborted, FALSE) \/ s.call = call
    BY DEF Settled
  <2>6. \A c \in waiting' : c \in waiting \ aborted \/ c = call
    BY <2>1
  <2>7. waiting' # {} => ~silent'
    BY <1>1, <2>1, <2>4 DEF SameTrack
  <2> HIDE DEF call, aborted, quiet
  <2>8. \A c \in waiting' : /\ c.request \in Nat /\ c.request <= generation'
                            /\ c.track = t
    BY <1>1, <2>1, <2>2, <2>4, <2>6
  <2>9. \A s \in settled' : /\ s.call.request \in Nat /\ s.call.request <= generation'
                            /\ s.call.request = generation' => s.call.track = t
    <3>1. \A s \in Settled(aborted, FALSE) :
             s.call.request \in Nat /\ s.call.request <= generation' /\ s.call.request # generation'
      BY <1>2, <2>1, <2>4
    <3>2. \A s \in settled :
             s.call.request \in Nat /\ s.call.request <= generation' /\ s.call.request # generation'
      BY <1>1, <1>3, <2>1
    <3>3. \A s \in settled' : s \in settled \/ s \in Settled(aborted, FALSE) \/ s.call = call
      BY <2>1, <2>5
    <3>4. call.request \in Nat /\ call.request <= generation' /\ call.track = t
      BY <2>2
    <3> HIDE DEF Settled
    <3>5. QED
      BY <3>1, <3>2, <3>3, <3>4
  <2>10. PlayerTypeOK' /\ RetriesLoad' /\ FailuresAreOfTheTrack'
    BY <1>1, <2>1, <2>2, <2>3, <2>7, <2>8 DEF PlayerTypeOK, FailuresAreOfTheTrack, RetriesLoad
  <2>11. paused' \in BOOLEAN /\ unavailable' \in BOOLEAN /\ silent' \in BOOLEAN /\ error' \in BOOLEAN
    BY <1>1, <2>1, <2>3 DEF quiet
  <2>12. QED
    BY <2>3, <2>8, <2>9, <2>10, <2>11 DEF PlayerInv, OfTheTrack
<1>5. ASSUME Pause PROVE PlayerInv'
  <2>1. /\ generation < MaxRequests /\ generation' = generation + 1
        /\ silent' = TRUE /\ waiting' = {} /\ settled' = settled \cup Settled(waiting, FALSE)
        /\ events' \subseteq {"play", "pause", "error"} /\ paused' \in BOOLEAN
        /\ UNCHANGED <<track, unavailable, src, error, blamed>>
    BY <1>1, <1>5 DEF Pause, Sync, Silenced
  <2>2. \A s \in settled' : s.call.request \in Nat /\ s.call.request <= generation'
                            /\ s.call.request # generation'
    BY <1>1, <1>2, <1>3, <2>1
  <2>3. generation' \in 0 .. MaxRequests
    BY <1>1, <2>1
  <2>4. PlayerTypeOK' /\ RetriesLoad' /\ FailuresAreOfTheTrack'
    BY <1>1, <2>1, <2>3 DEF PlayerTypeOK, FailuresAreOfTheTrack, RetriesLoad
  <2>5. paused' \in BOOLEAN /\ unavailable' \in BOOLEAN /\ silent' \in BOOLEAN /\ error' \in BOOLEAN
    BY <1>1, <2>1
  <2>6. QED
    BY <2>1, <2>2, <2>4, <2>5 DEF PlayerInv, OfTheTrack
<1>6. ASSUME Close PROVE PlayerInv'
  <2>1. /\ generation < MaxRequests /\ generation' = generation + 1
        /\ silent' = TRUE /\ waiting' = {} /\ settled' = settled \cup Settled(waiting, FALSE)
        /\ events' \subseteq {"play", "pause", "error"}
        /\ track' = NoTrack /\ src' = NoTrack /\ error' = FALSE /\ paused' = TRUE
        /\ unavailable' = FALSE
    BY <1>1, <1>6 DEF Close, Silenced
  <2>2. \A s \in settled' : s.call.request \in Nat /\ s.call.request <= generation'
                            /\ s.call.request # generation'
    BY <1>1, <1>2, <1>3, <2>1
  <2>3. generation' \in 0 .. MaxRequests
    BY <1>1, <2>1
  <2>4. PlayerTypeOK' /\ RetriesLoad' /\ FailuresAreOfTheTrack'
    BY <1>1, <2>1, <2>3 DEF PlayerTypeOK, FailuresAreOfTheTrack, RetriesLoad
  <2>5. paused' \in BOOLEAN /\ unavailable' \in BOOLEAN /\ silent' \in BOOLEAN /\ error' \in BOOLEAN
    BY <1>1, <2>1
  <2>6. QED
    BY <2>1, <2>2, <2>4, <2>5 DEF PlayerInv, OfTheTrack
<1>7. QED
  BY <1>4, <1>5, <1>6

\* What the element does is of the track that is shown.
LEMMA ElementSteps ==
    ASSUME PlayerInv
    PROVE  /\ Playing => PlayerInv'
           /\ Break => PlayerInv'
           /\ Stop => PlayerInv'
<1>1. \A ok \in BOOLEAN : \A s \in Settled(waiting, ok) :
         /\ s.call.request \in Nat /\ s.call.request <= generation
         /\ s.call.track = track /\ s.call.track \in Tracks
  BY DEF PlayerInv, PlayerTypeOK, Settled
<1>2. ASSUME Playing PROVE PlayerInv'
  BY <1>1, <1>2
  DEF Playing, PlayerInv, PlayerTypeOK, FailuresAreOfTheTrack, RetriesLoad, OfTheTrack
<1>3. ASSUME Break PROVE PlayerInv'
  BY <1>1, <1>3
  DEF Break, PlayerInv, PlayerTypeOK, FailuresAreOfTheTrack, RetriesLoad, OfTheTrack
<1>4. ASSUME Stop PROVE PlayerInv'
  BY <1>1, <1>4
  DEF Stop, Silenced, PlayerInv, PlayerTypeOK, FailuresAreOfTheTrack, RetriesLoad, OfTheTrack
<1>5. QED
  BY <1>2, <1>3, <1>4

LEMMA NoticingSteps ==
    ASSUME PlayerInv
    PROVE  /\ \A s \in settled : Notice(s) => PlayerInv'
           /\ \A e \in events : Deliver(e) => PlayerInv'
<1>1. ASSUME NEW s \in settled, Notice(s) PROVE PlayerInv'
  <2>1. /\ settled' \subseteq settled
        /\ UNCHANGED <<track, generation, src, silent, error, waiting, events>>
        /\ paused' \in BOOLEAN /\ unavailable' \in BOOLEAN
    BY <1>1 DEF Notice, Sync, PlayerInv, element
  <2>2. unavailable' => track # NoTrack /\ blamed' = track
    <3>1. CASE ~Current(s.call.request)
      BY <1>1, <3>1 DEF Notice, PlayerInv, FailuresAreOfTheTrack
    <3>2. CASE Current(s.call.request)
      <4>1. s.call.track = track /\ track # NoTrack
        BY <3>2, AudioPlayerAssumption DEF Current, PlayerInv, OfTheTrack
      <4>2. unavailable' = (unavailable \/ ~s.ok) /\ blamed' = (IF s.ok THEN blamed ELSE s.call.track)
        BY <1>1, <3>2 DEF Notice
      <4>3. QED
        BY <4>1, <4>2 DEF PlayerInv, FailuresAreOfTheTrack
    <3>3. QED
      BY <3>1, <3>2
  <2>3. QED
    BY <2>1, <2>2 DEF PlayerInv, PlayerTypeOK, FailuresAreOfTheTrack, RetriesLoad, OfTheTrack
<1>2. ASSUME NEW e \in events, Deliver(e) PROVE PlayerInv'
  <2>1. /\ events' \subseteq events
        /\ UNCHANGED <<track, generation, src, silent, error, waiting, settled>>
        /\ paused' \in BOOLEAN /\ unavailable' \in BOOLEAN
    BY <1>2 DEF Deliver, Sync, PlayerInv
  <2>2. unavailable' => track # NoTrack /\ blamed' = track
    BY <1>2 DEF Deliver, PlayerInv, PlayerTypeOK, FailuresAreOfTheTrack
  <2>3. QED
    BY <2>1, <2>2 DEF PlayerInv, PlayerTypeOK, FailuresAreOfTheTrack, RetriesLoad, OfTheTrack
<1>3. QED
  BY <1>1, <1>2

(***************************************************************************)
(* For any tracks and any number of calls, and however late the element's  *)
(* promises and events arrive: the player blames the track it shows only,  *)
(* and a track that failed is loaded again when it is asked for.           *)
(***************************************************************************)
THEOREM TheTrackIsShown == PlayerSpec => []PlayerShowsTheTrack
<1>1. PlayerInit => PlayerInv
  <2> SUFFICES ASSUME PlayerInit PROVE PlayerInv
    OBVIOUS
  <2>1. PlayerTypeOK
    BY AudioPlayerAssumption DEF PlayerInit, PlayerTypeOK
  <2>2. QED
    BY <2>1 DEF PlayerInit, PlayerInv, FailuresAreOfTheTrack, RetriesLoad
<1>2. PlayerInv /\ [PlayerNext]_playerVars => PlayerInv'
  <2> SUFFICES ASSUME PlayerInv, [PlayerNext]_playerVars PROVE PlayerInv'
    OBVIOUS
  <2>1. CASE PlayerNext
    BY <2>1, PlayerRequests, ElementSteps, NoticingSteps DEF PlayerNext, Noticing
  <2>2. CASE UNCHANGED playerVars
    BY <2>2 DEF playerVars, element, PlayerInv, PlayerTypeOK, FailuresAreOfTheTrack,
                RetriesLoad, OfTheTrack
  <2>3. QED
    BY <2>1, <2>2
<1>3. PlayerInv => PlayerShowsTheTrack
  BY DEF PlayerInv, PlayerShowsTheTrack
<1>4. QED
  BY <1>1, <1>2, <1>3, PTL DEF PlayerSpec
=============================================================================
