----------------------------- MODULE FeedPaging -----------------------------
(***************************************************************************)
(* The feed, page after page, while posts are created and deleted          *)
(* (backend/internal/posts/posts.go: Feed and its cursor;                  *)
(* frontend/app/pages/index.vue: loadMore; utils/feed.ts: appendFeedPage). *)
(* A page is one statement of the database.  The reader leaves the feed    *)
(* and comes back, which aborts what is under way; an aborted request may  *)
(* settle late.                                                            *)
(***************************************************************************)
EXTENDS Integers, SequencesExt

CONSTANTS
    MaxFeed,   \* bound: posts ever created
    MaxTime,    \* bound of the clock, in seconds
    Limit,      \* the page size
    MaxAway,    \* bound: times the reader leaves the feed
    MaxFails,   \* bound: failed requests
    MaxBack,    \* bound: steps of the clock backwards
    Missing

ASSUME FeedAssumption ==
    /\ MaxFeed \in Nat /\ MaxTime \in Nat /\ MaxAway \in Nat /\ MaxFails \in Nat /\ MaxBack \in Nat
    /\ Limit \in Nat \ {0}
    /\ Missing \notin 0 .. MaxTime

VARIABLES
    feed,    \* created_at of each post there is
    lastFeedId, now,
    shown,    \* the ids of the loaded cards
    cursor,   \* next_cursor: the second and the id of the last card
    loaded,   \* loadedCursors
    loading,  \* loadingMore
    load,  \* the request under way
    visit,    \* the AbortController: one for each visit
    away,     \* its signal is aborted
    fails, backs,
    since     \* history: the posts there were at the first page

feedVars == <<feed, lastFeedId, now, shown, cursor, loaded, loading, load, visit,
          away, fails, backs, since>>

\* No cursor yet, which is newer than every post; no cursor any more.
NewestFirst == <<MaxTime + 1, 0>>
End == <<-1, 0>>

server == <<feed, lastFeedId, now, backs>>

FeedIds == 1 .. MaxFeed
Existing == {id \in FeedIds : feed[id] # Missing}
Free == [step |-> "free", cursor |-> Missing, visit |-> 0, page |-> <<>>, next |-> Missing]

FeedInit ==
    /\ feed = [id \in FeedIds |-> Missing]
    /\ lastFeedId = 0 /\ now = 0 /\ backs = 0
    /\ shown = <<>> /\ cursor = NewestFirst /\ loaded = {}
    /\ loading = FALSE /\ away = FALSE /\ visit = 0 /\ fails = 0
    /\ load = Free
    /\ since = {}

-----------------------------------------------------------------------------
Key(id) == <<feed[id], id>>

\* The WHERE of the query; mutant: the second alone.
OlderBySecond(key, boundary) == key[1] < boundary[1]

Older(key, boundary) ==
    key[1] < boundary[1] \/ (key[1] = boundary[1] /\ key[2] < boundary[2])

\* The posts after the cursor, ...
After(c) == {id \in Existing : Older(Key(id), c)}

\* ... the newest first.
Precedes(i, j) == feed[j] < feed[i] \/ (feed[i] = feed[j] /\ j < i)

\* Feed: a page of them, and the cursor after it when one more was found.
Feed(c) ==
    LET found == After(c)
        nth(n) == CHOOSE id \in found : Cardinality({i \in found : Precedes(i, id)}) = n - 1
        more == Cardinality(found) > Limit
        page == [n \in 1 .. IF more THEN Limit ELSE Cardinality(found) |-> nth(n)]
    IN  [page |-> page, next |-> IF more THEN Key(page[Limit]) ELSE End]

\* appendFeedPage: the cards that are new, in the order of the page.
AppendFeedPage(page) ==
    LET added == {n \in DOMAIN page : ~Contains(shown, page[n])}
        nth(k) == CHOOSE n \in added : Cardinality(added \cap (1 .. n)) = k
    IN  shown \o [k \in 1 .. Cardinality(added) |-> page[nth(k)]]

-----------------------------------------------------------------------------
\* Create and Delete of Posts.tla.
Publish ==
    /\ lastFeedId < MaxFeed /\ lastFeedId' = lastFeedId + 1
    /\ feed' = [feed EXCEPT ![lastFeedId'] = now]
    /\ UNCHANGED <<now, backs, shown, cursor, loaded, loading, load, visit, away, fails, since>>

Unpublish(id) ==
    /\ feed[id] # Missing
    /\ feed' = [feed EXCEPT ![id] = Missing]
    /\ UNCHANGED <<lastFeedId, now, backs, shown, cursor, loaded, loading, load, visit, away, fails, since>>

Tick ==
    /\ \/ now < MaxTime /\ now' = now + 1 /\ UNCHANGED backs
       \/ now > 0 /\ backs < MaxBack /\ now' = now - 1 /\ backs' = backs + 1
    /\ UNCHANGED <<feed, lastFeedId, shown, cursor, loaded, loading, load, visit, away, fails, since>>

\* The first page, with the page of the site (useAsyncData).
First ==
    /\ cursor = NewestFirst
    /\ LET first == Feed(NewestFirst)
       IN  shown' = first.page /\ cursor' = first.next
    /\ since' = Existing
    /\ UNCHANGED <<server, loaded, loading, load, visit, away, fails>>

LoadMore ==
    /\ cursor \notin {NewestFirst, End} /\ ~loading /\ ~away
    /\ load' = [Free EXCEPT !.step = "sent", !.cursor = cursor, !.visit = visit]
    /\ loading' = TRUE
    /\ UNCHANGED <<server, shown, cursor, loaded, visit, away, fails, since>>

Serve ==
    /\ load.step = "sent"
    /\ LET answer == Feed(load.cursor)
       IN  load' = [load EXCEPT !.step = "answered", !.page = answer.page, !.next = answer.next]
    /\ UNCHANGED <<server, shown, cursor, loaded, loading, visit, away, fails, since>>

Current == load.visit = visit /\ ~away

\* The answer of the present visit: a cursor that does not advance is an error.
Receive ==
    LET r == load
    IN  /\ r.step = "answered" /\ Current
        /\ IF r.next = r.cursor \/ r.next \in loaded
           THEN UNCHANGED <<shown, cursor, loaded>>
           ELSE /\ shown' = AppendFeedPage(r.page)
                /\ cursor' = r.next
                /\ loaded' = loaded \cup {r.cursor}
        /\ loading' = FALSE
        /\ load' = Free
        /\ UNCHANGED <<server, visit, away, fails, since>>

\* Mutant: an aborted request does not clear the flag.
SettleQuietly ==
    /\ load.step # "free" /\ ~Current
    /\ load' = Free
    /\ UNCHANGED <<server, shown, cursor, loaded, loading, visit, away, fails, since>>

\* A request that was aborted settles, answered or not.
Settle ==
    /\ load.step # "free" /\ ~Current
    /\ load' = Free
    /\ loading' = FALSE
    /\ UNCHANGED <<server, shown, cursor, loaded, visit, away, fails, since>>

\* The server or the network fails, or the request times out.
FailLoading ==
    /\ load.step # "free" /\ Current /\ fails < MaxFails
    /\ fails' = fails + 1
    /\ loading' = FALSE
    /\ load' = Free
    /\ UNCHANGED <<server, shown, cursor, loaded, visit, away, since>>

\* onDeactivated.
Leave ==
    /\ ~away /\ visit < MaxAway /\ away' = TRUE
    /\ UNCHANGED <<server, shown, cursor, loaded, loading, load, visit, fails, since>>

\* onActivated: a new controller.
Return ==
    /\ away /\ away' = FALSE /\ visit' = visit + 1
    /\ UNCHANGED <<server, shown, cursor, loaded, loading, load, fails, since>>

FeedNext ==
    \/ Publish \/ Tick \/ First \/ LoadMore \/ Leave \/ Return
    \/ \E id \in FeedIds : Unpublish(id)
    \/ Serve \/ Receive \/ Settle \/ FailLoading

\* Requests are answered or settle, and the reader comes back and reads on.
\* The bounds end every behaviour, so that one condition will do for them all.
Reading == First \/ LoadMore \/ Return \/ Serve \/ Receive \/ Settle

FeedFairness == WF_feedVars(Reading)

FeedSpec == FeedInit /\ [][FeedNext]_feedVars /\ FeedFairness

-----------------------------------------------------------------------------
Cursors == ((0 .. MaxTime) \X FeedIds) \cup {NewestFirst, End}

FeedTypeOK ==
    /\ feed \in [FeedIds -> (0 .. MaxTime) \cup {Missing}]
    /\ lastFeedId \in 0 .. MaxFeed /\ now \in 0 .. MaxTime
    /\ shown \in Seq(FeedIds) /\ cursor \in Cursors /\ loaded \subseteq Cursors
    /\ loading \in BOOLEAN /\ away \in BOOLEAN /\ visit \in 0 .. MaxAway
    /\ since \subseteq FeedIds
    /\ load.step \in {"free", "sent", "answered"}
    /\ load.step # "free" => load.cursor \in Cursors /\ load.cursor \notin {NewestFirst, End}
    /\ loading <=> load.step # "free"

(***************************************************************************)
(* The cards are in the order of the feed, and an answer continues it: no  *)
(* page repeats a card or belongs before one, though posts were created    *)
(* and deleted between the pages and the clock may have gone back (Feed's  *)
(* keyset; appendFeedPage need not drop anything).                         *)
(***************************************************************************)
PagesContinue ==
    LET Ordered(ids) == \A i, j \in DOMAIN ids :
            i < j /\ {ids[i], ids[j]} \subseteq Existing => Older(Key(ids[j]), Key(ids[i]))
    IN  /\ Ordered(shown)
        /\ load.step = "answered" /\ load.cursor = cursor =>
              /\ \A id \in Range(load.page) : ~Contains(shown, id)
              /\ Ordered(shown \o load.page)

(***************************************************************************)
(* A post that was there when the reader began, and still is, is not       *)
(* skipped: when the cursor has passed it, it is among the cards, whatever *)
(* was created, deleted, aborted or loaded twice meanwhile (Feed's keyset, *)
(* the order of the second and the id).                                    *)
(***************************************************************************)
NothingSkipped ==
    \A id \in since \cap Existing : ~Older(Key(id), cursor) => Contains(shown, id)

(***************************************************************************)
(* What a reader has of the feed is a part of it without repetitions, gaps *)
(* or disorder, while posts come and go and answers are late, lost or      *)
(* stale.                                                                  *)
(***************************************************************************)
FeedContinues == FeedTypeOK /\ PagesContinue /\ NothingSkipped

(***************************************************************************)
(* A reader who reads on reaches the end of the feed: cursors advance,     *)
(* and neither an aborted nor a failed request blocks the next (the        *)
(* finally of loadMore).                                                   *)
(***************************************************************************)
ReachesEnd == <>(cursor = End)
=============================================================================
