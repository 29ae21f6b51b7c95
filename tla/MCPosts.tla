------------------------------- MODULE MCPosts -------------------------------
(***************************************************************************)
(* The posts for TLC: the requests that write them and follow their links, *)
(* or a reader of the feed.  These share no state that a property is       *)
(* about, so that a behaviour is one of the two, and the other rests where *)
(* a behaviour of it may end.                                              *)
(***************************************************************************)
EXTENDS Posts, FeedPaging

VARIABLE part

CONSTANTS t1, t2

\* A named slug may be the one that Create derives from a title.
MCTitles == {t1, t2}
MCNamedSlugs == {<<t1, 0>>, <<t1, 2>>}

\* The reader has read an empty feed.
FeedAtRest ==
    /\ feed = [id \in FeedIds |-> Missing]
    /\ lastFeedId = 0 /\ now = 0 /\ backs = 0
    /\ shown = <<>> /\ cursor = End /\ loaded = {} /\ since = {}
    /\ loading = FALSE /\ away = FALSE /\ visit = 0 /\ fails = 0 /\ load = Free

\* Init of the posts is a state in which nobody has asked for anything.
PostsPartsInit ==
    /\ part \in {"posts", "feed"}
    /\ Init
    /\ IF part = "feed" THEN FeedInit ELSE FeedAtRest

PostsPartsNext ==
    /\ UNCHANGED part
    /\ \/ part = "posts" /\ Next /\ UNCHANGED feedVars
       \/ part = "feed" /\ FeedNext /\ UNCHANGED vars

PostsPartsSpec ==
    /\ PostsPartsInit /\ [][PostsPartsNext]_<<part, vars, feedVars>>
    /\ Fairness /\ FeedFairness
=============================================================================
