\* Two administrators' windows and a reader; or a feed of five posts in pages
\* of two, left once.
SPECIFICATION PostsPartsSpec
CONSTANTS
    Clients = {c1, c2}
    Readers = {reader}
    t1 = t1
    t2 = t2
    Titles <- MCTitles
    NamedSlugs <- MCNamedSlugs
    MaxPosts = 3
    MaxRequests = 3
    None = None
    MaxFeed = 5
    MaxTime = 1
    Limit = 2
    MaxAway = 1
    MaxFails = 1
    MaxBack = 1
    Missing = Missing
INVARIANTS
    LinksLead
    RefusalsAreTrue
    FeedContinues
PROPERTIES
    Answered
    ReachesEnd
\* The bounds on posts and requests end a behaviour.
CHECK_DEADLOCK FALSE
