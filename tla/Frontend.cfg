\* A form with three instants in a second, challenges good for two seconds; or
\* a composer with three edits, three openings and two publications; or a
\* player with two tracks and five calls.
SPECIFICATION FrontendSpec
CONSTANTS
    Second = 3
    Ttl = 6
    MaxTime = 8
    MaxTokens = 3
    MaxTexts = 2
    MaxEdits = 3
    MaxInstances = 3
    MaxSends = 2
    Nothing = Nothing
    Tracks = {t1, t2}
    MaxRequests = 5
INVARIANTS
    FormIsSound
    DraftsAreKept
    PlayerShowsTheTrack
PROPERTIES
    SendingEnds
    ButtonFollows
\* The bounds of each part end a behaviour.
CHECK_DEADLOCK FALSE
