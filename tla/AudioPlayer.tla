----------------------------- MODULE AudioPlayer -----------------------------
(***************************************************************************)
(* The audio player of the site (frontend/app/plugins/audio.ts: play,      *)
(* pause, close, sync, failed).  One audio element plays what any post     *)
(* asks for; its promises and events come back later, when other tracks    *)
(* may have been asked for.  The element is the browser's: it is modelled  *)
(* from how the plugin uses it.                                            *)
(***************************************************************************)
EXTENDS Naturals

CONSTANTS
    Tracks,      \* the sources of the audio blocks of the posts
    MaxRequests  \* bound: calls of play, pause and close

NoTrack == "none"

ASSUME AudioPlayerAssumption == MaxRequests \in Nat /\ NoTrack \notin Tracks

VARIABLES
    track,       \* state.track of the page, or NoTrack
    paused,      \* state.paused
    unavailable, \* state.failed
    generation,
    src,         \* the element: what it has to play, or NoTrack,
    silent,      \* its paused,
    error,       \* its error,
    waiting,     \* the calls of its play() that are not settled,
    settled,     \* those that are, but not yet noticed by the plugin,
    events,      \* and its events that are not yet delivered
    blamed       \* history: the track whose failure the page last noticed

element == <<src, silent, error, waiting, events>>
playerVars == <<track, paused, unavailable, generation, element, settled, blamed>>

PlayerInit ==
    /\ track = NoTrack /\ paused = TRUE /\ unavailable = FALSE
    /\ generation = 0
    /\ src = NoTrack /\ silent = TRUE /\ error = FALSE
    /\ waiting = {} /\ settled = {} /\ events = {}
    /\ blamed = NoTrack

-----------------------------------------------------------------------------
\* A call of the element's play(), by the plugin's request and the track.
Call(request, t) == [request |-> request, track |-> t]

Settled(calls, ok) == {[call |-> c, ok |-> ok] : c \in calls}

\* The element falls silent: what waits is rejected, an event tells of it.
Silenced == IF silent THEN events ELSE events \cup {"pause"}

\* Only that it plays is shown.
SyncPlaying(t, isSilent) == paused' = (paused /\ isSilent)
\* sync, which does nothing without a track.
Sync(t, isSilent) == paused' = IF t = NoTrack THEN paused ELSE isSilent

-----------------------------------------------------------------------------
\* The same track goes on; another one, or one that failed, is loaded anew.
SameTrack(t) == track = t /\ ~error

\* play, up to the await: the element starts, or the browser forbids it.
Play(t) ==
    /\ generation < MaxRequests
    /\ generation' = generation + 1
    /\ unavailable' = FALSE
    /\ LET call    == Call(generation + 1, t)
           reload  == ~SameTrack(t)
           aborted == IF reload THEN waiting ELSE {}
           quiet   == silent \/ reload
       IN  /\ track' = (IF reload THEN t ELSE track) /\ src' = track'
           /\ error' = (error /\ ~reload)
           /\ \/ /\ silent' = FALSE
                 /\ waiting' = (waiting \ aborted) \cup {call}
                 /\ settled' = settled \cup Settled(aborted, FALSE)
                 /\ events' = (IF reload THEN Silenced ELSE events)
                                \cup (IF quiet THEN {"play"} ELSE {})
              \/ /\ silent' = quiet
                 /\ waiting' = waiting \ aborted
                 /\ settled' = settled \cup Settled(aborted \cup {call}, FALSE)
                 /\ events' = IF reload THEN Silenced ELSE events
    /\ UNCHANGED <<paused, blamed>>

\* pause: what is under way is of no interest any more.
Pause ==
    /\ track # NoTrack /\ generation < MaxRequests
    /\ generation' = generation + 1
    /\ silent' = TRUE /\ events' = Silenced
    /\ waiting' = {} /\ settled' = settled \cup Settled(waiting, FALSE)
    /\ Sync(track, TRUE)
    /\ UNCHANGED <<track, unavailable, src, error, blamed>>

Close ==
    /\ track # NoTrack /\ generation < MaxRequests
    /\ generation' = generation + 1
    /\ src' = NoTrack /\ error' = FALSE
    /\ silent' = TRUE /\ events' = Silenced
    /\ waiting' = {} /\ settled' = settled \cup Settled(waiting, FALSE)
    /\ track' = NoTrack /\ paused' = TRUE /\ unavailable' = FALSE
    /\ UNCHANGED blamed

-----------------------------------------------------------------------------
\* The element has data and plays: every call is fulfilled.
Playing ==
    /\ waiting # {} /\ ~error
    /\ waiting' = {} /\ settled' = settled \cup Settled(waiting, TRUE)
    /\ UNCHANGED <<track, paused, unavailable, generation, src, silent, error, events, blamed>>

\* The source cannot be loaded or decoded; the element stays unpaused.
Break ==
    /\ src # NoTrack /\ ~error
    /\ error' = TRUE /\ events' = events \cup {"error"}
    /\ waiting' = {} /\ settled' = settled \cup Settled(waiting, FALSE)
    /\ UNCHANGED <<track, paused, unavailable, generation, src, silent, blamed>>

\* The end of the track, or the browser's own controls.
Stop ==
    /\ ~silent
    /\ silent' = TRUE /\ events' = Silenced
    /\ waiting' = {} /\ settled' = settled \cup Settled(waiting, FALSE)
    /\ UNCHANGED <<track, paused, unavailable, generation, src, error, blamed>>

\* Every answer counts, whatever was asked for since.
CurrentAlways(request) == track # NoTrack
\* play, after the await: only the latest request counts.
Current(request) == request = generation

Notice(s) ==
    /\ settled' = settled \ {s}
    /\ IF ~Current(s.call.request) THEN UNCHANGED <<paused, unavailable, blamed>>
       ELSE /\ Sync(track, silent)
            /\ unavailable' = (unavailable \/ ~s.ok)
            /\ blamed' = IF s.ok THEN blamed ELSE s.call.track
    /\ UNCHANGED <<track, generation, element>>

\* The player's handlers of the element's events: sync and failed.
Deliver(e) ==
    /\ events' = events \ {e}
    /\ \/ e # "error" /\ Sync(track, silent) /\ UNCHANGED <<unavailable, blamed>>
       \/ /\ e = "error" /\ track # NoTrack /\ error
          /\ unavailable' = TRUE /\ paused' = TRUE /\ blamed' = src
       \/ e = "error" /\ (track = NoTrack \/ ~error) /\ UNCHANGED <<paused, unavailable, blamed>>
    /\ UNCHANGED <<track, generation, src, silent, error, waiting, settled>>

Noticing == (\E s \in settled : Notice(s)) \/ \E e \in events : Deliver(e)

PlayerNext ==
    \/ (\E t \in Tracks : Play(t)) \/ Pause \/ Close
    \/ Playing \/ Break \/ Stop
    \/ Noticing

\* Promises and events are delivered.
PlayerFairness == WF_playerVars(Noticing)

PlayerSpec == PlayerInit /\ [][PlayerNext]_playerVars /\ PlayerFairness

-----------------------------------------------------------------------------
PlayerTypeOK ==
    /\ track \in Tracks \cup {NoTrack} /\ src = track
    /\ generation \in 0 .. MaxRequests
    /\ events \subseteq {"play", "pause", "error"}
    /\ \A c \in waiting : c.request <= generation /\ c.track = src
    /\ waiting # {} => ~silent

(***************************************************************************)
(* The page reports as unavailable the track it shows, not one that it has *)
(* left: neither a rejection nor an error event of an earlier track counts *)
(* (the generations of play, pause and close; media.error in failed).      *)
(***************************************************************************)
FailuresAreOfTheTrack ==
    unavailable => track # NoTrack /\ blamed = track

(***************************************************************************)
(* A track that failed can be tried again: once it is asked for anew, it   *)
(* is loaded anew (play's test of media.error).                            *)
(***************************************************************************)
RetriesLoad == waiting # {} => ~error

(***************************************************************************)
(* The player shows what happened to the track it shows: promises and      *)
(* events of earlier tracks change nothing, and a track that failed is     *)
(* loaded again when it is asked for.                                      *)
(***************************************************************************)
PlayerShowsTheTrack == PlayerTypeOK /\ FailuresAreOfTheTrack /\ RetriesLoad

(***************************************************************************)
(* In the end the button shows what the element does, whatever was asked   *)
(* for in which order (sync).  A track that is unavailable is excepted.    *)
(***************************************************************************)
ButtonFollows ==
    (track # NoTrack /\ paused # silent) ~> (track = NoTrack \/ unavailable \/ paused = silent)
=============================================================================
