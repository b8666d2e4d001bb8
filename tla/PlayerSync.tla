----------------------------- MODULE PlayerSync -----------------------------
(***************************************************************************)
(* The annotation tool's player: the cameras of an Episode, each in a      *)
(* video element, and a SyncController whose clock they follow.  A page    *)
(* keeps the player, and with it the controller, when it turns to the next *)
(* Episode; React hands the elements over again at each rendering, and the *)
(* controller never lets go of one: an element that two Episodes share is  *)
(* also told where the first one's start_offset_ms puts it.                *)
(*                                                                         *)
(* A unit of time is MAX_DRIFT_MS.  The page's own position, which the     *)
(* timeline shows, is not a state of the player: a click there moves no    *)
(* video.                                                                  *)
(***************************************************************************)
EXTENDS Integers

CONSTANTS Camera,
          Length,       \* of a camera's video
          Offset,       \* values of start_offset_ms
          MaxClock      \* bound: the clock's position

ASSUME PlayerAssumption ==
    Length \in Nat /\ MaxClock \in Nat /\ Offset \subseteq Nat /\ Offset # {}

VARIABLES offset,       \* of each camera of the Episode shown, its stream's
          handed,       \* the last rendering gave the buttons the controller
          tracks,       \* cameras whose element is attached
          older,        \* offsets at which it was attached for earlier Episodes
          clock, playing, rate,
          ticking,      \* lastTickMs # null
          video,        \* the elements
          untold        \* what an element does not do although play() or setRate() was called

clockVars == <<clock, playing, rate, ticking>>
episodeVars == <<offset, older>>
playerVars == <<episodeVars, handed, tracks, clockVars, video, untold>>

------------------------------------------------------------------------------
Drift == 1
Rate == {1, 2}

Video == [position : 0 .. Length, playing : BOOLEAN, rate : Rate]

\* Those of the Episode shown.
cameras == DOMAIN offset

Offsets == UNION {[some -> Offset] : some \in SUBSET Camera}

\* A new element, or one whose src has changed.
Loaded == [position |-> 0, playing |-> FALSE, rate |-> 1]

\* "play", "rate": it was not told.  "ended": it has played to its end since.
Missable == Camera \X {"play", "rate", "ended"}

Within(n, low, high) == IF n < low THEN low ELSE IF n > high THEN high ELSE n

\* Where a video with that offset should be, or its end.
Target(off, time) == Within(time - off, 0, Length)
TargetAt(c, time) == Target(offset[c], time)

Near(position, target) == position <= target + Drift /\ target <= position + Drift

\* The first rendering hands the elements over before the effect makes the controller.
PlayerInit ==
    /\ offset \in Offsets
    /\ handed = FALSE
    /\ tracks = {} /\ older = [c \in Camera |-> {}]
    /\ clock = 0 /\ playing = FALSE /\ rate = 1 /\ ticking = FALSE
    /\ video = [c \in Camera |-> Loaded]
    /\ untold = {}

------------------------------------------------------------------------------
\* applyToTrack, of the track of the Episode shown, which each element got last: a video that
\* is near enough is left alone.
Applied(videos, time, attached) ==
    [c \in Camera |->
        IF c \notin attached \/ Near(videos[c].position, TargetAt(c, time)) THEN videos[c]
        ELSE [videos[c] EXCEPT !.position = TargetAt(c, time)]]

\* Where the tracks before it, if there are any, leave an attached element that is at position.
LeftAt(c, position, time) ==
    {position} \cup IF c \in tracks THEN {Target(off, time) : off \in older[c]} ELSE {}

\* Mutant: a ref that stays the same is not called again.
RendersStable(videos, time) ==
    /\ handed' = TRUE
    /\ UNCHANGED tracks
    /\ video' = Applied(videos, time, tracks)

\* A rendering: every element is attached, again if it was, and moved; the buttons get the
\* controller.  An element that is attached twice at one offset is told everything twice, and
\* one that has left the page is told, too: neither shows.
Renders(videos, time) ==
    /\ handed' = TRUE
    /\ tracks' = cameras
    /\ video' = Applied(videos, time, cameras)

\* The page renders for a reason of its own.
Rerender ==
    /\ Renders(video, clock)
    /\ UNCHANGED <<episodeVars, clockVars, untold>>

\* The page turns to the next Episode: a camera that this has, too, keeps its element, and
\* the element its track.
Turn(next) ==
    /\ offset' = next
    /\ older' = [c \in Camera |->
                    IF c \in cameras' \cap tracks THEN older[c] \cup {offset[c]} ELSE {}]
    /\ handed' = TRUE
    /\ tracks' = cameras'
    /\ video' = [c \in Camera |->
                    IF c \notin cameras' \/ Near(0, Target(next[c], clock)) THEN Loaded
                    ELSE [Loaded EXCEPT !.position = Target(next[c], clock)]]
    /\ untold' = {m \in cameras' \X {"play", "rate"} : IF m[2] = "play" THEN playing ELSE rate # 1}
    /\ UNCHANGED clockVars

\* The page goes, or shows no Episode; dispose.
Unmount ==
    /\ offset' \in Offsets
    /\ handed' = FALSE
    /\ tracks' = {} /\ older' = [c \in Camera |-> {}]
    /\ clock' = 0 /\ playing' = FALSE /\ rate' = 1 /\ ticking' = FALSE
    /\ video' = [c \in Camera |-> Loaded]
    /\ untold' = {}

------------------------------------------------------------------------------
\* The buttons, dead before the second rendering.  Each change is emitted, and rendered.

\* An element that is told to play plays, one that has ended from its start.
Started(v) == [v EXCEPT !.playing = TRUE, !.position = IF @ = Length THEN 0 ELSE @]

\* A browser may reject play().
Play(rejected) ==
    /\ handed /\ ~playing
    /\ rejected \subseteq tracks
    /\ playing' = TRUE /\ ticking' = FALSE
    /\ Renders([c \in Camera |-> IF c \in tracks \ rejected THEN Started(video[c]) ELSE video[c]], clock)
    /\ untold' = {m \in untold : m[2] = "rate"} \cup (rejected \X {"play"})
    /\ UNCHANGED <<episodeVars, clock, rate>>

Pause ==
    /\ handed /\ playing
    /\ playing' = FALSE /\ ticking' = FALSE
    /\ Renders([c \in Camera |-> [video[c] EXCEPT !.playing = @ /\ c \notin tracks]], clock)
    /\ untold' = {m \in untold : m[2] = "rate"}
    /\ UNCHANGED <<episodeVars, clock, rate>>

\* Each track moves its element, in the order in which they were attached.
Seek(time, places) ==
    /\ handed
    /\ \A c \in Camera : places[c] \in LeftAt(c, video[c].position, time)
    /\ clock' = time
    /\ Renders([c \in Camera |-> [video[c] EXCEPT !.position = places[c]]], time)
    /\ UNCHANGED <<episodeVars, playing, rate, ticking, untold>>

SetRate(r) ==
    /\ handed
    /\ rate' = r
    /\ Renders([c \in Camera |-> [video[c] EXCEPT !.rate = IF c \in tracks THEN r ELSE @]], clock)
    /\ untold' = {m \in untold : m[2] # "rate"}
    /\ UNCHANGED <<episodeVars, clock, playing, ticking>>

\* A video that has reached its end, by itself or because it was moved there, pauses.
Ends(c) ==
    /\ video[c].playing /\ video[c].position = Length
    /\ video' = [video EXCEPT ![c].playing = FALSE]
    /\ untold' = untold \cup {<<c, "ended">>}
    /\ UNCHANGED <<episodeVars, handed, tracks, clockVars>>

\* In a unit of time a playing video plays some of it, or stalls.
Played(c) ==
    IF video[c].playing
    THEN video[c].position .. Within(video[c].position + video[c].rate, 0, Length)
    ELSE {video[c].position}

\* Mutant: each frame moves the clock, and leaves the videos to play.
FrameUncorrected(places) ==
    /\ playing
    /\ \A c \in Camera : places[c] \in Played(c)
    /\ IF ticking
       THEN clock + rate <= MaxClock /\ clock' = clock + rate
       ELSE UNCHANGED clock
    /\ video' = [c \in Camera |-> [video[c] EXCEPT !.position = places[c]]]
    /\ ticking' = TRUE
    /\ UNCHANGED <<episodeVars, handed, tracks, playing, rate, untold>>

\* tick, once each unit of time.  The first after play() only notes the time.  The clock
\* does not stop at the end of the Episode.
Frame(places) ==
    /\ playing
    /\ IF ticking
       THEN /\ clock + rate <= MaxClock
            /\ clock' = clock + rate
            /\ \A c \in Camera :
                  places[c] \in UNION {LeftAt(c, position, clock') : position \in Played(c)}
            /\ Renders([c \in Camera |-> [video[c] EXCEPT !.position = places[c]]], clock')
       ELSE /\ \A c \in Camera : places[c] \in Played(c)
            /\ video' = [c \in Camera |-> [video[c] EXCEPT !.position = places[c]]]
            /\ UNCHANGED <<clock, handed, tracks>>
    /\ ticking' = TRUE
    /\ UNCHANGED <<episodeVars, playing, rate, untold>>

------------------------------------------------------------------------------
PlayerNext ==
    \/ Rerender \/ Pause \/ Unmount
    \/ \E rejected \in SUBSET Camera : Play(rejected)
    \/ \E next \in Offsets : Turn(next)
    \/ \E places \in [Camera -> 0 .. Length] :
         Frame(places) \/ \E time \in 0 .. MaxClock : Seek(time, places)
    \/ \E r \in Rate : SetRate(r)
    \/ \E c \in Camera : Ends(c)

PlayerSpec == PlayerInit /\ [][PlayerNext]_playerVars

------------------------------------------------------------------------------
\* The types of all parts.
PlayerTypeOK ==
    /\ offset \in Offsets /\ tracks \subseteq Camera
    /\ older \in [Camera -> SUBSET Offset]
    /\ handed \in BOOLEAN /\ playing \in BOOLEAN /\ ticking \in BOOLEAN
    /\ clock \in 0 .. MaxClock
    /\ rate \in Rate
    /\ video \in [Camera -> Video]
    /\ untold \subseteq Missable

\* Whenever the clock moves, each camera on the page is where the clock and its own Episode's
\* offset say, or near, although its element may also be told an earlier Episode's.  And each
\* plays as the clock does and at its rate, whichever renderings, Episodes and clicks came
\* before: except, until the next play() or setRate(), a video that was loaded under a playing
\* clock or another rate, that has come to its end, or whose play() was rejected.
CamerasFollow ==
    [][/\ clock' # clock /\ cameras' = cameras =>
             \A c \in cameras : Near(video'[c].position, TargetAt(c, clock)')
       /\ \A c \in cameras' :
             /\ <<c, "play">> \notin untold' /\ <<c, "ended">> \notin untold' =>
                    video'[c].playing = playing'
             /\ <<c, "rate">> \notin untold' => video'[c].rate = rate']_playerVars
=============================================================================
