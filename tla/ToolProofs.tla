----------------------------- MODULE ToolProofs -----------------------------
(***************************************************************************)
(* Proofs about the annotation tool: the player, the reviewers' pages and  *)
(* the segment editor keep their types; the cameras follow the clock; what *)
(* is published is what was shown; and an edit leaves a list fit to submit *)
(* fit.  The invariants are PlayerInv, DeskInv and EditorInv.              *)
(*                                                                         *)
(* The editor's half rests on what sorting and the edits of sequences do   *)
(* to a list: SortedIs proves of the sort, which counts what comes before  *)
(* a segment, that it is a permutation and that it is in order.            *)
(***************************************************************************)
EXTENDS MCTool, FiniteSetTheorems, SequenceTheorems, WellFoundedInduction, TLAPS

------------------------------------------------------------------------------
\* Sequences and sets.

LEMMA MinIn ==
  ASSUME NEW S \in SUBSET Nat, S # {}
  PROVE  Min(S) \in S
<1>1. PICK x \in S : \A y \in S : ~(<<y, x>> \in OpToRel(<, Nat))
  BY NatLessThanWellFounded, WFMin
<1>2. ASSUME NEW y \in S PROVE x <= y
  <2>1. ~(y < x)
    BY <1>1 DEF OpToRel
  <2>2. QED
    BY <2>1
<1>3. QED
  BY <1>2 DEF Min

LEMMA RemovedAt ==
  ASSUME NEW S, NEW s \in Seq(S), NEW i \in 1 .. Len(s)
  PROVE  /\ RemoveAt(s, i) \in Seq(S)
         /\ Len(RemoveAt(s, i)) = Len(s) - 1
         /\ \A k \in 1 .. Len(s) - 1 : RemoveAt(s, i)[k] = IF k < i THEN s[k] ELSE s[k + 1]
<1>1. PICK n \in Nat : n = Len(s)
  OBVIOUS
<1>2. PICK a \in Seq(S), b \in Seq(S) : a = SubSeq(s, 1, i - 1) /\ b = SubSeq(s, i + 1, n)
  <2>1. SubSeq(s, 1, i - 1) \in Seq(S) /\ SubSeq(s, i + 1, n) \in Seq(S)
    BY <1>1, SubSeqProperties
  <2>2. QED
    BY <2>1
<1>3. /\ Len(a) = i - 1 /\ \A k \in 1 .. i - 1 : a[k] = s[k]
      /\ Len(b) = n - i /\ \A k \in 1 .. n - i : b[k] = s[i + k]
  BY <1>1, <1>2, SubSeqProperties
<1>4. RemoveAt(s, i) = a \o b
  BY <1>1, <1>2 DEF RemoveAt
<1>5. /\ a \o b \in Seq(S) /\ Len(a \o b) = n - 1
      /\ \A k \in 1 .. n - 1 : (a \o b)[k] = IF k < i THEN s[k] ELSE s[k + 1]
  <2>1. a \o b \in Seq(S) /\ Len(a \o b) = Len(a) + Len(b)
    BY ConcatProperties
  <2>2. ASSUME NEW k \in 1 .. n - 1
        PROVE  (a \o b)[k] = IF k < i THEN s[k] ELSE s[k + 1]
    <3>1. (a \o b)[k] = IF k <= Len(a) THEN a[k] ELSE b[k - Len(a)]
      BY <1>1, <1>3, ConcatProperties
    <3>2. CASE k < i
      BY <1>1, <1>3, <3>1, <3>2
    <3>3. CASE ~(k < i)
      <4>1. k - (i - 1) \in 1 .. n - i /\ i + (k - (i - 1)) = k + 1
        BY <1>1, <3>3
      <4>2. QED
        BY <1>1, <1>3, <3>1, <3>3, <4>1
    <3>4. QED
      BY <3>2, <3>3
  <2>3. QED
    BY <1>1, <1>3, <2>1, <2>2
<1>6. QED
  BY <1>1, <1>4, <1>5
------------------------------------------------------------------------------
(***************************************************************************)
(* PlayerSync.                                                             *)
(***************************************************************************)
\* The inductive invariant.

\* The buttons work when every camera on the page is attached; before, nothing plays.
Attached ==
    /\ tracks \subseteq cameras
    /\ IF handed THEN cameras \subseteq tracks ELSE ~playing /\ rate = 1

\* What a camera's video has been told.
PlayTold(c) == <<c, "play">> \notin untold /\ <<c, "ended">> \notin untold
ToldPlay == \A c \in cameras : PlayTold(c) => video[c].playing = playing
ToldRate == \A c \in cameras : <<c, "rate">> \notin untold => video[c].rate = rate

PlayerInv == PlayerTypeOK /\ Attached /\ ToldPlay /\ ToldRate

\* CamerasFollow, of one step: the clock's part of it.
ClockFollowed ==
    clock' # clock /\ cameras' = cameras =>
        \A c \in cameras : Near(video'[c].position, TargetAt(c, clock)')

LEMMA TargetTyped ==
  ASSUME NEW off \in Nat, NEW time \in Int
  PROVE  Target(off, time) \in 0 .. Length /\ Near(Target(off, time), Target(off, time))
BY PlayerAssumption DEF Target, Within, Near, Drift

LEMMA TargetAtZero ==
  ASSUME NEW off \in Nat
  PROVE  Target(off, 0) = 0
BY PlayerAssumption DEF Target, Within

\* An Episode gives each of its cameras an offset.
LEMMA EpisodeIs ==
  ASSUME NEW e \in Offsets
  PROVE  /\ DOMAIN e \subseteq Camera
         /\ \A c \in DOMAIN e : e[c] \in Offset /\ e[c] \in Nat
<1>1. PICK some \in SUBSET Camera : e \in [some -> Offset]
  BY DEF Offsets
<1>2. QED
  BY <1>1, PlayerAssumption

LEMMA LoadedIs ==
  /\ Loaded \in Video /\ Loaded.position = 0 /\ Loaded.playing = FALSE /\ Loaded.rate = 1
<1>1. Loaded = [position |-> 0, playing |-> FALSE, rate |-> 1]
  BY DEF Loaded
<1>2. 0 \in 0 .. Length /\ 1 \in Rate
  BY PlayerAssumption DEF Rate
<1>3. QED
  BY <1>1, <1>2 DEF Video

\* A correction moves what is attached, and tells it nothing.
LEMMA AppliedIs ==
  ASSUME PlayerTypeOK, NEW videos \in [Camera -> Video], NEW time \in Int, NEW attached,
         attached \subseteq cameras
  PROVE  /\ Applied(videos, time, attached) \in [Camera -> Video]
         /\ \A c \in Camera :
              /\ Applied(videos, time, attached)[c].playing = videos[c].playing
              /\ Applied(videos, time, attached)[c].rate = videos[c].rate
              /\ c \in attached =>
                   Near(Applied(videos, time, attached)[c].position, TargetAt(c, time))
<1>1. PICK applied : applied = Applied(videos, time, attached)
  OBVIOUS
<1>2. \A c \in Camera :
        applied[c] = IF c \notin attached \/ Near(videos[c].position, TargetAt(c, time)) THEN videos[c]
                     ELSE [videos[c] EXCEPT !.position = TargetAt(c, time)]
  BY <1>1 DEF Applied
<1>3. ASSUME NEW c \in Camera
      PROVE  /\ applied[c] \in Video
             /\ applied[c].playing = videos[c].playing /\ applied[c].rate = videos[c].rate
             /\ c \in attached => Near(applied[c].position, TargetAt(c, time))
  <2>1. videos[c] \in Video
    OBVIOUS
  <2>2. CASE c \notin attached \/ Near(videos[c].position, TargetAt(c, time))
    BY <1>2, <2>1, <2>2
  <2>3. CASE ~(c \notin attached \/ Near(videos[c].position, TargetAt(c, time)))
    <3>1. TargetAt(c, time) \in 0 .. Length /\ Near(TargetAt(c, time), TargetAt(c, time))
      BY <2>3, EpisodeIs, TargetTyped DEF PlayerTypeOK, TargetAt, cameras
    <3>2. applied[c] = [videos[c] EXCEPT !.position = TargetAt(c, time)]
      BY <1>2, <2>3
    <3>3. applied[c].position = TargetAt(c, time)
      BY <2>1, <3>2 DEF Video
    <3>4. applied[c] \in Video
      BY <2>1, <3>1, <3>2 DEF Video
    <3>5. applied[c].playing = videos[c].playing /\ applied[c].rate = videos[c].rate
      BY <2>1, <3>2 DEF Video
    <3>6. QED
      BY <3>1, <3>3, <3>4, <3>5
  <2>4. QED
    BY <2>2, <2>3
<1>4. applied \in [Camera -> Video]
  <2>1. applied = [c \in Camera |-> applied[c]]
    BY <1>1 DEF Applied
  <2>2. QED
    BY <1>3, <2>1
<1>5. QED
  BY <1>1, <1>3, <1>4

\* The Episode that is shown stays.
Stays == offset' = offset /\ older' = older

\* A rendering, with the videos as a button or a frame has left them.
LEMMA RendersKeeps ==
  ASSUME PlayerInv, NEW videos \in [Camera -> Video], NEW time \in 0 .. MaxClock,
         Renders(videos, time), clock' = time, Stays,
         playing' \in BOOLEAN, ticking' \in BOOLEAN, rate' \in Rate, untold' \subseteq Missable,
         \A c \in cameras : PlayTold(c)' => videos[c].playing = playing',
         \A c \in cameras : <<c, "rate">> \notin untold' => videos[c].rate = rate'
  PROVE  PlayerInv' /\ ClockFollowed
<1>1. /\ cameras \subseteq Camera /\ time \in Int /\ cameras' = cameras
      /\ \A c \in cameras : TargetAt(c, clock)' = TargetAt(c, time)
  BY EpisodeIs, PlayerAssumption DEF PlayerInv, PlayerTypeOK, Stays, cameras, TargetAt
<1>2. handed' = TRUE /\ tracks' = cameras /\ video' = Applied(videos, time, cameras)
  BY DEF Renders
<1>3. /\ video' \in [Camera -> Video]
      /\ \A c \in Camera :
           /\ video'[c].playing = videos[c].playing /\ video'[c].rate = videos[c].rate
           /\ c \in cameras => Near(video'[c].position, TargetAt(c, time))
  BY <1>1, <1>2, AppliedIs DEF PlayerInv
<1>4. PlayerTypeOK'
  BY <1>1, <1>2, <1>3 DEF PlayerInv, PlayerTypeOK, Stays
<1>5. Attached'
  BY <1>1, <1>2 DEF Attached
<1>6. ToldPlay' /\ ToldRate'
  BY <1>1, <1>3 DEF ToldPlay, ToldRate
<1>7. ClockFollowed
  BY <1>1, <1>3 DEF ClockFollowed
<1>8. QED
  BY <1>4, <1>5, <1>6, <1>7 DEF PlayerInv

\* Videos that are put elsewhere.
LEMMA PutIs ==
  ASSUME PlayerTypeOK, NEW places \in [Camera -> 0 .. Length], NEW videos,
         videos = [c \in Camera |-> [video[c] EXCEPT !.position = places[c]]]
  PROVE  /\ videos \in [Camera -> Video]
         /\ \A c \in Camera :
              videos[c].playing = video[c].playing /\ videos[c].rate = video[c].rate
<1>1. ASSUME NEW c \in Camera
      PROVE  /\ videos[c] \in Video
             /\ videos[c].playing = video[c].playing /\ videos[c].rate = video[c].rate
  <2>1. video[c] \in Video /\ places[c] \in 0 .. Length
    BY DEF PlayerTypeOK
  <2>2. videos[c] = [video[c] EXCEPT !.position = places[c]]
    OBVIOUS
  <2>3. QED
    BY <2>1, <2>2 DEF Video
<1>2. QED
  BY <1>1

------------------------------------------------------------------------------
\* The actions.

LEMMA RerenderStep ==
  ASSUME PlayerInv, Rerender
  PROVE  PlayerInv' /\ ClockFollowed
<1>1. /\ Renders(video, clock) /\ clock' = clock /\ Stays
      /\ playing' = playing /\ ticking' = ticking /\ rate' = rate /\ untold' = untold
  BY DEF Rerender, clockVars, episodeVars, Stays
<1>2. /\ video \in [Camera -> Video] /\ clock \in 0 .. MaxClock
      /\ playing \in BOOLEAN /\ ticking \in BOOLEAN /\ rate \in Rate /\ untold \subseteq Missable
  BY DEF PlayerInv, PlayerTypeOK
<1>3. /\ \A c \in cameras : PlayTold(c)' => video[c].playing = playing'
      /\ \A c \in cameras : <<c, "rate">> \notin untold' => video[c].rate = rate'
  BY <1>1 DEF PlayerInv, ToldPlay, ToldRate, PlayTold
<1>4. QED
  BY <1>1, <1>2, <1>3, RendersKeeps

LEMMA PlayStep ==
  ASSUME PlayerInv, NEW rejected \in SUBSET Camera, Play(rejected)
  PROVE  PlayerInv' /\ ClockFollowed
<1>1. PICK videos :
        videos = [c \in Camera |-> IF c \in tracks \ rejected THEN Started(video[c]) ELSE video[c]]
  OBVIOUS
<1>2. /\ handed /\ ~playing /\ rejected \subseteq tracks
      /\ playing' = TRUE /\ ticking' = FALSE /\ Renders(videos, clock)
      /\ untold' = {m \in untold : m[2] = "rate"} \cup (rejected \X {"play"})
      /\ Stays /\ clock' = clock /\ rate' = rate
  BY <1>1 DEF Play, episodeVars, Stays
<1>3. /\ video \in [Camera -> Video] /\ clock \in 0 .. MaxClock
      /\ rate \in Rate /\ untold \subseteq Missable /\ cameras \subseteq Camera
      /\ cameras \subseteq tracks
  BY <1>2, EpisodeIs DEF PlayerInv, PlayerTypeOK, Attached, cameras
<1>4. \A c \in Camera :
        /\ videos[c] \in Video /\ videos[c].rate = video[c].rate
        /\ c \in tracks \ rejected => videos[c].playing = TRUE
  <2> SUFFICES ASSUME NEW c \in Camera
               PROVE  /\ videos[c] \in Video /\ videos[c].rate = video[c].rate
                      /\ c \in tracks \ rejected => videos[c].playing = TRUE
    OBVIOUS
  <2>1. video[c] \in Video /\ 0 \in 0 .. Length
    BY <1>3, PlayerAssumption
  <2>2. videos[c] = IF c \in tracks \ rejected THEN Started(video[c]) ELSE video[c]
    BY <1>1
  <2>3. /\ Started(video[c]) \in Video /\ Started(video[c]).rate = video[c].rate
        /\ Started(video[c]).playing = TRUE
    BY <2>1 DEF Started, Video
  <2>4. QED
    BY <2>1, <2>2, <2>3
<1>5. videos \in [Camera -> Video]
  BY <1>1, <1>4
<1>6. untold' \subseteq Missable
  BY <1>2, <1>3 DEF Missable
<1>7. \A c \in cameras : PlayTold(c)' => videos[c].playing = playing'
  BY <1>2, <1>3, <1>4 DEF PlayTold
<1>8. \A c \in cameras : <<c, "rate">> \notin untold' => videos[c].rate = rate'
  BY <1>2, <1>3, <1>4 DEF PlayerInv, ToldRate
<1>9. playing' \in BOOLEAN /\ ticking' \in BOOLEAN /\ rate' \in Rate
  BY <1>2, <1>3
<1>10. QED
  BY <1>2, <1>3, <1>5, <1>6, <1>7, <1>8, <1>9, RendersKeeps

LEMMA PauseStep ==
  ASSUME PlayerInv, Pause
  PROVE  PlayerInv' /\ ClockFollowed
<1>1. PICK videos : videos = [c \in Camera |-> [video[c] EXCEPT !.playing = @ /\ c \notin tracks]]
  OBVIOUS
<1>2. /\ handed /\ playing' = FALSE /\ ticking' = FALSE /\ Renders(videos, clock)
      /\ untold' = {m \in untold : m[2] = "rate"}
      /\ Stays /\ clock' = clock /\ rate' = rate
  BY <1>1 DEF Pause, episodeVars, Stays
<1>3. /\ video \in [Camera -> Video] /\ clock \in 0 .. MaxClock
      /\ rate \in Rate /\ untold \subseteq Missable /\ cameras \subseteq Camera
      /\ cameras \subseteq tracks
  BY <1>2, EpisodeIs DEF PlayerInv, PlayerTypeOK, Attached, cameras
<1>4. \A c \in Camera : videos[c] = [video[c] EXCEPT !.playing = video[c].playing /\ c \notin tracks]
  BY <1>1
<1>5. \A c \in Camera :
        /\ videos[c] \in Video /\ videos[c].rate = video[c].rate
        /\ c \in tracks => videos[c].playing = FALSE
  <2> SUFFICES ASSUME NEW c \in Camera
               PROVE  /\ videos[c] \in Video /\ videos[c].rate = video[c].rate
                      /\ c \in tracks => videos[c].playing = FALSE
    OBVIOUS
  <2>1. PICK b \in BOOLEAN : b <=> (video[c].playing /\ c \notin tracks)
    OBVIOUS
  <2>2. video[c] \in Video /\ video[c].playing \in BOOLEAN
    BY <1>3 DEF Video
  <2>3. b = (video[c].playing /\ c \notin tracks)
    BY <2>1, <2>2
  <2>4. videos[c] = [video[c] EXCEPT !.playing = b]
    BY <1>4, <2>3
  <2>5. QED
    BY <2>1, <2>2, <2>4 DEF Video
<1>6. videos \in [Camera -> Video]
  BY <1>1, <1>5
<1>7. untold' \subseteq Missable
  BY <1>2, <1>3
<1>8. \A c \in cameras : PlayTold(c)' => videos[c].playing = playing'
  BY <1>2, <1>3, <1>5
<1>9. \A c \in cameras : <<c, "rate">> \notin untold' => videos[c].rate = rate'
  BY <1>2, <1>3, <1>5 DEF PlayerInv, ToldRate
<1>10. playing' \in BOOLEAN /\ ticking' \in BOOLEAN /\ rate' \in Rate
  BY <1>2, <1>3
<1>11. QED
  BY <1>2, <1>3, <1>6, <1>7, <1>8, <1>9, <1>10, RendersKeeps

LEMMA SeekStep ==
  ASSUME PlayerInv, NEW time \in 0 .. MaxClock, NEW places \in [Camera -> 0 .. Length],
         Seek(time, places)
  PROVE  PlayerInv' /\ ClockFollowed
<1>1. PICK videos : videos = [c \in Camera |-> [video[c] EXCEPT !.position = places[c]]]
  OBVIOUS
<1>2. /\ clock' = time /\ Renders(videos, time)
      /\ Stays /\ playing' = playing /\ rate' = rate /\ ticking' = ticking /\ untold' = untold
  BY <1>1 DEF Seek, episodeVars, Stays
<1>3. /\ cameras \subseteq Camera /\ PlayerTypeOK
      /\ playing \in BOOLEAN /\ ticking \in BOOLEAN /\ rate \in Rate /\ untold \subseteq Missable
  BY EpisodeIs DEF PlayerInv, PlayerTypeOK, cameras
<1>4. /\ videos \in [Camera -> Video]
      /\ \A c \in Camera : videos[c].playing = video[c].playing /\ videos[c].rate = video[c].rate
  BY <1>1, <1>3, PutIs
<1>5. /\ \A c \in cameras : PlayTold(c)' => videos[c].playing = playing'
      /\ \A c \in cameras : <<c, "rate">> \notin untold' => videos[c].rate = rate'
  BY <1>2, <1>3, <1>4 DEF PlayerInv, ToldPlay, ToldRate, PlayTold
<1>6. QED
  BY <1>2, <1>3, <1>4, <1>5, RendersKeeps

LEMMA SetRateStep ==
  ASSUME PlayerInv, NEW r \in Rate, SetRate(r)
  PROVE  PlayerInv' /\ ClockFollowed
<1>1. PICK videos : videos = [c \in Camera |-> [video[c] EXCEPT !.rate = IF c \in tracks THEN r ELSE @]]
  OBVIOUS
<1>2. /\ handed /\ rate' = r /\ Renders(videos, clock)
      /\ untold' = {m \in untold : m[2] # "rate"}
      /\ Stays /\ clock' = clock /\ playing' = playing /\ ticking' = ticking
  BY <1>1 DEF SetRate, episodeVars, Stays
<1>3. /\ video \in [Camera -> Video] /\ clock \in 0 .. MaxClock
      /\ playing \in BOOLEAN /\ ticking \in BOOLEAN /\ untold \subseteq Missable
      /\ cameras \subseteq Camera /\ cameras \subseteq tracks
  BY <1>2, EpisodeIs DEF PlayerInv, PlayerTypeOK, Attached, cameras
<1>4. \A c \in Camera :
        /\ videos[c] \in Video /\ videos[c].playing = video[c].playing
        /\ c \in tracks => videos[c].rate = r
  BY <1>1, <1>3 DEF Video
<1>5. videos \in [Camera -> Video]
  BY <1>1, <1>4
<1>6. untold' \subseteq Missable
  BY <1>2, <1>3
<1>7. \A c \in cameras : PlayTold(c)' => videos[c].playing = playing'
  BY <1>2, <1>3, <1>4 DEF PlayerInv, ToldPlay, PlayTold
<1>8. \A c \in cameras : <<c, "rate">> \notin untold' => videos[c].rate = rate'
  BY <1>2, <1>3, <1>4
<1>9. QED
  BY <1>2, <1>3, <1>5, <1>6, <1>7, <1>8, RendersKeeps

LEMMA FrameStep ==
  ASSUME PlayerInv, NEW places \in [Camera -> 0 .. Length], Frame(places)
  PROVE  PlayerInv' /\ ClockFollowed
<1>1. PICK videos : videos = [c \in Camera |-> [video[c] EXCEPT !.position = places[c]]]
  OBVIOUS
<1>2. ticking' = TRUE /\ Stays /\ playing' = playing /\ rate' = rate /\ untold' = untold
  BY DEF Frame, episodeVars, Stays
<1>3. /\ PlayerTypeOK /\ clock \in 0 .. MaxClock /\ cameras \subseteq Camera
      /\ playing \in BOOLEAN /\ rate \in Rate /\ untold \subseteq Missable
  BY EpisodeIs DEF PlayerInv, PlayerTypeOK, cameras
<1>4. /\ videos \in [Camera -> Video]
      /\ \A c \in Camera : videos[c].playing = video[c].playing /\ videos[c].rate = video[c].rate
  BY <1>1, <1>3, PutIs
<1>5. /\ \A c \in cameras : PlayTold(c)' => videos[c].playing = playing'
      /\ \A c \in cameras : <<c, "rate">> \notin untold' => videos[c].rate = rate'
  BY <1>2, <1>3, <1>4 DEF PlayerInv, ToldPlay, ToldRate, PlayTold
<1>6. CASE ticking
  <2>1. clock + rate <= MaxClock /\ clock' = clock + rate
    BY <1>6 DEF Frame
  <2>2. PICK time \in 0 .. MaxClock : time = clock'
    BY <1>3, <2>1, PlayerAssumption DEF Rate
  <2>3. Renders(videos, time)
    BY <1>1, <1>6, <2>2 DEF Frame
  <2>4. QED
    BY <1>2, <1>3, <1>4, <1>5, <2>2, <2>3, RendersKeeps
<1>7. CASE ~ticking
  <2>1. video' = videos /\ clock' = clock /\ handed' = handed /\ tracks' = tracks
    BY <1>1, <1>7 DEF Frame
  <2>2. cameras' = cameras
    BY <1>2 DEF Stays, cameras
  <2>3. PlayerTypeOK'
    BY <1>2, <1>3, <1>4, <2>1 DEF PlayerTypeOK, Stays
  <2>4. Attached'
    BY <1>2, <2>1, <2>2 DEF PlayerInv, Attached
  <2>5. ToldPlay' /\ ToldRate'
    BY <1>5, <2>1, <2>2 DEF ToldPlay, ToldRate
  <2>6. QED
    BY <2>1, <2>3, <2>4, <2>5 DEF PlayerInv, ClockFollowed
<1>8. QED
  BY <1>6, <1>7

LEMMA EndsStep ==
  ASSUME PlayerInv, NEW c \in Camera, Ends(c)
  PROVE  PlayerInv' /\ ClockFollowed
<1>1. /\ video' = [video EXCEPT ![c].playing = FALSE] /\ untold' = untold \cup {<<c, "ended">>}
      /\ Stays /\ UNCHANGED <<handed, tracks, clock, playing, rate, ticking>>
  BY DEF Ends, episodeVars, clockVars, Stays
<1>2. video \in [Camera -> Video] /\ untold \subseteq Missable /\ cameras \subseteq Camera
  BY EpisodeIs DEF PlayerInv, PlayerTypeOK, cameras
<1>3. /\ video' \in [Camera -> Video]
      /\ \A d \in Camera : video'[d].rate = video[d].rate
      /\ \A d \in Camera \ {c} : video'[d].playing = video[d].playing
  BY <1>1, <1>2 DEF Video
<1>4. untold' \subseteq Missable /\ cameras' = cameras
  BY <1>1, <1>2 DEF Missable, Stays, cameras
<1>5. PlayerTypeOK'
  BY <1>1, <1>3, <1>4 DEF PlayerInv, PlayerTypeOK, Stays
<1>6. Attached' /\ ToldRate'
  BY <1>1, <1>2, <1>3, <1>4 DEF PlayerInv, Attached, ToldRate
<1>7. ToldPlay'
  BY <1>1, <1>2, <1>3, <1>4 DEF PlayerInv, ToldPlay, PlayTold
<1>8. QED
  BY <1>1, <1>5, <1>6, <1>7 DEF PlayerInv, ClockFollowed

LEMMA TurnStep ==
  ASSUME PlayerInv, NEW next \in Offsets, Turn(next)
  PROVE  PlayerInv' /\ ClockFollowed
<1>1. /\ offset' = next /\ handed' = TRUE /\ tracks' = cameras' /\ clock' = clock
      /\ playing' = playing /\ rate' = rate /\ ticking' = ticking
      /\ untold' = {m \in cameras' \X {"play", "rate"} : IF m[2] = "play" THEN playing ELSE rate # 1}
  BY DEF Turn, clockVars
<1>2. /\ clock \in 0 .. MaxClock /\ clock \in Int
      /\ playing \in BOOLEAN /\ ticking \in BOOLEAN /\ rate \in Rate
      /\ offset \in Offsets /\ older \in [Camera -> SUBSET Offset]
  BY PlayerAssumption DEF PlayerInv, PlayerTypeOK
<1>3. cameras' = DOMAIN next /\ cameras' \subseteq Camera
  BY <1>1, EpisodeIs DEF cameras
<1>4. older' \in [Camera -> SUBSET Offset]
  <2>1. \A c \in tracks : offset[c] \in Offset
    BY <1>2, EpisodeIs DEF PlayerInv, Attached, cameras
  <2>2. older' = [c \in Camera |->
                    IF c \in cameras' \cap tracks THEN older[c] \cup {offset[c]} ELSE {}]
    BY DEF Turn
  <2>3. QED
    BY <1>2, <2>1, <2>2
<1>5. /\ video' \in [Camera -> Video]
      /\ \A c \in Camera : video'[c].playing = FALSE /\ video'[c].rate = 1
  <2>1. video' = [c \in Camera |->
                    IF c \notin cameras' \/ Near(0, Target(next[c], clock)) THEN Loaded
                    ELSE [Loaded EXCEPT !.position = Target(next[c], clock)]]
    BY DEF Turn
  <2>2. ASSUME NEW c \in Camera
        PROVE  video'[c] \in Video /\ video'[c].playing = FALSE /\ video'[c].rate = 1
    <3>1. CASE c \notin cameras' \/ Near(0, Target(next[c], clock))
      BY <2>1, <3>1, LoadedIs
    <3>2. CASE ~(c \notin cameras' \/ Near(0, Target(next[c], clock)))
      <4>1. Target(next[c], clock) \in 0 .. Length
        BY <1>2, <1>3, <3>2, EpisodeIs, TargetTyped
      <4>2. video'[c] = [Loaded EXCEPT !.position = Target(next[c], clock)]
        BY <2>1, <3>2
      <4>3. QED
        BY <4>1, <4>2, LoadedIs DEF Video
    <3>3. QED
      BY <3>1, <3>2
  <2>3. QED
    BY <2>1, <2>2
<1>6. untold' \subseteq Missable
  BY <1>1, <1>3 DEF Missable
<1>7. PlayerTypeOK' /\ Attached'
  BY <1>1, <1>2, <1>3, <1>4, <1>5, <1>6 DEF PlayerTypeOK, Attached
<1>8. ToldPlay'
  <2>1. ASSUME NEW c \in cameras', <<c, "play">> \notin untold' PROVE ~playing
    <3>1. <<c, "play">> \in cameras' \X {"play", "rate"} /\ <<c, "play">>[2] = "play"
      OBVIOUS
    <3>2. QED
      BY <1>1, <2>1, <3>1
  <2>2. QED
    BY <1>1, <1>2, <1>3, <1>5, <2>1 DEF ToldPlay, PlayTold
<1>9. ToldRate'
  <2>1. ASSUME NEW c \in cameras', <<c, "rate">> \notin untold' PROVE rate = 1
    <3>1. <<c, "rate">> \in cameras' \X {"play", "rate"} /\ <<c, "rate">>[2] # "play"
      OBVIOUS
    <3>2. QED
      BY <1>1, <2>1, <3>1
  <2>2. QED
    BY <1>1, <1>3, <1>5, <2>1 DEF ToldRate
<1>10. QED
  BY <1>1, <1>7, <1>8, <1>9 DEF PlayerInv, ClockFollowed

LEMMA UnmountStep ==
  ASSUME PlayerInv, Unmount
  PROVE  PlayerInv' /\ ClockFollowed
<1>1. /\ offset' \in Offsets /\ older' = [c \in Camera |-> {}]
      /\ handed' = FALSE /\ tracks' = {} /\ untold' = {}
      /\ clock' = 0 /\ playing' = FALSE /\ rate' = 1 /\ ticking' = FALSE
      /\ video' = [c \in Camera |-> Loaded]
  BY DEF Unmount
<1>2. /\ video' \in [Camera -> Video]
      /\ \A c \in Camera : video'[c].position = 0 /\ video'[c].playing = FALSE /\ video'[c].rate = 1
  BY <1>1, LoadedIs
<1>2a. cameras' \subseteq Camera /\ \A c \in cameras' : offset'[c] \in Nat
  BY <1>1, EpisodeIs DEF cameras
<1>3. PlayerTypeOK' /\ Attached'
  <2>1. 0 \in 0 .. MaxClock /\ 1 \in Rate
    BY PlayerAssumption DEF Rate
  <2>2. PlayerTypeOK'
    BY <1>1, <1>2, <2>1 DEF PlayerTypeOK
  <2>3. QED
    BY <1>1, <2>2 DEF Attached
<1>4. ToldPlay' /\ ToldRate'
  BY <1>1, <1>2, <1>2a DEF ToldPlay, ToldRate
<1>5. ClockFollowed
  <2> SUFFICES ASSUME NEW c \in cameras' PROVE Near(video'[c].position, TargetAt(c, clock)')
    BY DEF ClockFollowed
  <2>1. TargetAt(c, clock)' = 0
    BY <1>1, <1>2a, TargetAtZero DEF TargetAt
  <2>2. QED
    BY <1>2, <1>2a, <2>1 DEF Near, Drift
<1>6. QED
  BY <1>3, <1>4, <1>5 DEF PlayerInv

LEMMA PlayerSteps ==
  ASSUME PlayerInv, [PlayerNext]_playerVars
  PROVE  PlayerInv' /\ ClockFollowed
<1>1. CASE UNCHANGED playerVars
  <2>1. UNCHANGED <<offset, older, cameras, handed, tracks, clock, playing, rate, ticking, video, untold>>
    BY <1>1 DEF playerVars, clockVars, episodeVars, cameras
  <2>2. PlayerInv'
    BY <2>1 DEF PlayerInv, PlayerTypeOK, Attached, ToldPlay, ToldRate, PlayTold
  <2>3. QED
    BY <2>1, <2>2 DEF ClockFollowed
<1>2. QED
  BY <1>1, RerenderStep, PlayStep, PauseStep, SeekStep, SetRateStep, FrameStep, EndsStep, TurnStep, UnmountStep
  DEF PlayerNext

LEMMA PlayerInits == PlayerInit => PlayerInv
<1> SUFFICES ASSUME PlayerInit PROVE PlayerInv
  OBVIOUS
<1>1. \A c \in Camera : video[c] = Loaded
  BY DEF PlayerInit
<1>2. video \in [Camera -> Video] /\ cameras \subseteq Camera
  BY LoadedIs, EpisodeIs DEF PlayerInit, cameras
<1>3. PlayerTypeOK /\ Attached
  <2>1. 0 \in 0 .. MaxClock /\ 1 \in Rate
    BY PlayerAssumption DEF Rate
  <2>2. PlayerTypeOK
    BY <1>2, <2>1 DEF PlayerInit, PlayerTypeOK
  <2>3. QED
    BY <2>2 DEF PlayerInit, Attached
<1>4. ToldPlay /\ ToldRate
  BY <1>1, <1>2, LoadedIs DEF PlayerInit, ToldPlay, ToldRate
<1>5. QED
  BY <1>3, <1>4 DEF PlayerInv

LEMMA PlayerAlways == PlayerSpec => []PlayerInv
<1>1. PlayerInv /\ [PlayerNext]_playerVars => PlayerInv'
  BY PlayerSteps
<1>2. QED
  BY <1>1, PlayerInits, PTL DEF PlayerSpec

\* Type correctness of the player (SyncController, MultiViewPlayer).
THEOREM PlayerTypes == PlayerSpec => []PlayerTypeOK
<1>1. PlayerInv => PlayerTypeOK
  BY DEF PlayerInv
<1>2. QED
  BY <1>1, PlayerAlways, PTL

\* For any cameras, offsets, lengths and clock: each camera on the page is where the clock and
\* its Episode's offset say when the clock moves, and plays as the clock does and at its rate,
\* but for what it could not be told and for a video that has come to its end
\* (SyncController.applyToTrack, play, setRate), whatever was rendered and clicked before.
THEOREM CamerasAlwaysFollow == PlayerSpec => CamerasFollow
<1>1. PlayerInv /\ [PlayerNext]_playerVars =>
        /\ clock' # clock /\ cameras' = cameras =>
             \A c \in cameras : Near(video'[c].position, TargetAt(c, clock)')
        /\ \A c \in cameras' :
             /\ <<c, "play">> \notin untold' /\ <<c, "ended">> \notin untold' =>
                    video'[c].playing = playing'
             /\ <<c, "rate">> \notin untold' => video'[c].rate = rate'
  <2> SUFFICES ASSUME PlayerInv, [PlayerNext]_playerVars
      PROVE /\ clock' # clock /\ cameras' = cameras =>
                 \A c \in cameras : Near(video'[c].position, TargetAt(c, clock)')
            /\ \A c \in cameras' :
                 /\ <<c, "play">> \notin untold' /\ <<c, "ended">> \notin untold' =>
                    video'[c].playing = playing'
                 /\ <<c, "rate">> \notin untold' => video'[c].rate = rate'
    OBVIOUS
  <2>1. PlayerInv' /\ ClockFollowed
    BY PlayerSteps
  <2>2. QED
    BY <2>1 DEF PlayerInv, ToldPlay, ToldRate, PlayTold, ClockFollowed
<1>2. QED
  BY <1>1, PlayerAlways, PTL DEF PlayerSpec, CamerasFollow
------------------------------------------------------------------------------
(***************************************************************************)
(* ReviewDesk.                                                             *)
(***************************************************************************)
\* The inductive invariant.

\* No one holds a version that is still to be submitted.
Past(sight, ver) == sight # Nothing => sight.version <= ver[sight.episode]

\* A page whose newest request is answered, and was not overtaken, holds an annotation of
\* its Episode that is no older than the queue it came with.
DeskFits(cur, ann, fetch, wait, over, ver) ==
    /\ Past(cur, ver)
    /\ \A i \in 1 .. Len(fetch) : fetch[i].version <= ver[fetch[i].episode]
    /\ cur # Nothing /\ wait =>
         /\ Len(fetch) > 0 /\ fetch[Len(fetch)].episode = cur.episode
         /\ fetch[Len(fetch)].version # 0 => cur.version <= fetch[Len(fetch)].version
    /\ cur # Nothing /\ ~wait /\ ~over => ann = Nothing \/
         /\ ann.episode = cur.episode
         /\ cur.version <= ann.version /\ ann.version <= ver[cur.episode]

\* A decision on its way, unless it is excused, was made before such an annotation.
ClickFits(k, ver) ==
    k.stage = "sent" =>
        /\ k.of \in Sight
        /\ k.excused \/ /\ k.shown \in Sight /\ k.shown.episode = k.of.episode
                        /\ k.of.version <= k.shown.version /\ k.shown.version <= ver[k.of.episode]

DeskInv ==
    /\ DeskTypeOK
    /\ \A p \in Desk :
         /\ DeskFits(current[p], annotation[p], fetching[p], waiting[p], overtaken[p], version)
         /\ \A q \in queues[p] : Past(q, version)
    /\ \A c \in Click : ClickFits(click[c], version)

\* PublishedAsShown, of one step.
AsShown ==
    \A c \in Click :
        click[c].stage = "sent" /\ click'[c].stage = "done" /\ click[c].approve =>
            LET e == click[c].of.episode IN
            \/ click[c].shown = [episode |-> e, version |-> version[e]]
            \/ version[e] > click[c].of.version
            \/ click[c].excused

LEMMA NothingIs == Nothing.episode = 0 /\ Nothing.version = 0 /\ Nothing \notin Sight
<1>1. Nothing = [episode |-> 0, version |-> 0]
  BY DEF Nothing
<1>2. QED
  BY <1>1, DeskAssumption DEF Sight, Episode

LEMMA SightsAre ==
  ASSUME NEW s \in Sights
  PROVE  s # Nothing => /\ s \in Sight /\ s.episode \in Episode /\ s.version \in Version
                        /\ s.version \in Nat
BY DeskAssumption DEF Sights, Sight, Version

LEMMA FetchesAre ==
  ASSUME NEW f \in Fetches
  PROVE  /\ f.episode \in Episode /\ f.version \in Nat
         /\ f.version # 0 => f \in Sight
BY DeskAssumption DEF Fetches, Sight, Version

\* Time alone spoils nothing.
LEMMA LaterFits ==
  ASSUME NEW ver \in [Episode -> Version], NEW ver2 \in [Episode -> Version],
         \A e \in Episode : ver[e] <= ver2[e]
  PROVE  /\ \A s \in Sights : Past(s, ver) => Past(s, ver2)
         /\ \A cur \in Sights, ann \in Sights, fetch \in Seq(Fetches), wait, over \in BOOLEAN :
              DeskFits(cur, ann, fetch, wait, over, ver) => DeskFits(cur, ann, fetch, wait, over, ver2)
         /\ \A k \in Clicks : ClickFits(k, ver) => ClickFits(k, ver2)
<1>1. \A e \in Episode : ver[e] \in Nat /\ ver2[e] \in Nat /\ ver[e] <= ver2[e]
  BY DeskAssumption DEF Version
<1>2. ASSUME NEW s \in Sights, Past(s, ver) PROVE Past(s, ver2)
  BY <1>1, <1>2, SightsAre DEF Past
<1>3. ASSUME NEW cur \in Sights, NEW ann \in Sights, NEW fetch \in Seq(Fetches),
             NEW wait \in BOOLEAN, NEW over \in BOOLEAN, DeskFits(cur, ann, fetch, wait, over, ver)
      PROVE  DeskFits(cur, ann, fetch, wait, over, ver2)
  <2>1. Past(cur, ver2)
    BY <1>2, <1>3 DEF DeskFits
  <2>2. ASSUME NEW i \in 1 .. Len(fetch) PROVE fetch[i].version <= ver2[fetch[i].episode]
    <3>1. fetch[i] \in Fetches
      OBVIOUS
    <3>2. fetch[i].episode \in Episode /\ fetch[i].version \in Nat
      BY <3>1, FetchesAre
    <3>3. QED
      BY <1>1, <1>3, <3>2 DEF DeskFits
  <2>3. cur # Nothing /\ ~wait /\ ~over => ann = Nothing \/
         /\ ann.episode = cur.episode
         /\ cur.version <= ann.version /\ ann.version <= ver2[cur.episode]
    BY <1>1, <1>3, SightsAre DEF DeskFits
  <2>4. QED
    BY <1>3, <2>1, <2>2, <2>3 DEF DeskFits
<1>4. ASSUME NEW k \in Clicks, ClickFits(k, ver) PROVE ClickFits(k, ver2)
  <2>1. k.of \in Sight => k.of.episode \in Episode
    BY DEF Sight
  <2>2. k.shown \in Sight => k.shown.version \in Nat
    BY DeskAssumption DEF Sight, Version
  <2>3. QED
    BY <1>1, <1>4, <2>1, <2>2 DEF ClickFits
<1>5. QED
  BY <1>2, <1>3, <1>4

------------------------------------------------------------------------------
\* One page, and others left alone.

DeskTypes ==
    /\ current \in [Desk -> Sights] /\ annotation \in [Desk -> Sights]
    /\ fetching \in [Desk -> Seq(Fetches)]
    /\ waiting \in [Desk -> BOOLEAN] /\ overtaken \in [Desk -> BOOLEAN]

\* What a page holds and asks for changes, and nothing else of the invariant.
LEMMA PageMoves ==
  ASSUME DeskInv, NEW p \in Desk, NEW cur \in Sights, NEW ann \in Sights, NEW fetch \in Seq(Fetches),
         NEW wait \in BOOLEAN, NEW over \in BOOLEAN,
         current' = [current EXCEPT ![p] = cur], annotation' = [annotation EXCEPT ![p] = ann],
         fetching' = [fetching EXCEPT ![p] = fetch], waiting' = [waiting EXCEPT ![p] = wait],
         overtaken' = [overtaken EXCEPT ![p] = over],
         UNCHANGED <<standing, version, reloading, click>>,
         \A d \in Desk : queues'[d] \subseteq queues[d], queues' \in [Desk -> SUBSET Sights],
         DeskFits(cur, ann, fetch, wait, over, version)
  PROVE  DeskInv' /\ AsShown
<1>1. DeskTypeOK'
  BY DEF DeskInv, DeskTypeOK
<1>2. ASSUME NEW d \in Desk
      PROVE  DeskFits(current[d], annotation[d], fetching[d], waiting[d], overtaken[d], version)'
  <2>1. CASE d = p
    <3>1. /\ current'[d] = cur /\ annotation'[d] = ann /\ fetching'[d] = fetch
          /\ waiting'[d] = wait /\ overtaken'[d] = over /\ version' = version
      BY <2>1 DEF DeskInv, DeskTypeOK
    <3>2. QED
      BY <3>1
  <2>2. CASE d # p
    <3>1. /\ current'[d] = current[d] /\ annotation'[d] = annotation[d] /\ fetching'[d] = fetching[d]
          /\ waiting'[d] = waiting[d] /\ overtaken'[d] = overtaken[d] /\ version' = version
      BY <2>2 DEF DeskInv, DeskTypeOK
    <3>2. QED
      BY <3>1 DEF DeskInv
  <2>3. QED
    BY <2>1, <2>2
<1>3. \A d \in Desk : \A q \in queues'[d] : Past(q, version)'
  BY DEF DeskInv
<1>4. \A c \in Click : ClickFits(click[c], version)'
  BY DEF DeskInv
<1>5. AsShown
  BY DEF AsShown
<1>6. QED
  BY <1>1, <1>2, <1>3, <1>4, <1>5 DEF DeskInv

\* No page holds or asks for anything new, and the queues grow by what is there.
LEMMA PagesStay ==
  ASSUME DeskInv, UNCHANGED <<held, asked, standing, version>>,
         queues' \in [Desk -> SUBSET Sights], reloading' \in [Desk -> Nat],
         \A p \in Desk : \A q \in queues'[p] : Past(q, version),
         click' \in [Click -> Clicks], \A c \in Click : ClickFits(click'[c], version),
         \A c \in Click : click'[c].stage # "done" \/ click[c].stage # "sent"
  PROVE  DeskInv' /\ AsShown
<1>1. UNCHANGED <<current, annotation, fetching, waiting, overtaken, standing, version>>
  BY DEF held, asked
<1>2. DeskTypeOK'
  BY <1>1 DEF DeskInv, DeskTypeOK
<1>3. /\ \A p \in Desk :
           /\ DeskFits(current[p], annotation[p], fetching[p], waiting[p], overtaken[p], version)'
           /\ \A q \in queues'[p] : Past(q, version)'
      /\ \A c \in Click : ClickFits(click[c], version)'
  BY <1>1 DEF DeskInv
<1>4. QED
  BY <1>2, <1>3 DEF DeskInv, AsShown

\* The click of c moves on without a judgement.
LEMMA ClickMoves ==
  ASSUME DeskInv, NEW c \in Click,
         NEW stage \in {"refused", "over"}, StageTo(c, stage)
  PROVE  /\ click' \in [Click -> Clicks]
         /\ \A b \in Click : ClickFits(click'[b], version)
         /\ \A b \in Click : click'[b].stage # "done" \/ click[b].stage # "sent"
<1>1. click[c] \in Clicks /\ click' = [click EXCEPT ![c].stage = stage]
  BY DEF DeskInv, DeskTypeOK, StageTo
<1>2. PICK k : k = [click[c] EXCEPT !.stage = stage]
  OBVIOUS
<1>3. k \in Clicks /\ k.stage = stage
  BY <1>1, <1>2 DEF Clicks
<1>4. click' = [click EXCEPT ![c] = k]
  BY <1>1, <1>2 DEF DeskInv, DeskTypeOK
<1>5. \A b \in Click : click'[b] = IF b = c THEN k ELSE click[b]
  BY <1>4 DEF DeskInv, DeskTypeOK
<1>6. ClickFits(k, version)
  BY <1>3 DEF ClickFits
<1>7. \A b \in Click : ClickFits(click'[b], version)
  BY <1>5, <1>6 DEF DeskInv
<1>8. click' \in [Click -> Clicks]
  BY <1>3, <1>4 DEF DeskInv, DeskTypeOK
<1>9. \A b \in Click : click'[b].stage # "done" \/ click[b].stage # "sent"
  BY <1>3, <1>5
<1>10. QED
  BY <1>7, <1>8, <1>9
------------------------------------------------------------------------------
\* The actions of a page.

LEMMA FirstFits ==
  ASSUME DeskInv
  PROVE  First \in Sights /\ Past(First, version)
<1>1. CASE InReview = {}
  BY <1>1 DEF First, Sights, Past
<1>2. CASE InReview # {}
  <2>1. InReview \in SUBSET Nat /\ InReview \subseteq Episode
    BY DeskAssumption DEF InReview, Episode
  <2>2. PICK e \in Episode : e = Min(InReview)
    BY <1>2, <2>1, MinIn
  <2>3. First = [episode |-> e, version |-> version[e]]
    BY <1>2, <2>2 DEF First
  <2>4. version[e] \in Version
    BY DEF DeskInv, DeskTypeOK
  <2>5. First \in Sight /\ First.episode = e /\ First.version = version[e] /\ version[e] \in Nat
    BY <2>3, <2>4, DeskAssumption DEF Sight, Version
  <2>6. QED
    BY <2>5 DEF Sights, Past
<1>3. QED
  BY <1>1, <1>2

LEMMA ServeQueueStep ==
  ASSUME DeskInv, NEW p \in Desk, ServeQueue(p)
  PROVE  DeskInv' /\ AsShown
<1>1. /\ reloading[p] > 0 /\ reloading' = [reloading EXCEPT ![p] = @ - 1]
      /\ queues' = [queues EXCEPT ![p] = @ \cup {First}]
      /\ UNCHANGED <<standing, version, held, asked, click>>
  BY DEF ServeQueue, stores
<1>2. First \in Sights /\ Past(First, version)
  BY FirstFits
<1>3. /\ reloading \in [Desk -> Nat] /\ queues \in [Desk -> SUBSET Sights]
      /\ click \in [Click -> Clicks]
  BY DEF DeskInv, DeskTypeOK
<1>4. reloading' \in [Desk -> Nat] /\ queues' \in [Desk -> SUBSET Sights]
  BY <1>1, <1>2, <1>3
<1>5. \A d \in Desk : \A q \in queues'[d] : Past(q, version)
  BY <1>1, <1>2, <1>3 DEF DeskInv
<1>6. /\ \A c \in Click : ClickFits(click'[c], version)
      /\ \A c \in Click : click'[c].stage # "done" \/ click[c].stage # "sent"
  BY <1>1 DEF DeskInv
<1>7. QED
  BY <1>1, <1>3, <1>4, <1>5, <1>6, PagesStay

LEMMA LoseQueueStep ==
  ASSUME DeskInv, NEW p \in Desk, LoseQueue(p)
  PROVE  DeskInv' /\ AsShown
<1>1. UNCHANGED <<standing, version, held, asked, click>>
  BY DEF LoseQueue, stores
<1>2. reloading \in [Desk -> Nat] /\ queues \in [Desk -> SUBSET Sights] /\ click \in [Click -> Clicks]
  BY DEF DeskInv, DeskTypeOK
<1>3. /\ reloading' \in [Desk -> Nat] /\ queues' \in [Desk -> SUBSET Sights]
      /\ \A d \in Desk : queues'[d] \subseteq queues[d]
  <2>1. CASE reloading[p] > 0 /\ reloading' = [reloading EXCEPT ![p] = @ - 1] /\ queues' = queues
    BY <1>2, <2>1
  <2>2. CASE reloading' = reloading /\ \E q \in queues[p] : queues' = [queues EXCEPT ![p] = @ \ {q}]
    BY <1>2, <2>2
  <2>3. QED
    BY <2>1, <2>2 DEF LoseQueue
<1>4. \A d \in Desk : \A q \in queues'[d] : Past(q, version)
  BY <1>3 DEF DeskInv
<1>5. /\ \A c \in Click : ClickFits(click'[c], version)
      /\ \A c \in Click : click'[c].stage # "done" \/ click[c].stage # "sent"
  BY <1>1 DEF DeskInv
<1>6. QED
  BY <1>1, <1>2, <1>3, <1>4, <1>5, PagesStay

\* FetchOf, of a page that has come to sight: the newest request is of its Episode.
LEMMA FetchFits ==
  ASSUME NEW s \in Sights, s # Nothing, NEW ann \in Sights, NEW fetch \in Seq(Fetches),
         NEW asking \in Seq(Fetches), asking = Append(fetch, [episode |-> s.episode, version |-> 0]),
         version \in [Episode -> Version], Past(s, version),
         \A i \in 1 .. Len(fetch) : fetch[i].version <= version[fetch[i].episode]
  PROVE  DeskFits(s, ann, asking, TRUE, FALSE, version)
<1>1. PICK f : f = [episode |-> s.episode, version |-> 0]
  OBVIOUS
<1>2. f.episode = s.episode /\ f.version = 0 /\ s.episode \in Episode
  BY <1>1, SightsAre
<1>3. f \in Fetches
  BY <1>1, <1>2 DEF Fetches
<1>4. /\ Len(asking) = Len(fetch) + 1 /\ asking[Len(fetch) + 1] = f
      /\ \A i \in 1 .. Len(fetch) : asking[i] = fetch[i]
  BY <1>1, <1>3, AppendProperties
<1>5. version[f.episode] \in Nat
  BY <1>2, DeskAssumption DEF Version
<1>6. \A i \in 1 .. Len(asking) : asking[i].version <= version[asking[i].episode]
  BY <1>2, <1>4, <1>5
<1>7. QED
  BY <1>2, <1>4, <1>6 DEF DeskFits

LEMMA AskingTyped ==
  ASSUME NEW s \in Sight, NEW fetch \in Seq(Fetches)
  PROVE  Append(fetch, [episode |-> s.episode, version |-> 0]) \in Seq(Fetches)
<1>1. [episode |-> s.episode, version |-> 0] \in Fetches
  BY DEF Sight, Fetches
<1>2. QED
  BY <1>1, AppendProperties

LEMMA TakeQueueStep ==
  ASSUME DeskInv, NEW p \in Desk, TakeQueue(p)
  PROVE  DeskInv' /\ AsShown
<1>1. PICK q \in queues[p] : /\ Show(p, q) /\ queues' = [queues EXCEPT ![p] = @ \ {q}]
                             /\ UNCHANGED <<standing, version, reloading, click>>
  BY DEF TakeQueue, stores
<1>2. /\ queues \in [Desk -> SUBSET Sights] /\ version \in [Episode -> Version]
      /\ current \in [Desk -> Sights] /\ annotation \in [Desk -> Sights]
      /\ fetching \in [Desk -> Seq(Fetches)]
      /\ waiting \in [Desk -> BOOLEAN] /\ overtaken \in [Desk -> BOOLEAN]
  BY DEF DeskInv, DeskTypeOK
<1>3. q \in Sights /\ Past(q, version)
  BY <1>2 DEF DeskInv
<1>4. queues' \in [Desk -> SUBSET Sights] /\ \A d \in Desk : queues'[d] \subseteq queues[d]
  BY <1>1, <1>2
<1>5. DeskFits(current[p], annotation[p], fetching[p], waiting[p], overtaken[p], version)
  BY DEF DeskInv
<1>6. CASE q = Nothing
  <2>1. /\ current' = [current EXCEPT ![p] = Nothing] /\ annotation' = [annotation EXCEPT ![p] = Nothing]
        /\ fetching' = [fetching EXCEPT ![p] = fetching[p]]
        /\ waiting' = [waiting EXCEPT ![p] = waiting[p]]
        /\ overtaken' = [overtaken EXCEPT ![p] = overtaken[p]]
    BY <1>1, <1>2, <1>6 DEF Show, asked
  <2>2. DeskFits(Nothing, Nothing, fetching[p], waiting[p], overtaken[p], version)
    BY <1>5 DEF DeskFits, Past
  <2>3. /\ Nothing \in Sights /\ fetching[p] \in Seq(Fetches)
        /\ waiting[p] \in BOOLEAN /\ overtaken[p] \in BOOLEAN
    BY <1>2 DEF Sights
  <2>4. QED
    BY <1>1, <1>4, <2>1, <2>2, <2>3, PageMoves
<1>7. CASE q # Nothing
  <2>1. PICK asking : asking = Append(fetching[p], [episode |-> q.episode, version |-> 0])
    OBVIOUS
  <2>2. q \in Sight /\ fetching[p] \in Seq(Fetches) /\ annotation[p] \in Sights
    BY <1>2, <1>3, <1>7, SightsAre
  <2>3. asking \in Seq(Fetches)
    BY <2>1, <2>2, AskingTyped
  <2>4. /\ current' = [current EXCEPT ![p] = q]
        /\ annotation' = [annotation EXCEPT ![p] = annotation[p]]
        /\ fetching' = [fetching EXCEPT ![p] = asking]
        /\ waiting' = [waiting EXCEPT ![p] = TRUE]
        /\ overtaken' = [overtaken EXCEPT ![p] = FALSE]
    BY <1>1, <1>2, <1>7, <2>1 DEF Show, FetchOf
  <2>5. \A i \in 1 .. Len(fetching[p]) : fetching[p][i].version <= version[fetching[p][i].episode]
    BY <1>5 DEF DeskFits
  <2>6. DeskFits(q, annotation[p], asking, TRUE, FALSE, version)
    BY <1>2, <1>3, <1>7, <2>1, <2>2, <2>3, <2>5, FetchFits
  <2>7. QED
    BY <1>1, <1>3, <1>4, <2>2, <2>3, <2>4, <2>6, PageMoves
<1>8. QED
  BY <1>6, <1>7

LEMMA ServeFetchStep ==
  ASSUME DeskInv, NEW p \in Desk, ServeFetch(p)
  PROVE  DeskInv' /\ AsShown
<1>1. PICK i \in DOMAIN fetching[p] :
        /\ fetching[p][i].version = 0
        /\ fetching' = [fetching EXCEPT ![p][i].version = version[fetching[p][i].episode]]
        /\ UNCHANGED <<standing, version, current, annotation, waiting, overtaken, reloading, queues, click>>
  BY DEF ServeFetch, stores, held
<1>2. /\ queues \in [Desk -> SUBSET Sights] /\ version \in [Episode -> Version]
      /\ current \in [Desk -> Sights] /\ annotation \in [Desk -> Sights]
      /\ fetching \in [Desk -> Seq(Fetches)]
      /\ waiting \in [Desk -> BOOLEAN] /\ overtaken \in [Desk -> BOOLEAN]
  BY DEF DeskInv, DeskTypeOK
<1>3. PICK old \in Seq(Fetches) : old = fetching[p]
  BY <1>2
<1>4. i \in 1 .. Len(old) /\ old[i] \in Fetches /\ old[i].episode \in Episode
  BY <1>1, <1>3, FetchesAre
<1>5. PICK f : f = [old[i] EXCEPT !.version = version[old[i].episode]]
  OBVIOUS
<1>6. f \in Fetches /\ f.episode = old[i].episode /\ f.version = version[f.episode]
  BY <1>2, <1>4, <1>5 DEF Fetches
<1>7. PICK new : new = [old EXCEPT ![i] = f]
  OBVIOUS
<1>8. /\ new \in Seq(Fetches) /\ Len(new) = Len(old)
      /\ \A k \in 1 .. Len(old) : new[k] = IF k = i THEN f ELSE old[k]
  BY <1>4, <1>6, <1>7
<1>9. fetching' = [fetching EXCEPT ![p] = new]
  BY <1>1, <1>3, <1>5, <1>7
<1>10. DeskFits(current[p], annotation[p], old, waiting[p], overtaken[p], version)
  BY <1>3 DEF DeskInv
<1>11. version[f.episode] \in Nat
  BY <1>2, <1>4, <1>6, DeskAssumption DEF Version
<1>12. \A k \in 1 .. Len(new) : new[k].version <= version[new[k].episode]
  BY <1>6, <1>8, <1>10, <1>11 DEF DeskFits
<1>13. current[p] # Nothing /\ waiting[p] =>
         /\ Len(new) > 0 /\ new[Len(new)].episode = current[p].episode
         /\ new[Len(new)].version # 0 => current[p].version <= new[Len(new)].version
  <2> SUFFICES ASSUME current[p] # Nothing, waiting[p]
               PROVE  /\ Len(new) > 0 /\ new[Len(new)].episode = current[p].episode
                      /\ new[Len(new)].version # 0 => current[p].version <= new[Len(new)].version
    OBVIOUS
  <2>1. /\ Len(old) > 0 /\ old[Len(old)].episode = current[p].episode
        /\ old[Len(old)].version # 0 => current[p].version <= old[Len(old)].version
        /\ current[p].version <= version[current[p].episode]
    BY <1>10 DEF DeskFits, Past
  <2>2. QED
    BY <1>6, <1>8, <2>1
<1>14. DeskFits(current[p], annotation[p], new, waiting[p], overtaken[p], version)
  BY <1>10, <1>12, <1>13 DEF DeskFits
<1>15. /\ current' = [current EXCEPT ![p] = current[p]]
       /\ annotation' = [annotation EXCEPT ![p] = annotation[p]]
       /\ waiting' = [waiting EXCEPT ![p] = waiting[p]]
       /\ overtaken' = [overtaken EXCEPT ![p] = overtaken[p]]
       /\ queues' \in [Desk -> SUBSET Sights] /\ \A d \in Desk : queues'[d] \subseteq queues[d]
  BY <1>1, <1>2
<1>16. /\ current[p] \in Sights /\ annotation[p] \in Sights
       /\ waiting[p] \in BOOLEAN /\ overtaken[p] \in BOOLEAN
  BY <1>2
<1>17. new \in Seq(Fetches) /\ UNCHANGED <<standing, version, reloading, click>>
  BY <1>1, <1>8
<1>18. QED
  BY <1>9, <1>14, <1>15, <1>16, <1>17, PageMoves

LEMMA TakeFetchStep ==
  ASSUME DeskInv, NEW p \in Desk, TakeFetch(p)
  PROVE  DeskInv' /\ AsShown
<1>1. PICK i \in DOMAIN fetching[p], arrived \in BOOLEAN :
        /\ arrived => fetching[p][i].version # 0
        /\ annotation' = [annotation EXCEPT ![p] = IF arrived THEN fetching[p][i] ELSE Nothing]
        /\ fetching' = [fetching EXCEPT ![p] = RemoveAt(@, i)]
        /\ waiting' = [waiting EXCEPT ![p] = @ /\ ~(waiting[p] /\ i = Len(fetching[p]))]
        /\ overtaken' = [overtaken EXCEPT ![p] = ~waiting[p]]
        /\ UNCHANGED <<standing, version, current, reloading, queues, click>>
  BY DEF TakeFetch, stores
<1>2. /\ queues \in [Desk -> SUBSET Sights] /\ version \in [Episode -> Version]
      /\ current \in [Desk -> Sights] /\ annotation \in [Desk -> Sights]
      /\ fetching \in [Desk -> Seq(Fetches)]
      /\ waiting \in [Desk -> BOOLEAN] /\ overtaken \in [Desk -> BOOLEAN]
  BY DEF DeskInv, DeskTypeOK
<1>3. PICK old \in Seq(Fetches) : old = fetching[p]
  BY <1>2
<1>4. i \in 1 .. Len(old) /\ old[i] \in Fetches
  BY <1>1, <1>3
<1>5. PICK ann \in Sights : ann = IF arrived THEN old[i] ELSE Nothing
  BY <1>1, <1>3, <1>4, FetchesAre DEF Sights
<1>6. PICK new \in Seq(Fetches) :
        /\ new = RemoveAt(old, i) /\ Len(new) = Len(old) - 1
        /\ \A k \in 1 .. Len(old) - 1 : new[k] = IF k < i THEN old[k] ELSE old[k + 1]
  BY <1>4, RemovedAt
<1>7. PICK wait \in BOOLEAN, over \in BOOLEAN :
        /\ wait <=> (waiting[p] /\ i # Len(old))
        /\ over <=> ~waiting[p]
  OBVIOUS
<1>8. /\ annotation' = [annotation EXCEPT ![p] = ann]
      /\ fetching' = [fetching EXCEPT ![p] = new]
  BY <1>1, <1>2, <1>3, <1>5, <1>6
<1>9. waiting' = [waiting EXCEPT ![p] = wait] /\ overtaken' = [overtaken EXCEPT ![p] = over]
  <2>1. waiting[p] \in BOOLEAN
    BY <1>2
  <2>2. wait = (waiting[p] /\ ~(waiting[p] /\ i = Len(old))) /\ over = ~waiting[p]
    BY <1>7, <2>1
  <2>3. QED
    BY <1>1, <1>3, <2>2
<1>10. PICK cur \in Sights : cur = current[p] /\ current' = [current EXCEPT ![p] = cur]
  BY <1>1, <1>2
<1>11. DeskFits(cur, annotation[p], old, waiting[p], overtaken[p], version)
  BY <1>3, <1>10 DEF DeskInv
<1>12. \A k \in 1 .. Len(new) : new[k].version <= version[new[k].episode]
  <2>1. \A k \in 1 .. Len(new) : k \in 1 .. Len(old) /\ k + 1 \in 1 .. Len(old)
    BY <1>6
  <2>2. QED
    BY <1>6, <1>11, <2>1 DEF DeskFits
<1>13. cur # Nothing /\ wait =>
         /\ Len(new) > 0 /\ new[Len(new)].episode = cur.episode
         /\ new[Len(new)].version # 0 => cur.version <= new[Len(new)].version
  <2> SUFFICES ASSUME cur # Nothing, wait
               PROVE  Len(new) > 0 /\ new[Len(new)] = old[Len(old)]
    BY <1>7, <1>11 DEF DeskFits
  <2>1. i < Len(old)
    BY <1>4, <1>7
  <2>2. QED
    BY <1>4, <1>6, <2>1
<1>14. cur # Nothing /\ ~wait /\ ~over => ann = Nothing \/
         /\ ann.episode = cur.episode
         /\ cur.version <= ann.version /\ ann.version <= version[cur.episode]
  <2> SUFFICES ASSUME cur # Nothing, ~wait, ~over, ann # Nothing
               PROVE  /\ ann.episode = cur.episode
                      /\ cur.version <= ann.version /\ ann.version <= version[cur.episode]
    OBVIOUS
  <2>1. waiting[p] /\ i = Len(old) /\ arrived /\ ann = old[Len(old)] /\ ann.version # 0
    BY <1>1, <1>3, <1>5, <1>7
  <2>2. /\ ann.episode = cur.episode /\ cur.version <= ann.version
        /\ ann.version <= version[ann.episode]
    BY <1>4, <1>11, <2>1 DEF DeskFits
  <2>3. QED
    BY <2>2
<1>15. DeskFits(cur, ann, new, wait, over, version)
  BY <1>11, <1>12, <1>13, <1>14 DEF DeskFits
<1>16. queues' \in [Desk -> SUBSET Sights] /\ \A d \in Desk : queues'[d] \subseteq queues[d]
  BY <1>1, <1>2
<1>17. UNCHANGED <<standing, version, reloading, click>>
  BY <1>1
<1>18. QED
  BY <1>8, <1>9, <1>10, <1>15, <1>16, <1>17, PageMoves
------------------------------------------------------------------------------
\* The decisions.

\* What the page shows when its newest request is answered and was not overtaken.
LEMMA DisplayedFits ==
  ASSUME DeskInv, NEW p \in Desk, current[p] # Nothing
  PROVE  /\ current[p] \in Sight /\ Displayed(p) \in Sights
         /\ ~waiting[p] /\ ~overtaken[p] =>
              /\ Displayed(p) \in Sight /\ Displayed(p).episode = current[p].episode
              /\ current[p].version <= Displayed(p).version
              /\ Displayed(p).version <= version[current[p].episode]
<1>1. current[p] \in Sights /\ annotation[p] \in Sights
  BY DEF DeskInv, DeskTypeOK
<1>2. current[p] \in Sight /\ current[p].version \in Nat
  BY <1>1, SightsAre
<1>3. DeskFits(current[p], annotation[p], fetching[p], waiting[p], overtaken[p], version)
  BY DEF DeskInv
<1>4. CASE annotation[p] = Nothing
  <2>1. Displayed(p) = current[p] /\ current[p].version <= version[current[p].episode]
    BY <1>3, <1>4 DEF Displayed, DeskFits, Past
  <2>2. QED
    BY <1>1, <1>2, <2>1
<1>5. CASE annotation[p] # Nothing
  <2>1. Displayed(p) = annotation[p] /\ annotation[p] \in Sight
    BY <1>1, <1>5, SightsAre DEF Displayed
  <2>2. QED
    BY <1>1, <1>2, <1>3, <1>5, <2>1 DEF DeskFits
<1>6. QED
  BY <1>4, <1>5

LEMMA DecideStep ==
  ASSUME DeskInv, NEW p \in Desk, NEW c \in Click, Decide(p, c)
  PROVE  DeskInv' /\ AsShown
<1>1. PICK approve \in BOOLEAN :
        click' = [click EXCEPT ![c] = [stage |-> "sent", desk |-> p, approve |-> approve,
                                       of |-> current[p], shown |-> Displayed(p),
                                       excused |-> waiting[p] \/ overtaken[p]]]
  BY DEF Decide
<1>2. /\ current[p] # Nothing /\ click[c].stage = "none"
      /\ UNCHANGED <<standing, version, held, asked, reloading, queues>>
  BY DEF Decide, stores
<1>3. PICK b \in BOOLEAN : b <=> (waiting[p] \/ overtaken[p])
  OBVIOUS
<1>4. b = (waiting[p] \/ overtaken[p])
  <2>1. waiting[p] \in BOOLEAN /\ overtaken[p] \in BOOLEAN
    BY DEF DeskInv, DeskTypeOK
  <2>2. QED
    BY <1>3, <2>1
<1>5. PICK k : k = [stage |-> "sent", desk |-> p, approve |-> approve,
                    of |-> current[p], shown |-> Displayed(p), excused |-> b]
  OBVIOUS
<1>6. click' = [click EXCEPT ![c] = k]
  BY <1>1, <1>4, <1>5
<1>7. /\ current[p] \in Sight /\ Displayed(p) \in Sights
      /\ ~b => /\ Displayed(p) \in Sight /\ Displayed(p).episode = current[p].episode
               /\ current[p].version <= Displayed(p).version
               /\ Displayed(p).version <= version[current[p].episode]
  BY <1>2, <1>3, DisplayedFits
<1>8. /\ k.stage = "sent" /\ k.of = current[p] /\ k.shown = Displayed(p) /\ k.excused = b
      /\ k \in Clicks
  BY <1>5, <1>7 DEF Clicks, Sights
<1>9. ClickFits(k, version)
  BY <1>7, <1>8 DEF ClickFits
<1>10. click \in [Click -> Clicks]
  BY DEF DeskInv, DeskTypeOK
<1>11. \A d \in Click : click'[d] = IF d = c THEN k ELSE click[d]
  BY <1>6, <1>10
<1>12. \A d \in Click : ClickFits(click'[d], version)
  BY <1>9, <1>11 DEF DeskInv
<1>13. \A d \in Click : click'[d].stage # "done" \/ click[d].stage # "sent"
  BY <1>8, <1>11
<1>14. click' \in [Click -> Clicks]
  BY <1>6, <1>8, <1>10
<1>15. /\ queues' \in [Desk -> SUBSET Sights] /\ reloading' \in [Desk -> Nat]
       /\ \A d \in Desk : \A q \in queues'[d] : Past(q, version)
  BY <1>2 DEF DeskInv, DeskTypeOK
<1>16. UNCHANGED <<held, asked, standing, version>>
  BY <1>2
<1>17. QED
  BY <1>12, <1>13, <1>14, <1>15, <1>16, PagesStay

LEMMA AnswerStep ==
  ASSUME DeskInv, NEW c \in Click, TakeAnswer(c) \/ LoseDecision(c)
  PROVE  DeskInv' /\ AsShown
<1>1. /\ StageTo(c, "over") /\ UNCHANGED <<standing, version, held, asked, queues>>
      /\ \/ reloading' = reloading
         \/ reloading' = [reloading EXCEPT ![click[c].desk] = @ + 1]
  BY DEF TakeAnswer, LoseDecision, stores
<1>2. /\ click' \in [Click -> Clicks]
      /\ \A b \in Click : ClickFits(click'[b], version)
      /\ \A b \in Click : click'[b].stage # "done" \/ click[b].stage # "sent"
  BY <1>1, ClickMoves
<1>3. reloading' \in [Desk -> Nat]
  <2>1. reloading \in [Desk -> Nat]
    BY DEF DeskInv, DeskTypeOK
  <2>2. PICK p : p = click[c].desk
    OBVIOUS
  <2>3. reloading' = reloading \/ reloading' = [reloading EXCEPT ![p] = @ + 1]
    BY <1>1, <2>2
  <2>4. p \in Desk => reloading[p] + 1 \in Nat
    BY <2>1
  <2>5. QED
    BY <2>1, <2>3, <2>4
<1>4. /\ queues' \in [Desk -> SUBSET Sights]
      /\ \A d \in Desk : \A q \in queues'[d] : Past(q, version)
  BY <1>1 DEF DeskInv, DeskTypeOK
<1>5. QED
  BY <1>1, <1>2, <1>3, <1>4, PagesStay

\* A decision that is judged: only this step can break AsShown.
LEMMA JudgeStep ==
  ASSUME DeskInv, NEW c \in Click, Judge(c)
  PROVE  DeskInv' /\ AsShown
<1>1. /\ click[c].stage = "sent"
      /\ UNCHANGED <<version, current, annotation, fetching, waiting, overtaken, reloading, queues>>
  BY DEF Judge, held, asked
<1>2. PICK e \in Episode : e = click[c].of.episode
  <2>1. ClickFits(click[c], version)
    BY DEF DeskInv
  <2>2. QED
    BY <1>1, <2>1 DEF ClickFits, Sight
<1>3. PICK stage \in {"done", "refused"} : StageTo(c, stage)
  BY DEF Judge
<1>4. standing' \in [Episode -> {"review", "returned", "published"}]
  <2>1. standing \in [Episode -> {"review", "returned", "published"}]
    BY DEF DeskInv, DeskTypeOK
  <2>2. CASE standing' = standing
    BY <2>1, <2>2
  <2>3. CASE standing' = [standing EXCEPT ![e] = IF click[c].approve THEN "published" ELSE "returned"]
    BY <2>1, <2>3
  <2>4. QED
    BY <1>2, <2>2, <2>3 DEF Judge
<1>5. click[c] \in Clicks /\ click \in [Click -> Clicks]
  BY DEF DeskInv, DeskTypeOK
<1>6. PICK k : k = [click[c] EXCEPT !.stage = stage]
  OBVIOUS
<1>7. k \in Clicks /\ k.stage = stage
  BY <1>3, <1>5, <1>6 DEF Clicks
<1>8. click' = [click EXCEPT ![c] = k]
  BY <1>3, <1>5, <1>6 DEF StageTo
<1>9. click' \in [Click -> Clicks] /\ \A b \in Click : click'[b] = IF b = c THEN k ELSE click[b]
  BY <1>5, <1>7, <1>8
<1>10. DeskTypeOK'
  BY <1>1, <1>4, <1>9 DEF DeskInv, DeskTypeOK
<1>11. \A p \in Desk :
         /\ DeskFits(current[p], annotation[p], fetching[p], waiting[p], overtaken[p], version)'
         /\ \A q \in queues'[p] : Past(q, version)'
  BY <1>1 DEF DeskInv
<1>12. \A b \in Click : ClickFits(click[b], version)'
  <2>1. ClickFits(k, version)
    BY <1>3, <1>7 DEF ClickFits
  <2>2. QED
    BY <1>1, <1>9, <2>1 DEF DeskInv
<1>13. AsShown
  <2> SUFFICES ASSUME ~click[c].excused, ~(version[e] > click[c].of.version)
               PROVE  click[c].shown = [episode |-> e, version |-> version[e]]
    <3>1. \A b \in Click \ {c} : click'[b].stage = click[b].stage
      BY <1>9
    <3>2. QED
      BY <1>2, <3>1 DEF AsShown
  <2>1. /\ click[c].of \in Sight /\ click[c].shown \in Sight /\ click[c].shown.episode = e
        /\ click[c].of.version <= click[c].shown.version /\ click[c].shown.version <= version[e]
    BY <1>1, <1>2 DEF DeskInv, ClickFits
  <2>2. /\ version[e] \in Nat /\ click[c].of.version \in Nat /\ click[c].shown.version \in Nat
    BY <2>1, DeskAssumption DEF DeskInv, DeskTypeOK, Sight, Version
  <2>3. click[c].shown.version = version[e]
    BY <2>1, <2>2
  <2>4. click[c].shown = [episode |-> click[c].shown.episode, version |-> click[c].shown.version]
    BY <2>1 DEF Sight
  <2>5. QED
    BY <2>1, <2>3, <2>4
<1>14. QED
  BY <1>10, <1>11, <1>12, <1>13 DEF DeskInv

LEMMA ResubmitStep ==
  ASSUME DeskInv, NEW e \in Episode, Resubmit(e)
  PROVE  DeskInv' /\ AsShown
<1>1. /\ version[e] < MaxVersion /\ version' = [version EXCEPT ![e] = @ + 1]
      /\ standing' = [standing EXCEPT ![e] = "review"]
      /\ UNCHANGED <<current, annotation, fetching, waiting, overtaken, reloading, queues, click>>
  BY DEF Resubmit, held, asked
<1>2. version \in [Episode -> Version]
  BY DEF DeskInv, DeskTypeOK
<1>3. version' \in [Episode -> Version] /\ \A f \in Episode : version[f] <= version'[f]
  BY <1>1, <1>2, DeskAssumption DEF Version
<1>4. DeskTypeOK'
  BY <1>1, <1>3 DEF DeskInv, DeskTypeOK
<1>5. PICK ver \in [Episode -> Version] : ver = version'
  BY <1>3
<1>6. /\ \A s \in Sights : Past(s, version) => Past(s, ver)
      /\ \A cur \in Sights, ann \in Sights, fetch \in Seq(Fetches), wait, over \in BOOLEAN :
           DeskFits(cur, ann, fetch, wait, over, version) => DeskFits(cur, ann, fetch, wait, over, ver)
      /\ \A k \in Clicks : ClickFits(k, version) => ClickFits(k, ver)
  BY <1>2, <1>3, <1>5, LaterFits
<1>7. ASSUME NEW p \in Desk
      PROVE  /\ DeskFits(current[p], annotation[p], fetching[p], waiting[p], overtaken[p], ver)
             /\ \A q \in queues[p] : Past(q, ver)
  <2>1. /\ current[p] \in Sights /\ annotation[p] \in Sights /\ fetching[p] \in Seq(Fetches)
        /\ waiting[p] \in BOOLEAN /\ overtaken[p] \in BOOLEAN /\ queues[p] \subseteq Sights
    BY DEF DeskInv, DeskTypeOK
  <2>2. QED
    BY <1>6, <2>1 DEF DeskInv
<1>8. \A c \in Click : ClickFits(click[c], ver)
  BY <1>6 DEF DeskInv, DeskTypeOK
<1>9. /\ \A p \in Desk :
           /\ DeskFits(current[p], annotation[p], fetching[p], waiting[p], overtaken[p], version)'
           /\ \A q \in queues'[p] : Past(q, version)'
      /\ \A c \in Click : ClickFits(click[c], version)'
  BY <1>1, <1>5, <1>7, <1>8
<1>10. QED
  BY <1>1, <1>4, <1>9 DEF DeskInv, AsShown

LEMMA DeskSteps ==
  ASSUME DeskInv, [DeskNext]_deskVars
  PROVE  DeskInv' /\ AsShown
<1>1. CASE UNCHANGED deskVars
  <2>1. UNCHANGED <<standing, version, current, annotation, fetching, waiting, overtaken,
                    reloading, queues, click>>
    BY <1>1 DEF deskVars, stores, held, asked
  <2>2. DeskTypeOK'
    BY <2>1 DEF DeskInv, DeskTypeOK
  <2>3. QED
    BY <2>1, <2>2 DEF DeskInv, AsShown
<1>2. QED
  BY <1>1, ServeQueueStep, LoseQueueStep, TakeQueueStep, ServeFetchStep, TakeFetchStep, DecideStep,
     JudgeStep, AnswerStep, ResubmitStep DEF DeskNext

LEMMA DeskInits == DeskInit => DeskInv
<1> SUFFICES ASSUME DeskInit PROVE DeskInv
  OBVIOUS
<1>1. 1 \in Version /\ Nothing \in Sights
  BY DeskAssumption DEF Version, Sights
<1>2. /\ standing \in [Episode -> {"review", "returned", "published"}]
      /\ version \in [Episode -> Version] /\ \A e \in Episode : version[e] = 1
      /\ queues = [p \in Desk |-> {}] /\ queues \in [Desk -> SUBSET Sights]
      /\ annotation = [p \in Desk |-> Nothing] /\ annotation \in [Desk -> Sights]
      /\ overtaken = [p \in Desk |-> FALSE]
  BY <1>1 DEF DeskInit
<1>3. /\ current \in [Desk -> Sights]
      /\ \A p \in Desk : current[p] # Nothing =>
            current[p].episode \in Episode /\ current[p].version = 1 /\ current[p] \in Sight
  <2>1. current \in [Desk -> {Nothing} \cup [episode : Episode, version : {1}]]
    BY DEF DeskInit
  <2>2. QED
    BY <1>1, <2>1 DEF Sights, Sight
<1>4. waiting \in [Desk -> BOOLEAN] /\ \A p \in Desk : waiting[p] <=> current[p] # Nothing
  BY DEF DeskInit
<1>5. ASSUME NEW p \in Desk
      PROVE  /\ fetching[p] \in Seq(Fetches)
             /\ DeskFits(current[p], annotation[p], fetching[p], waiting[p], overtaken[p], version)
             /\ \A q \in queues[p] : Past(q, version)
  <2>1. fetching[p] = IF waiting[p] THEN <<[episode |-> current[p].episode, version |-> 0]>> ELSE <<>>
    BY DEF DeskInit
  <2>2. Past(current[p], version)
    BY <1>2, <1>3 DEF Past
  <2>3. CASE waiting[p]
    <3>1. PICK f : f = [episode |-> current[p].episode, version |-> 0]
      OBVIOUS
    <3>2. f \in Fetches /\ f.episode = current[p].episode /\ f.version = 0 /\ version[f.episode] = 1
      BY <1>2, <1>3, <1>4, <2>3, <3>1 DEF Fetches
    <3>3. fetching[p] = <<f>> /\ Len(<<f>>) = 1 /\ <<f>>[1] = f
      BY <2>1, <2>3, <3>1
    <3>4. fetching[p] \in Seq(Fetches)
      BY <3>2, <3>3
    <3>5. QED
      BY <1>2, <2>2, <2>3, <3>2, <3>3, <3>4 DEF DeskFits
  <2>4. CASE ~waiting[p]
    <3>1. fetching[p] = <<>> /\ current[p] = Nothing
      BY <1>4, <2>1, <2>4
    <3>2. QED
      BY <1>2, <2>2, <2>4, <3>1 DEF DeskFits
  <2>5. QED
    BY <2>3, <2>4
<1>6. fetching \in [Desk -> Seq(Fetches)]
  <2>1. fetching = [p \in Desk |-> fetching[p]]
    BY DEF DeskInit
  <2>2. QED
    BY <1>5, <2>1
<1>7. reloading \in [Desk -> Nat]
  BY DEF DeskInit
<1>8. click \in [Click -> Clicks] /\ \A c \in Click : ClickFits(click[c], version)
  BY DEF DeskInit, ClickFits
<1>9. DeskTypeOK
  BY <1>2, <1>3, <1>4, <1>6, <1>7, <1>8 DEF DeskTypeOK
<1>10. QED
  BY <1>5, <1>8, <1>9 DEF DeskInv

LEMMA DeskAlways == DeskSpec => []DeskInv
<1>1. DeskInv /\ [DeskNext]_deskVars => DeskInv'
  BY DeskSteps
<1>2. QED
  BY <1>1, DeskInits, PTL DEF DeskSpec

\* Type correctness of the reviewers' pages (ReviewPage) and of the stores they act on.
THEOREM DeskTypesHold == DeskSpec => []DeskTypeOK
<1>1. DeskInv => DeskTypeOK
  BY DEF DeskInv
<1>2. QED
  BY <1>1, DeskAlways, PTL

\* For any pages, Episodes, versions and clicks: what submit_review publishes is what its
\* reviewer had on the page, but for the three ways the page's requests can be overtaken.
THEOREM AlwaysPublishedAsShown == DeskSpec => PublishedAsShown
<1>1. DeskInv /\ [DeskNext]_deskVars => [AsShown]_deskVars
  BY DeskSteps
<1>2. QED
  BY <1>1, DeskAlways, PTL DEF DeskSpec, PublishedAsShown, AsShown
------------------------------------------------------------------------------
(***************************************************************************)
(* SegmentEditor: the lists and their order.                               *)
(***************************************************************************)
\* The segments a list may hold: what preannotate found may end after the Episode does.
Wide == [id : Id, from : Int, to : Int, text : Text]

IsList(list) ==
    /\ list \in Seq(Wide)
    /\ \A i, j \in 1 .. Len(list) : list[i].id = list[j].id => i = j

LEMMA WideIs ==
  ASSUME NEW s \in Wide
  PROVE  s.id \in Id /\ s.from \in Int /\ s.to \in Int /\ s.text \in Text
BY DEF Wide

LEMMA ItemIs ==
  ASSUME NEW list \in Seq(Wide), NEW i \in 1 .. Len(list)
  PROVE  list[i] \in Wide /\ list[i].from \in Int /\ list[i].to \in Int
<1>1. list[i] \in Wide
  OBVIOUS
<1>2. QED
  BY <1>1, WideIs

LEMMA ToSetIs ==
  ASSUME NEW list, IsList(list)
  PROVE  /\ \A s : s \in ToSet(list) <=> \E i \in 1 .. Len(list) : s = list[i]
         /\ \A s \in ToSet(list) : s \in Wide
         /\ \A s, t \in ToSet(list) : s.id = t.id => s = t
BY DEF ToSet, IsList

LEMMA IntervalIs ==
  ASSUME NEW n \in Nat
  PROVE  IsFiniteSet(1 .. n) /\ Cardinality(1 .. n) = n
<1>1. /\ IsFiniteSet(1 .. n)
      /\ Cardinality(1 .. n) = IF 1 > n THEN 0 ELSE n - 1 + 1
  <2>1. 1 \in Int /\ n \in Int
    OBVIOUS
  <2>2. QED
    BY <2>1, FS_Interval, Zenon
<1>2. (IF 1 > n THEN 0 ELSE n - 1 + 1) = n
  OBVIOUS
<1>3. QED
  BY <1>1, <1>2

LEMMA BeforeIs ==
  ASSUME NEW list \in Seq(Wide), NEW i \in 1 .. Len(list)
  PROVE  /\ IsFiniteSet(Before(list, i)) /\ Cardinality(Before(list, i)) \in 0 .. Len(list) - 1
         /\ Before(list, i) \subseteq 1 .. Len(list)
<1>1. PICK n \in Nat : n = Len(list)
  OBVIOUS
<1>2. Before(list, i) \subseteq (1 .. n) \ {i}
  <2>1. \A j \in 1 .. n : list[j].from \in Int
    BY <1>1, ItemIs
  <2>2. QED
    BY <1>1, <2>1 DEF Before
<1>3. IsFiniteSet(1 .. n) /\ Cardinality(1 .. n) = n
  BY <1>1, IntervalIs
<1>4. IsFiniteSet((1 .. n) \ {i}) /\ Cardinality((1 .. n) \ {i}) = n - 1
  BY <1>1, <1>3, FS_RemoveElement
<1>5. IsFiniteSet(Before(list, i)) /\ Cardinality(Before(list, i)) <= n - 1
  BY <1>2, <1>4, FS_Subset
<1>6. Cardinality(Before(list, i)) \in Nat
  BY <1>5, FS_CardinalityType
<1>7. QED
  BY <1>1, <1>2, <1>5, <1>6

\* What comes before another has fewer before it.
LEMMA BeforeOrder ==
  ASSUME NEW list \in Seq(Wide), NEW i \in 1 .. Len(list), NEW j \in 1 .. Len(list),
         \/ list[i].from < list[j].from
         \/ list[i].from = list[j].from /\ i < j
  PROVE  Cardinality(Before(list, i)) < Cardinality(Before(list, j))
<1>1. \A k \in 1 .. Len(list) : list[k].from \in Int
  BY ItemIs
<1>2. i \in Before(list, j)
  BY DEF Before
<1>3. i \notin Before(list, i)
  BY <1>1 DEF Before
<1>4. Before(list, i) \subseteq Before(list, j)
  <2>1. ASSUME NEW k \in Before(list, i) PROVE k \in Before(list, j)
    <3>1. /\ k \in 1 .. Len(list)
          /\ list[k].from < list[i].from \/ (list[k].from = list[i].from /\ k < i)
      BY DEF Before
    <3>2. list[k].from \in Int /\ list[i].from \in Int /\ list[j].from \in Int
      BY <1>1, <3>1
    <3>3. list[k].from < list[j].from \/ (list[k].from = list[j].from /\ k < j)
      BY <3>1, <3>2
    <3>4. QED
      BY <3>1, <3>3 DEF Before
  <2>2. QED
    BY <2>1
<1>5. /\ Cardinality(Before(list, i)) <= Cardinality(Before(list, j))
      /\ Cardinality(Before(list, i)) # Cardinality(Before(list, j))
  <2>1. IsFiniteSet(Before(list, j))
    BY BeforeIs
  <2>2. QED
    BY <1>2, <1>3, <1>4, <2>1, FS_Subset
<1>6. QED
  BY <1>5, BeforeIs

\* No two have the same number before them.
LEMMA RankApart ==
  ASSUME NEW list \in Seq(Wide), NEW i \in 1 .. Len(list), NEW j \in 1 .. Len(list),
         Cardinality(Before(list, i)) = Cardinality(Before(list, j))
  PROVE  i = j
<1>1. list[i].from \in Int /\ list[j].from \in Int
  BY ItemIs
<1>2. ~(Cardinality(Before(list, i)) < Cardinality(Before(list, j)))
      /\ ~(Cardinality(Before(list, j)) < Cardinality(Before(list, i)))
  BY BeforeIs
<1>3. ~(list[i].from < list[j].from) /\ ~(list[j].from < list[i].from)
  BY <1>2, BeforeOrder
<1>4. list[i].from = list[j].from
  BY <1>1, <1>3
<1>5. ~(i < j) /\ ~(j < i)
  BY <1>2, <1>4, BeforeOrder
<1>6. QED
  BY <1>5

\* Every place of the sorted list is somebody's.
LEMMA RankOnto ==
  ASSUME NEW list \in Seq(Wide), NEW k \in 1 .. Len(list)
  PROVE  \E i \in 1 .. Len(list) : Cardinality(Before(list, i)) = k - 1
<1>1. PICK n \in Nat : n = Len(list)
  OBVIOUS
<1>2. PICK rank : rank = [i \in 1 .. n |-> Cardinality(Before(list, i)) + 1]
  OBVIOUS
<1>3. \A i \in 1 .. n : Cardinality(Before(list, i)) \in 0 .. n - 1
  BY <1>1, BeforeIs
<1>4. rank \in [1 .. n -> 1 .. n]
  BY <1>1, <1>2, <1>3
<1>5. ASSUME NEW i \in 1 .. n, NEW j \in 1 .. n, rank[i] = rank[j] PROVE i = j
  <2>1. Cardinality(Before(list, i)) = Cardinality(Before(list, j))
    BY <1>2, <1>3, <1>5
  <2>2. QED
    BY <1>1, <2>1, RankApart
<1>6. rank \in Injection(1 .. n, 1 .. n)
  BY <1>4, <1>5 DEF Injection, IsInjective
<1>7. IsFiniteSet(1 .. n)
  BY <1>1, FS_Interval
<1>8. rank \in Surjection(1 .. n, 1 .. n)
  BY <1>6, <1>7, FS_Injection
<1>9. PICK i \in 1 .. n : rank[i] = k
  BY <1>1, <1>8 DEF Surjection
<1>10. Cardinality(Before(list, i)) = k - 1
  <2>1. PICK c \in 0 .. n - 1 : c = Cardinality(Before(list, i))
    BY <1>3
  <2>2. c + 1 = k
    BY <1>2, <1>9, <2>1
  <2>3. QED
    BY <1>1, <2>1, <2>2
<1>11. QED
  BY <1>1, <1>10

\* Sorting keeps the segments and puts them in order.
LEMMA SortedIs ==
  ASSUME NEW list, IsList(list)
  PROVE  /\ IsList(Sorted(list)) /\ Len(Sorted(list)) = Len(list)
         /\ ToSet(Sorted(list)) = ToSet(list)
         /\ \A k, l \in 1 .. Len(list) : k < l => Sorted(list)[k].from <= Sorted(list)[l].from
<1>1. PICK n \in Nat : n = Len(list)
  BY DEF IsList
<1>2. PICK new : new = Sorted(list)
  OBVIOUS
<1>3. DOMAIN list = 1 .. n /\ list \in Seq(Wide)
  BY <1>1 DEF IsList
<1>4. PICK place : place =
        [k \in 1 .. n |-> CHOOSE i \in DOMAIN list : Cardinality(Before(list, i)) = k - 1]
  OBVIOUS
<1>5. \A k \in 1 .. n : /\ place[k] \in 1 .. n /\ Cardinality(Before(list, place[k])) = k - 1
                        /\ new[k] = list[place[k]]
  <2>1. ASSUME NEW k \in 1 .. n
        PROVE  /\ place[k] \in 1 .. n /\ Cardinality(Before(list, place[k])) = k - 1
               /\ new[k] = list[place[k]]
    <3>1. \E i \in DOMAIN list : Cardinality(Before(list, i)) = k - 1
      BY <1>1, <1>3, RankOnto
    <3>2. place[k] \in 1 .. n /\ Cardinality(Before(list, place[k])) = k - 1
      BY <1>3, <1>4, <3>1
    <3>3. new[k] = list[place[k]]
      BY <1>2, <1>3, <1>4 DEF Sorted
    <3>4. QED
      BY <3>2, <3>3
  <2>2. QED
    BY <2>1
<1>6. new \in Seq(Wide) /\ Len(new) = n /\ DOMAIN new = 1 .. n
  <2>1. new = [k \in 1 .. n |-> new[k]]
    BY <1>2, <1>3 DEF Sorted
  <2>2. \A k \in 1 .. n : list[k] \in Wide
    BY <1>1, <1>3
  <2>3. new \in [1 .. n -> Wide]
    BY <1>5, <2>1, <2>2
  <2>4. QED
    BY <1>1, <2>3
<1>7. \A k, l \in 1 .. n : place[k] = place[l] => k = l
  <2>1. ASSUME NEW k \in 1 .. n, NEW l \in 1 .. n, place[k] = place[l] PROVE k = l
    <3>1. k - 1 = l - 1
      BY <1>5, <2>1
    <3>2. QED
      BY <1>1, <3>1
  <2>2. QED
    BY <2>1
<1>8. \A i \in 1 .. n : \E k \in 1 .. n : place[k] = i
  <2>1. ASSUME NEW i \in 1 .. n PROVE \E k \in 1 .. n : place[k] = i
    <3>1. PICK c \in 0 .. n - 1 : c = Cardinality(Before(list, i))
      BY <1>1, <1>3, BeforeIs
    <3>2. c + 1 \in 1 .. n /\ (c + 1) - 1 = c
      BY <1>1, <3>1
    <3>3. place[c + 1] \in 1 .. n /\ Cardinality(Before(list, place[c + 1])) = c
      BY <1>5, <3>2
    <3>4. place[c + 1] = i
      BY <1>1, <1>3, <3>1, <3>3, RankApart
    <3>5. QED
      BY <3>2, <3>4
  <2>2. QED
    BY <2>1
<1>9. IsList(new)
  <2>1. ASSUME NEW k \in 1 .. n, NEW l \in 1 .. n, new[k].id = new[l].id PROVE k = l
    <3>1. list[place[k]].id = list[place[l]].id
      BY <1>5, <2>1
    <3>2. place[k] = place[l]
      BY <1>1, <1>5, <3>1 DEF IsList
    <3>3. QED
      BY <1>7, <3>2
  <2>2. QED
    BY <1>6, <2>1 DEF IsList
<1>10. ToSet(new) = ToSet(list)
  <2>1. \A s : s \in ToSet(new) <=> \E k \in 1 .. n : s = new[k]
    BY <1>6, <1>9, ToSetIs
  <2>2. \A s : s \in ToSet(list) <=> \E k \in 1 .. n : s = list[k]
    BY <1>1, ToSetIs
  <2>3. QED
    BY <1>5, <1>8, <2>1, <2>2
<1>11. ASSUME NEW k \in 1 .. n, NEW l \in 1 .. n, k < l
       PROVE  new[k].from <= new[l].from
  <2>1. list[place[k]].from \in Int /\ list[place[l]].from \in Int
    BY <1>1, <1>3, <1>5, ItemIs
  <2>2. CASE list[place[l]].from < list[place[k]].from
    <3>1. Cardinality(Before(list, place[l])) < Cardinality(Before(list, place[k]))
      BY <1>1, <1>3, <1>5, <2>2, BeforeOrder
    <3>2. l - 1 < k - 1
      BY <1>5, <3>1
    <3>3. QED
      BY <1>1, <1>11, <3>2
  <2>3. QED
    BY <1>5, <2>1, <2>2
<1>12. QED
  BY <1>1, <1>2, <1>6, <1>9, <1>10, <1>11
------------------------------------------------------------------------------
(***************************************************************************)
(* What can be submitted, of the segments whatever their order.            *)
(***************************************************************************)
FitAlone(s) == s.from >= 0 /\ s.to <= Duration /\ s.to - s.from >= MinSegment /\ s.text # "none"

Apart(s, t) == s.to <= t.from \/ t.to <= s.from

Fit(S) ==
    /\ \A s \in S : FitAlone(s)
    /\ \A s, t \in S : s # t => Apart(s, t)

\* In a list without overlaps a segment ends before any later one starts.
LEMMA EndsBefore ==
  ASSUME NEW list, IsList(list), Valid(list),
         NEW k \in 1 .. Len(list), NEW l \in 1 .. Len(list), k < l
  PROVE  Sorted(list)[k].to <= Sorted(list)[l].from
<1>1. PICK n \in Nat : n = Len(list)
  BY DEF IsList
<1>2. PICK new : new = Sorted(list)
  OBVIOUS
<1>3. new \in Seq(Wide) /\ Len(new) = n
  BY <1>1, <1>2, SortedIs DEF IsList
<1>4. \A i \in 2 .. n : ~(new[i].from < new[i - 1].to)
  BY <1>1, <1>2 DEF Valid, Overlaps
<1>5. new[k].to \in Int /\ new[k + 1].from \in Int /\ new[l].from \in Int
  <2>1. k \in 1 .. n /\ k + 1 \in 1 .. n /\ l \in 1 .. n
    BY <1>1
  <2>2. QED
    BY <1>3, <2>1, ItemIs
<1>6. new[k].to <= new[k + 1].from
  <2>1. k + 1 \in 2 .. n /\ (k + 1) - 1 = k
    BY <1>1
  <2>2. ~(new[k + 1].from < new[k].to)
    BY <1>4, <2>1
  <2>3. QED
    BY <1>5, <2>2
<1>7. new[k + 1].from <= new[l].from
  <2>1. CASE k + 1 = l
    BY <1>5, <2>1
  <2>2. CASE k + 1 < l
    BY <1>1, <1>2, <2>2, SortedIs
  <2>3. QED
    BY <1>1, <2>1, <2>2
<1>8. QED
  BY <1>2, <1>5, <1>6, <1>7

LEMMA ValidIsFit ==
  ASSUME NEW list, IsList(list)
  PROVE  Valid(list) <=> Fit(ToSet(list))
<1>1. PICK n \in Nat : n = Len(list)
  BY DEF IsList
<1>2. PICK new : new = Sorted(list)
  OBVIOUS
<1>3. /\ IsList(new) /\ new \in Seq(Wide) /\ Len(new) = n
      /\ \A s : s \in ToSet(list) <=> \E i \in 1 .. n : s = new[i]
  <2>1. IsList(new) /\ Len(new) = n /\ ToSet(new) = ToSet(list)
    BY <1>1, <1>2, SortedIs
  <2>2. \A s : s \in ToSet(new) <=> \E i \in 1 .. n : s = new[i]
    BY <2>1, ToSetIs
  <2>3. QED
    BY <2>1, <2>2 DEF IsList
<1>4. ASSUME Valid(list) PROVE Fit(ToSet(list))
  <2>1. \A s \in ToSet(list) : FitAlone(s)
    BY <1>4 DEF Valid, FitAlone
  <2>2. ASSUME NEW s \in ToSet(list), NEW t \in ToSet(list), s # t PROVE Apart(s, t)
    <3>1. PICK k \in 1 .. n, l \in 1 .. n : s = new[k] /\ t = new[l]
      BY <1>3
    <3>2. k < l \/ l < k
      BY <2>2, <3>1
    <3>3. CASE k < l
      BY <1>1, <1>2, <1>4, <3>1, <3>3, EndsBefore DEF Apart
    <3>4. CASE l < k
      BY <1>1, <1>2, <1>4, <3>1, <3>4, EndsBefore DEF Apart
    <3>5. QED
      BY <3>2, <3>3, <3>4
  <2>3. QED
    BY <2>1, <2>2 DEF Fit
<1>5. ASSUME Fit(ToSet(list)) PROVE Valid(list)
  <2>1. ASSUME NEW i \in 2 .. n PROVE ~(new[i].from < new[i - 1].to)
    <3>1. i - 1 \in 1 .. n /\ i \in 1 .. n /\ i - 1 < i
      OBVIOUS
    <3>2. new[i - 1] # new[i]
      BY <1>3, <3>1 DEF IsList
    <3>3. /\ new[i - 1].from \in Int /\ new[i - 1].to \in Int
          /\ new[i].from \in Int /\ new[i].to \in Int
      BY <1>3, <3>1, ItemIs
    <3>4. new[i - 1].from <= new[i].from
      BY <1>1, <1>2, <3>1, SortedIs
    <3>5. new[i - 1] \in ToSet(list) /\ new[i] \in ToSet(list)
      BY <1>3, <3>1
    <3>6. Apart(new[i - 1], new[i]) /\ FitAlone(new[i])
      BY <1>5, <3>2, <3>5 DEF Fit
    <3>7. new[i].to - new[i].from >= 1
      BY <3>3, <3>6, EditorAssumption DEF FitAlone
    <3>8. QED
      BY <3>3, <3>4, <3>6, <3>7 DEF Apart
  <2>2. Overlaps(list) = {}
    BY <1>1, <1>2, <2>1 DEF Overlaps
  <2>3. QED
    BY <1>5, <2>2 DEF Valid, Fit, FitAlone
<1>6. QED
  BY <1>4, <1>5

\* The contract accepts what the tool finds valid, but for what the tool does not look at.
LEMMA ValidAccepted ==
  ASSUME NEW list, IsList(list), Valid(list)
  PROVE  Accepted(list) \/ Unlooked(list)
<1>1. ASSUME NEW s \in ToSet(list) PROVE 0 <= s.from /\ s.from < s.to
  <2>1. s \in Wide
    BY ToSetIs
  <2>2. s.from \in Int /\ s.to \in Int
    BY <2>1, WideIs
  <2>3. s.from >= 0 /\ s.to - s.from >= MinSegment
    BY DEF Valid
  <2>4. QED
    BY <2>2, <2>3, EditorAssumption
<1>2. QED
  BY <1>1 DEF Valid, Accepted, Unlooked
------------------------------------------------------------------------------
(***************************************************************************)
(* What the edits of sequences do to lists.                                *)
(***************************************************************************)
LEMMA ReplacedIs ==
  ASSUME NEW list, IsList(list), NEW i \in 1 .. Len(list), NEW x \in Wide, x.id = list[i].id
  PROVE  /\ IsList(ReplaceAt(list, i, x)) /\ Len(ReplaceAt(list, i, x)) = Len(list)
         /\ ToSet(ReplaceAt(list, i, x)) = (ToSet(list) \ {list[i]}) \cup {x}
<1>1. PICK n \in Nat : n = Len(list)
  BY DEF IsList
<1>2. PICK new : new = ReplaceAt(list, i, x)
  OBVIOUS
<1>3. list \in Seq(Wide)
  BY DEF IsList
<1>4. /\ new \in Seq(Wide) /\ Len(new) = n
      /\ \A k \in 1 .. n : new[k] = IF k = i THEN x ELSE list[k]
  BY <1>1, <1>2, <1>3 DEF ReplaceAt
<1>5. \A k, l \in 1 .. n : list[k].id = list[l].id => k = l
  BY <1>1 DEF IsList
<1>6. IsList(new)
  <2>1. \A k \in 1 .. n : new[k].id = list[k].id
    BY <1>4
  <2>2. QED
    BY <1>4, <1>5, <2>1 DEF IsList
<1>7. ToSet(new) = (ToSet(list) \ {list[i]}) \cup {x}
  <2>1. \A s : s \in ToSet(new) <=> \E k \in 1 .. n : s = new[k]
    BY <1>4, <1>6, ToSetIs
  <2>2. \A s : s \in ToSet(list) <=> \E k \in 1 .. n : s = list[k]
    BY <1>1, ToSetIs
  <2>3. \A k \in 1 .. n : list[k] = list[i] => k = i
    BY <1>1, <1>5
  <2>4. QED
    BY <1>1, <1>4, <2>1, <2>2, <2>3
<1>8. QED
  BY <1>1, <1>2, <1>4, <1>6, <1>7

LEMMA RemovedIs ==
  ASSUME NEW list, IsList(list), NEW i \in 1 .. Len(list)
  PROVE  /\ IsList(RemoveAt(list, i)) /\ Len(RemoveAt(list, i)) = Len(list) - 1
         /\ ToSet(RemoveAt(list, i)) = ToSet(list) \ {list[i]}
<1>1. PICK n \in Nat : n = Len(list)
  BY DEF IsList
<1>2. PICK new : new = RemoveAt(list, i)
  OBVIOUS
<1>3. list \in Seq(Wide)
  BY DEF IsList
<1>4. /\ new \in Seq(Wide) /\ Len(new) = n - 1
      /\ \A k \in 1 .. n - 1 : new[k] = IF k < i THEN list[k] ELSE list[k + 1]
  BY <1>1, <1>2, <1>3, RemovedAt
<1>5. \A k, l \in 1 .. n : list[k].id = list[l].id => k = l
  BY <1>1 DEF IsList
<1>6. IsList(new)
  <2>1. ASSUME NEW k \in 1 .. n - 1, NEW l \in 1 .. n - 1, new[k].id = new[l].id PROVE k = l
    <3>1. PICK a \in 1 .. n, b \in 1 .. n : /\ a = IF k < i THEN k ELSE k + 1
                                            /\ b = IF l < i THEN l ELSE l + 1
      OBVIOUS
    <3>2. new[k] = list[a] /\ new[l] = list[b]
      BY <1>4, <3>1
    <3>3. a = b
      BY <1>5, <2>1, <3>2
    <3>4. QED
      BY <1>1, <3>1, <3>3
  <2>2. QED
    BY <1>4, <2>1 DEF IsList
<1>7. ASSUME NEW s PROVE s \in ToSet(new) <=> s \in ToSet(list) \ {list[i]}
  <2>1. s \in ToSet(new) <=> \E k \in 1 .. n - 1 : s = new[k]
    BY <1>4, <1>6, ToSetIs
  <2>2. s \in ToSet(list) <=> \E k \in 1 .. n : s = list[k]
    BY <1>1, ToSetIs
  <2>3. \A k \in 1 .. n : list[k] = list[i] => k = i
    BY <1>1, <1>5
  <2>4. ASSUME NEW k \in 1 .. n - 1, s = new[k] PROVE s \in ToSet(list) \ {list[i]}
    <3>1. PICK a \in 1 .. n : a # i /\ s = list[a]
      <4>1. CASE k < i
        BY <1>1, <1>4, <2>4, <4>1
      <4>2. CASE ~(k < i)
        <5>1. k + 1 \in 1 .. n /\ k + 1 # i /\ s = list[k + 1]
          BY <1>1, <1>4, <2>4, <4>2
        <5>2. QED
          BY <5>1
      <4>3. QED
        BY <4>1, <4>2
    <3>2. QED
      BY <2>2, <2>3, <3>1
  <2>5. ASSUME NEW k \in 1 .. n, s = list[k], k # i PROVE s \in ToSet(new)
    <3>1. CASE k < i
      <4>1. k \in 1 .. n - 1 /\ s = new[k]
        BY <1>1, <1>4, <2>5, <3>1
      <4>2. QED
        BY <2>1, <4>1
    <3>2. CASE k > i
      <4>1. k - 1 \in 1 .. n - 1 /\ ~(k - 1 < i) /\ (k - 1) + 1 = k
        BY <1>1, <3>2
      <4>2. s = new[k - 1]
        BY <1>4, <2>5, <4>1
      <4>3. QED
        BY <2>1, <4>1, <4>2
    <3>3. QED
      BY <1>1, <2>5, <3>1, <3>2
  <2>6. QED
    BY <2>1, <2>2, <2>4, <2>5
<1>8. ToSet(new) = ToSet(list) \ {list[i]}
  BY <1>7
<1>9. QED
  BY <1>1, <1>2, <1>4, <1>6, <1>8

LEMMA InsertedIs ==
  ASSUME NEW list, IsList(list), NEW i \in 1 .. Len(list) + 1, NEW x \in Wide,
         \A j \in 1 .. Len(list) : list[j].id # x.id
  PROVE  /\ IsList(InsertAt(list, i, x))
         /\ ToSet(InsertAt(list, i, x)) = ToSet(list) \cup {x}
<1>1. PICK n \in Nat : n = Len(list)
  BY DEF IsList
<1>2. list \in Seq(Wide)
  BY DEF IsList
<1>3. PICK a \in Seq(Wide), b \in Seq(Wide) : a = SubSeq(list, 1, i - 1) /\ b = SubSeq(list, i, n)
  <2>1. SubSeq(list, 1, i - 1) \in Seq(Wide) /\ SubSeq(list, i, n) \in Seq(Wide)
    BY <1>1, <1>2, SubSeqProperties
  <2>2. QED
    BY <2>1
<1>4. /\ Len(a) = i - 1 /\ \A k \in 1 .. i - 1 : a[k] = list[k]
      /\ Len(b) = n - i + 1 /\ \A k \in 1 .. n - i + 1 : b[k] = list[i + k - 1]
  BY <1>1, <1>2, <1>3, SubSeqProperties
<1>5. PICK e : e = <<x>>
  OBVIOUS
<1>6. Len(e) = 1 /\ e[1] = x
  BY <1>5
<1>7. e \in Seq(Wide)
  BY <1>5
<1>8. PICK c \in Seq(Wide) : c = a \o e
  BY <1>7, ConcatProperties
<1>9. Len(c) = i /\ \A k \in 1 .. i : c[k] = IF k < i THEN list[k] ELSE x
  <2>2. Len(c) = Len(a) + Len(e)
    BY <1>8, <1>7, ConcatProperties
  <2>3. \A k \in 1 .. Len(a) + Len(e) : c[k] = IF k <= Len(a) THEN a[k] ELSE e[k - Len(a)]
    BY <1>8, <1>7, ConcatProperties
  <2>4. Len(a) + Len(e) = i
    BY <1>1, <1>4, <1>6
  <2>5. \A k \in 1 .. i : k <= Len(a) <=> k < i
    BY <1>1, <1>4
  <2>6. ASSUME NEW k \in 1 .. i PROVE c[k] = IF k < i THEN list[k] ELSE x
    <3>1. CASE k < i
      <4>1. k \in 1 .. i - 1 /\ k <= Len(a) /\ k \in 1 .. Len(a) + Len(e)
        BY <1>1, <1>4, <2>4, <3>1
      <4>2. c[k] = a[k] /\ a[k] = list[k]
        BY <1>4, <2>3, <4>1
      <4>3. QED
        BY <3>1, <4>2
    <3>2. CASE ~(k < i)
      <4>1. k - Len(a) = 1
        BY <1>1, <1>4, <3>2
      <4>2. QED
        BY <1>6, <2>3, <2>4, <2>5, <3>2, <4>1
    <3>3. QED
      BY <3>1, <3>2
  <2>7. QED
    BY <2>2, <2>4, <2>6
<1>10. PICK new : new = InsertAt(list, i, x)
  OBVIOUS
<1>11. new = c \o b
  BY <1>1, <1>3, <1>8, <1>10, <1>5 DEF InsertAt
<1>12. /\ new \in Seq(Wide) /\ Len(new) = n + 1
      /\ \A k \in 1 .. n + 1 : new[k] = IF k < i THEN list[k] ELSE IF k = i THEN x ELSE list[k - 1]
  <2>1. c \o b \in Seq(Wide) /\ Len(c \o b) = Len(c) + Len(b)
    BY ConcatProperties
  <2>2. ASSUME NEW k \in 1 .. n + 1
        PROVE  (c \o b)[k] = IF k < i THEN list[k] ELSE IF k = i THEN x ELSE list[k - 1]
    <3>1. (c \o b)[k] = IF k <= Len(c) THEN c[k] ELSE b[k - Len(c)]
      BY <1>1, <1>4, <1>9, ConcatProperties
    <3>2. CASE k <= i
      BY <1>1, <1>9, <3>1, <3>2
    <3>3. CASE ~(k <= i)
      <4>1. k - i \in 1 .. n - i + 1 /\ i + (k - i) - 1 = k - 1
        BY <1>1, <3>3
      <4>2. (c \o b)[k] = b[k - i]
        BY <1>9, <3>1, <3>3
      <4>3. b[k - i] = list[i + (k - i) - 1]
        BY <1>4, <4>1
      <4>4. ~(k < i) /\ k # i
        BY <1>1, <3>3
      <4>5. QED
        BY <4>1, <4>2, <4>3, <4>4
    <3>4. QED
      BY <3>2, <3>3
  <2>3. QED
    BY <1>1, <1>4, <1>9, <1>11, <2>1, <2>2
<1>13. \A k, l \in 1 .. n : list[k].id = list[l].id => k = l
  BY <1>1 DEF IsList
<1>14. IsList(new)
  <2>1. ASSUME NEW k \in 1 .. n + 1, NEW l \in 1 .. n + 1, new[k].id = new[l].id, k # l
        PROVE  FALSE
    <3>1. ASSUME NEW m \in 1 .. n + 1, m # i
          PROVE  \E j \in 1 .. n : new[m] = list[j] /\ j = IF m < i THEN m ELSE m - 1
      BY <1>1, <1>12, <3>1
    <3>2. CASE k = i
      <4>1. PICK j \in 1 .. n : new[l] = list[j]
        BY <2>1, <3>1, <3>2
      <4>2. new[k] = x
        BY <1>12, <3>2
      <4>3. QED
        BY <1>1, <2>1, <4>1, <4>2
    <3>3. CASE l = i
      <4>1. PICK j \in 1 .. n : new[k] = list[j]
        BY <2>1, <3>1, <3>3
      <4>2. new[l] = x
        BY <1>12, <3>3
      <4>3. QED
        BY <1>1, <2>1, <4>1, <4>2
    <3>4. CASE k # i /\ l # i
      <4>1. PICK j \in 1 .. n : new[k] = list[j] /\ j = IF k < i THEN k ELSE k - 1
        BY <3>1, <3>4
      <4>2. PICK m \in 1 .. n : new[l] = list[m] /\ m = IF l < i THEN l ELSE l - 1
        BY <3>1, <3>4
      <4>3. j = m
        BY <1>13, <2>1, <4>1, <4>2
      <4>4. QED
        BY <1>1, <2>1, <3>4, <4>1, <4>2, <4>3
    <3>5. QED
      BY <3>2, <3>3, <3>4
  <2>2. QED
    BY <1>12, <2>1 DEF IsList
<1>15. \A s : s \in ToSet(new) <=> \E k \in 1 .. n + 1 : s = new[k]
  <2>1. \A s : s \in ToSet(new) <=> \E k \in 1 .. Len(new) : s = new[k]
    BY <1>14, ToSetIs
  <2>2. Len(new) = n + 1
    BY <1>12
  <2>3. QED
    BY <2>1, <2>2
<1>16. ASSUME NEW s PROVE s \in ToSet(new) <=> s \in ToSet(list) \cup {x}
  <2>1. s \in ToSet(new) <=> \E k \in 1 .. n + 1 : s = new[k]
    BY <1>15
  <2>2. s \in ToSet(list) <=> \E k \in 1 .. n : s = list[k]
    BY <1>1, ToSetIs
  <2>3. ASSUME NEW k \in 1 .. n + 1, s = new[k] PROVE s \in ToSet(list) \cup {x}
    <3>1. CASE k < i
      <4>1. k \in 1 .. n /\ s = list[k]
        BY <1>1, <1>12, <2>3, <3>1
      <4>2. QED
        BY <2>2, <4>1
    <3>2. CASE k > i
      <4>1. k - 1 \in 1 .. n /\ s = list[k - 1]
        BY <1>1, <1>12, <2>3, <3>2
      <4>2. QED
        BY <2>2, <4>1
    <3>3. CASE k = i
      BY <1>12, <2>3, <3>3
    <3>4. QED
      BY <1>1, <3>1, <3>2, <3>3
  <2>4. ASSUME NEW k \in 1 .. n, s = list[k] PROVE s \in ToSet(new)
    <3>1. CASE k < i
      <4>1. k \in 1 .. n + 1 /\ s = new[k]
        BY <1>1, <1>12, <2>4, <3>1
      <4>2. QED
        BY <2>1, <4>1
    <3>2. CASE ~(k < i)
      <4>1. k + 1 \in 1 .. n + 1 /\ ~(k + 1 < i) /\ k + 1 # i /\ (k + 1) - 1 = k
        BY <1>1, <3>2
      <4>2. s = new[k + 1]
        BY <1>12, <2>4, <4>1
      <4>3. QED
        BY <2>1, <4>1, <4>2
    <3>3. QED
      BY <3>1, <3>2
  <2>5. x \in ToSet(new)
    <3>1. i \in 1 .. n + 1 /\ new[i] = x
      BY <1>1, <1>12
    <3>2. QED
      BY <1>15, <3>1
  <2>6. QED
    BY <2>1, <2>2, <2>3, <2>4, <2>5
<1>17. ToSet(new) = ToSet(list) \cup {x}
  BY <1>16
<1>18. QED
  BY <1>10, <1>14, <1>17

LEMMA AppendedIs ==
  ASSUME NEW list, IsList(list), NEW x \in Wide, \A j \in 1 .. Len(list) : list[j].id # x.id
  PROVE  IsList(Append(list, x)) /\ ToSet(Append(list, x)) = ToSet(list) \cup {x}
<1>1. PICK n \in Nat : n = Len(list)
  BY DEF IsList
<1>2. PICK new : new = Append(list, x)
  OBVIOUS
<1>3. list \in Seq(Wide)
  BY DEF IsList
<1>4. /\ new \in Seq(Wide) /\ Len(new) = n + 1
      /\ (\A k \in 1 .. n : new[k] = list[k]) /\ new[n + 1] = x
  BY <1>1, <1>2, <1>3, AppendProperties
<1>5. \A k, l \in 1 .. n : list[k].id = list[l].id => k = l
  BY <1>1 DEF IsList
<1>6. IsList(new)
  <2>1. ASSUME NEW k \in 1 .. n + 1, NEW l \in 1 .. n + 1, new[k].id = new[l].id PROVE k = l
    <3>1. \A m \in 1 .. n + 1 : m \in 1 .. n \/ m = n + 1
      BY <1>1
    <3>2. QED
      BY <1>1, <1>4, <1>5, <2>1, <3>1
  <2>2. QED
    BY <1>4, <2>1 DEF IsList
<1>7. ASSUME NEW s PROVE s \in ToSet(new) <=> s \in ToSet(list) \cup {x}
  <2>1. s \in ToSet(new) <=> \E k \in 1 .. n + 1 : s = new[k]
    BY <1>4, <1>6, ToSetIs
  <2>2. s \in ToSet(list) <=> \E k \in 1 .. n : s = list[k]
    BY <1>1, ToSetIs
  <2>3. \A k : k \in 1 .. n + 1 <=> k \in 1 .. n \/ k = n + 1
    BY <1>1
  <2>4. QED
    BY <1>4, <2>1, <2>2, <2>3
<1>8. ToSet(new) = ToSet(list) \cup {x}
  BY <1>7
<1>9. QED
  BY <1>2, <1>6, <1>8
------------------------------------------------------------------------------
(***************************************************************************)
(* What the edits of an annotator do to a list that is fit to submit.      *)
(***************************************************************************)
Unlabels(list) == \E s \in ToSet(list) : s.text = "none"

KeepsFit(list, new) == Valid(list) => Valid(new) \/ Unlabels(new) \/ Swallows(new)

LEMMA FitFewer ==
  ASSUME NEW S, Fit(S), NEW T \in SUBSET S
  PROVE  Fit(T)
BY DEF Fit

LEMMA FitMore ==
  ASSUME NEW S, Fit(S), NEW x, FitAlone(x), \A t \in S : t # x => Apart(x, t)
  PROVE  Fit(S \cup {x})
<1>1. \A t \in S : t # x => Apart(t, x)
  BY DEF Apart
<1>2. QED
  BY <1>1 DEF Fit

LEMMA FoundIs ==
  ASSUME NEW list, IsList(list), NEW s \in ToSet(list)
  PROVE  Find(list, s.id) \in 1 .. Len(list) /\ list[Find(list, s.id)] = s
<1>1. PICK n \in Nat : n = Len(list)
  BY DEF IsList
<1>2. DOMAIN list = 1 .. n
  BY <1>1 DEF IsList
<1>3. PICK i \in 1 .. n : s = list[i]
  BY <1>1, ToSetIs
<1>4. PICK j : j = Find(list, s.id)
  OBVIOUS
<1>5. j \in 1 .. n /\ list[j].id = s.id
  BY <1>2, <1>3, <1>4 DEF Find
<1>6. j = i
  BY <1>1, <1>3, <1>5 DEF IsList
<1>7. QED
  BY <1>1, <1>3, <1>4, <1>5, <1>6

\* A list that is not full leaves an identifier for one more segment.
LEMMA FreshIs ==
  ASSUME NEW list, IsList(list), Len(list) < MaxSegments
  PROVE  FreshId(list) \in Id /\ \A j \in 1 .. Len(list) : list[j].id # FreshId(list)
<1>1. PICK n \in Nat : n = Len(list)
  BY DEF IsList
<1>2. DOMAIN list = 1 .. n /\ list \in Seq(Wide)
  BY <1>1 DEF IsList
<1>3. PICK f : f = [j \in 1 .. n |-> list[j].id]
  OBVIOUS
<1>4. \A j \in 1 .. n : f[j] = list[j].id /\ list[j].id \in Id
  BY <1>1, <1>2, <1>3, ItemIs, WideIs
<1>5. PICK T : T = {f[j] : j \in 1 .. n}
  OBVIOUS
<1>6. f \in Surjection(1 .. n, T)
  <2>1. f \in [1 .. n -> T]
    BY <1>3, <1>5
  <2>2. \A t \in T : \E j \in 1 .. n : f[j] = t
    BY <1>5
  <2>3. QED
    BY <2>1, <2>2 DEF Surjection
<1>7. Cardinality(T) <= n
  <2>1. IsFiniteSet(1 .. n) /\ Cardinality(1 .. n) = n
    BY IntervalIs
  <2>2. Cardinality(T) <= Cardinality(1 .. n)
    BY <1>6, <2>1, FS_Surjection
  <2>3. QED
    BY <2>1, <2>2
<1>8. T # Id
  <2>1. Cardinality(Id) = MaxSegments
    BY IntervalIs, EditorAssumption DEF Id
  <2>2. QED
    BY <1>1, <1>7, <2>1, EditorAssumption
<1>9. T \subseteq Id
  BY <1>4, <1>5
<1>10. \E id \in Id : id \notin T
  BY <1>8, <1>9
<1>11. \E id \in Id : ~Has(list, id)
  BY <1>2, <1>4, <1>5, <1>10 DEF Has
<1>12. FreshId(list) \in Id /\ ~Has(list, FreshId(list))
  BY <1>11 DEF FreshId
<1>13. QED
  BY <1>1, <1>2, <1>12 DEF Has

LEMMA WithoutIs ==
  ASSUME NEW list, IsList(list), NEW s \in ToSet(list)
  PROVE  /\ IsList(Without(list, s.id)) /\ ToSet(Without(list, s.id)) = ToSet(list) \ {s}
<1>1. PICK i \in 1 .. Len(list) : i = Find(list, s.id) /\ list[i] = s
  BY FoundIs
<1>2. Without(list, s.id) = RemoveAt(list, i)
  BY <1>1 DEF Without
<1>3. IsList(RemoveAt(list, i)) /\ ToSet(RemoveAt(list, i)) = ToSet(list) \ {list[i]}
  BY RemovedIs
<1>4. QED
  BY <1>1, <1>2, <1>3

\* Deleting.
LEMMA WithoutKeeps ==
  ASSUME NEW list, IsList(list), NEW s \in ToSet(list)
  PROVE  IsList(Without(list, s.id)) /\ KeepsFit(list, Without(list, s.id))
<1>1. PICK new : new = Without(list, s.id)
  OBVIOUS
<1>2. IsList(new) /\ ToSet(new) = ToSet(list) \ {s}
  BY <1>1, WithoutIs
<1>3. ASSUME Valid(list) PROVE Valid(new)
  <2>1. Fit(ToSet(list))
    BY <1>3, ValidIsFit
  <2>2. Fit(ToSet(new))
    BY <1>2, <2>1, FitFewer
  <2>3. QED
    BY <1>2, <2>2, ValidIsFit
<1>4. QED
  BY <1>1, <1>2, <1>3 DEF KeepsFit

\* Taking a label away or giving one.
LEMMA RelabelKeeps ==
  ASSUME NEW list, IsList(list), NEW s \in ToSet(list), NEW text \in Text
  PROVE  IsList(Relabel(list, s.id, text)) /\ KeepsFit(list, Relabel(list, s.id, text))
<1>1. PICK i \in 1 .. Len(list) : i = Find(list, s.id) /\ list[i] = s
  BY FoundIs
<1>2. PICK x : x = [s EXCEPT !.text = text]
  OBVIOUS
<1>3. s \in Wide
  BY ToSetIs
<1>4. x \in Wide /\ x.id = s.id /\ x.from = s.from /\ x.to = s.to /\ x.text = text
  BY <1>2, <1>3 DEF Wide
<1>5. PICK new : new = Relabel(list, s.id, text)
  OBVIOUS
<1>6. new = ReplaceAt(list, i, x)
  BY <1>1, <1>2, <1>5 DEF Relabel
<1>7. IsList(new) /\ ToSet(new) = (ToSet(list) \ {s}) \cup {x}
  BY <1>1, <1>4, <1>6, ReplacedIs
<1>8. ASSUME Valid(list), ~Unlabels(new) PROVE Valid(new)
  <2>1. Fit(ToSet(list))
    BY <1>8, ValidIsFit
  <2>2. x.text # "none"
    BY <1>7, <1>8 DEF Unlabels
  <2>3. FitAlone(s)
    BY <2>1 DEF Fit
  <2>4. FitAlone(x)
    BY <1>4, <2>2, <2>3 DEF FitAlone
  <2>5. \A t \in ToSet(list) \ {s} : Apart(s, t)
    BY <2>1 DEF Fit
  <2>6. \A t \in ToSet(list) \ {s} : Apart(x, t)
    BY <1>4, <2>5 DEF Apart
  <2>7. Fit(ToSet(list) \ {s})
    BY <2>1, FitFewer
  <2>8. Fit(ToSet(new))
    BY <1>7, <2>4, <2>6, <2>7, FitMore
  <2>9. QED
    BY <1>7, <2>8, ValidIsFit
<1>9. QED
  BY <1>5, <1>7, <1>8 DEF KeepsFit

\* Splitting.
LEMMA SplitKeeps ==
  ASSUME NEW list, IsList(list), Len(list) < MaxSegments, NEW s \in ToSet(list), NEW at \in Position
  PROVE  IsList(Split(list, s.id, at)) /\ KeepsFit(list, Split(list, s.id, at))
<1>1. PICK i \in 1 .. Len(list) : i = Find(list, s.id) /\ list[i] = s
  BY FoundIs
<1>2. PICK x : x = [s EXCEPT !.to = at]
  OBVIOUS
<1>3. PICK fresh \in Id : fresh = FreshId(list) /\ \A j \in 1 .. Len(list) : list[j].id # fresh
  BY FreshIs
<1>4. PICK y : y = [s EXCEPT !.id = fresh, !.from = at]
  OBVIOUS
<1>5. s \in Wide /\ at \in Int
  BY ToSetIs, EditorAssumption DEF Position
<1>6. /\ x \in Wide /\ x.id = s.id /\ x.from = s.from /\ x.to = at /\ x.text = s.text
      /\ y \in Wide /\ y.id = fresh /\ y.from = at /\ y.to = s.to /\ y.text = s.text
  BY <1>2, <1>3, <1>4, <1>5 DEF Wide
<1>7. PICK cut : cut = ReplaceAt(list, i, x)
  OBVIOUS
<1>8. /\ IsList(cut) /\ Len(cut) = Len(list) /\ ToSet(cut) = (ToSet(list) \ {s}) \cup {x}
  BY <1>1, <1>6, <1>7, ReplacedIs
<1>9. PICK more : more = InsertAt(cut, i + 1, y)
  OBVIOUS
<1>10. IsList(more) /\ ToSet(more) = ToSet(cut) \cup {y}
  <2>1. \A j \in 1 .. Len(cut) : cut[j].id = list[j].id
    <3>1. list \in Seq(Wide)
      BY DEF IsList
    <3>2. \A j \in 1 .. Len(list) : cut[j] = IF j = i THEN x ELSE list[j]
      BY <1>7, <3>1 DEF ReplaceAt
    <3>3. QED
      BY <1>1, <1>6, <1>8, <3>2
  <2>2. \A j \in 1 .. Len(cut) : cut[j].id # y.id
    BY <1>3, <1>6, <1>8, <2>1
  <2>3. i + 1 \in 1 .. Len(cut) + 1
    <3>1. Len(list) \in Nat
      BY DEF IsList
    <3>2. QED
      BY <1>8, <3>1
  <2>4. y \in Wide
    BY <1>6
  <2>5. QED
    BY <1>8, <1>9, <2>2, <2>3, <2>4, InsertedIs
<1>11. PICK new : new = Split(list, s.id, at)
  OBVIOUS
<1>12. new = IF at - s.from < MinSegment \/ s.to - at < MinSegment THEN list ELSE Sorted(more)
  BY <1>1, <1>2, <1>3, <1>4, <1>7, <1>9, <1>11 DEF Split
<1>13. CASE at - s.from < MinSegment \/ s.to - at < MinSegment
  BY <1>11, <1>12, <1>13 DEF KeepsFit
<1>14. CASE ~(at - s.from < MinSegment \/ s.to - at < MinSegment)
  <2>1. new = Sorted(more)
    BY <1>12, <1>14
  <2>2. IsList(new) /\ ToSet(new) = ToSet(cut) \cup {y}
    BY <1>10, <2>1, SortedIs
  <2>3. ASSUME Valid(list) PROVE Valid(new)
    <3>1. Fit(ToSet(list))
      BY <2>3, ValidIsFit
    <3>2. FitAlone(s)
      BY <3>1 DEF Fit
    <3>3. s.from \in Int /\ s.to \in Int
      BY <1>5, WideIs
    <3>4. FitAlone(x) /\ FitAlone(y)
      BY <1>5, <1>6, <1>14, <3>2, <3>3, EditorAssumption DEF FitAlone, Position
    <3>5. ASSUME NEW t \in ToSet(list) \ {s} PROVE Apart(x, t) /\ Apart(y, t)
      <4>1. Apart(s, t)
        BY <3>1 DEF Fit
      <4>2. t.from \in Int /\ t.to \in Int
        BY ToSetIs, WideIs
      <4>3. s.from <= at /\ at <= s.to
        BY <1>5, <1>14, <3>3, EditorAssumption
      <4>4. QED
        BY <1>5, <1>6, <3>3, <4>1, <4>2, <4>3 DEF Apart
    <3>6. Fit(ToSet(list) \ {s})
      BY <3>1, FitFewer
    <3>7. Fit(ToSet(cut))
      BY <1>8, <3>4, <3>5, <3>6, FitMore
    <3>8. Apart(y, x)
      BY <1>5, <1>6 DEF Apart
    <3>9. \A t \in ToSet(cut) : Apart(y, t)
      BY <1>8, <3>5, <3>8
    <3>10. Fit(ToSet(new))
      BY <2>2, <3>4, <3>7, <3>9, FitMore
    <3>11. QED
      BY <2>2, <3>10, ValidIsFit
  <2>4. QED
    BY <1>11, <2>2, <2>3 DEF KeepsFit
<1>15. QED
  BY <1>13, <1>14

\* Merging: what lies between the two is kept, and then lies inside the one.
LEMMA MergeKeeps ==
  ASSUME NEW list, IsList(list), NEW s \in ToSet(list), NEW t \in ToSet(list), s # t
  PROVE  IsList(Merge(list, s.id, t.id)) /\ KeepsFit(list, Merge(list, s.id, t.id))
<1>1. list[Find(list, s.id)] = s /\ list[Find(list, t.id)] = t
  BY FoundIs
<1>2. PICK first, last : /\ first = (IF s.from <= t.from THEN s ELSE t)
                         /\ last = (IF s.from <= t.from THEN t ELSE s)
  OBVIOUS
<1>3. s \in Wide /\ t \in Wide /\ s.id # t.id
  BY ToSetIs
<1>4. /\ s.from \in Int /\ t.from \in Int
      /\ first \in ToSet(list) /\ last \in ToSet(list) /\ first # last
      /\ {first, last} = {s, t}
  BY <1>2, <1>3, WideIs
<1>5. first.from <= last.from
  BY <1>2, <1>4
<1>6. PICK m : m = [first EXCEPT !.to = last.to]
  OBVIOUS
<1>7. /\ first \in Wide /\ last \in Wide /\ first.from \in Int /\ first.to \in Int
      /\ last.from \in Int /\ last.to \in Int
  BY <1>4, ToSetIs, WideIs
<1>8. /\ m \in Wide /\ m.id = first.id /\ m.from = first.from /\ m.to = last.to
      /\ m.text = first.text
  BY <1>6, <1>7 DEF Wide
<1>9. PICK rest : rest = Without(Without(list, s.id), t.id)
  OBVIOUS
<1>10. IsList(rest) /\ ToSet(rest) = ToSet(list) \ {s, t}
  <2>1. PICK less : less = Without(list, s.id)
    OBVIOUS
  <2>2. IsList(less) /\ ToSet(less) = ToSet(list) \ {s}
    BY <2>1, WithoutIs
  <2>3. t \in ToSet(less)
    BY <2>2
  <2>4. IsList(Without(less, t.id)) /\ ToSet(Without(less, t.id)) = ToSet(less) \ {t}
    BY <2>2, <2>3, WithoutIs
  <2>5. QED
    BY <1>9, <2>1, <2>2, <2>4
<1>11. \A u \in ToSet(rest) : u \in ToSet(list) /\ u # first /\ u # last /\ u.id # m.id
  <2>1. \A u \in ToSet(rest) : u \in ToSet(list) /\ u # first /\ u # last
    BY <1>4, <1>10
  <2>2. \A u \in ToSet(list) : u.id = first.id => u = first
    BY <1>4, ToSetIs
  <2>3. QED
    BY <1>8, <2>1, <2>2
<1>12. IsList(Append(rest, m)) /\ ToSet(Append(rest, m)) = ToSet(rest) \cup {m}
  <2>1. \A j \in 1 .. Len(rest) : rest[j].id # m.id
    BY <1>10, <1>11, ToSetIs
  <2>2. QED
    BY <1>8, <1>10, <2>1, AppendedIs
<1>13. PICK new : new = Merge(list, s.id, t.id)
  OBVIOUS
<1>14. new = Sorted(Append(rest, m))
  BY <1>1, <1>2, <1>6, <1>9, <1>13 DEF Merge
<1>15. IsList(new) /\ ToSet(new) = ToSet(rest) \cup {m}
  BY <1>12, <1>14, SortedIs
<1>16. ASSUME Valid(list), ~Swallows(new) PROVE Valid(new)
  <2>1. Fit(ToSet(list))
    BY <1>16, ValidIsFit
  <2>2. FitAlone(first) /\ FitAlone(last) /\ Apart(first, last)
    BY <1>4, <2>1 DEF Fit
  <2>3. first.to - first.from >= 1 /\ last.to - last.from >= 1
    BY <1>7, <2>2, EditorAssumption DEF FitAlone
  <2>4. first.to <= last.from
    BY <1>5, <1>7, <2>2, <2>3 DEF Apart
  <2>5. FitAlone(m)
    BY <1>5, <1>7, <1>8, <2>2, EditorAssumption DEF FitAlone
  <2>6. ASSUME NEW u \in ToSet(rest) PROVE Apart(m, u)
    <3>1. u \in ToSet(list) /\ u # first /\ u # last /\ u # m
      BY <1>11
    <3>2. Apart(u, first) /\ Apart(u, last) /\ FitAlone(u)
      BY <1>4, <2>1, <3>1 DEF Fit
    <3>3. u.from \in Int /\ u.to \in Int
      BY <3>1, ToSetIs, WideIs
    <3>4. CASE u.to <= first.from
      BY <1>8, <3>4 DEF Apart
    <3>5. CASE last.to <= u.from
      BY <1>8, <3>5 DEF Apart
    <3>6. CASE first.to <= u.from /\ u.to <= last.from
      <4>1. m.from <= u.from /\ u.to <= m.to
        BY <1>7, <1>8, <2>3, <3>3, <3>6
      <4>2. m \in ToSet(new) /\ u \in ToSet(new) /\ m # u
        BY <1>15, <3>1
      <4>3. QED
        BY <1>16, <4>1, <4>2 DEF Swallows
    <3>7. QED
      BY <3>2, <3>4, <3>5, <3>6 DEF Apart
  <2>7. Fit(ToSet(rest))
    BY <1>10, <2>1, FitFewer
  <2>8. Fit(ToSet(new))
    BY <1>15, <2>5, <2>6, <2>7, FitMore
  <2>9. QED
    BY <1>15, <2>8, ValidIsFit
<1>17. QED
  BY <1>13, <1>15, <1>16 DEF KeepsFit

\* One segment of a sorted list gets other ends.
LEMMA ResizedKeeps ==
  ASSUME NEW list, IsList(list), NEW i \in 1 .. Len(list), NEW x \in Wide,
         x.id = Sorted(list)[i].id,
         Valid(list) => /\ FitAlone(x)
                        /\ \A j \in 1 .. Len(list) : j # i => Apart(x, Sorted(list)[j])
  PROVE  /\ IsList(ReplaceAt(Sorted(list), i, x))
         /\ KeepsFit(list, ReplaceAt(Sorted(list), i, x))
<1>1. PICK ordered : ordered = Sorted(list)
  OBVIOUS
<1>2. IsList(ordered) /\ Len(ordered) = Len(list) /\ ToSet(ordered) = ToSet(list)
  BY <1>1, SortedIs
<1>3. PICK new : new = ReplaceAt(ordered, i, x)
  OBVIOUS
<1>4. IsList(new) /\ ToSet(new) = (ToSet(ordered) \ {ordered[i]}) \cup {x}
  BY <1>1, <1>2, <1>3, ReplacedIs
<1>5. ASSUME Valid(list) PROVE Valid(new)
  <2>1. Fit(ToSet(ordered) \ {ordered[i]})
    <3>1. Fit(ToSet(ordered))
      BY <1>2, <1>5, ValidIsFit
    <3>2. QED
      BY <3>1, FitFewer
  <2>2. ASSUME NEW t \in ToSet(ordered) \ {ordered[i]} PROVE Apart(x, t)
    <3>1. PICK j \in 1 .. Len(ordered) : t = ordered[j]
      BY <1>2, ToSetIs
    <3>2. j # i
      BY <3>1
    <3>3. QED
      BY <1>1, <1>2, <1>5, <3>1, <3>2
  <2>3. FitAlone(x)
    BY <1>5
  <2>4. Fit(ToSet(new))
    BY <1>4, <2>1, <2>2, <2>3, FitMore
  <2>5. QED
    BY <1>4, <2>4, ValidIsFit
<1>6. QED
  BY <1>1, <1>3, <1>4, <1>5 DEF KeepsFit

LEMMA ResizeStartKeeps ==
  ASSUME NEW list, IsList(list), NEW s \in ToSet(list), NEW at \in Position
  PROVE  IsList(ResizeStart(list, s.id, at)) /\ KeepsFit(list, ResizeStart(list, s.id, at))
<1>1. PICK ordered : ordered = Sorted(list)
  OBVIOUS
<1>2. PICK n \in Nat : n = Len(list)
  BY DEF IsList
<1>3. /\ IsList(ordered) /\ ordered \in Seq(Wide) /\ Len(ordered) = n /\ s \in ToSet(ordered)
  BY <1>1, <1>2, SortedIs DEF IsList
<1>4. PICK i \in 1 .. n : i = Find(ordered, s.id) /\ ordered[i] = s
  BY <1>3, FoundIs
<1>5. s \in Wide /\ s.from \in Int /\ s.to \in Int
  BY ToSetIs, WideIs
<1>6. PICK low, high : /\ low = (IF i = 1 THEN 0 ELSE ordered[i - 1].to)
                       /\ high = s.to - MinSegment
  OBVIOUS
<1>7. low \in Int /\ high \in Int /\ at \in Int /\ at >= 0
  <2>1. i # 1 => i - 1 \in 1 .. n
    BY <1>4
  <2>2. i # 1 => ordered[i - 1].to \in Int
    BY <1>3, <2>1, ItemIs
  <2>3. QED
    BY <1>5, <1>6, <2>2, EditorAssumption DEF Position
<1>8. PICK from \in Int : /\ from = AtMost(AtLeast(at, low), high)
                          /\ from <= high /\ (low <= high => low <= from)
                          /\ (0 <= high => 0 <= from)
  BY <1>7 DEF AtMost, AtLeast
<1>9. PICK x : x = [s EXCEPT !.from = from]
  OBVIOUS
<1>10. /\ x \in Wide /\ x.id = s.id /\ x.from = from /\ x.to = s.to /\ x.text = s.text
  BY <1>5, <1>8, <1>9 DEF Wide
<1>11. ResizeStart(list, s.id, at) = ReplaceAt(ordered, i, x)
  BY <1>1, <1>4, <1>6, <1>8, <1>9 DEF ResizeStart
<1>12. ASSUME Valid(list)
       PROVE  FitAlone(x) /\ \A j \in 1 .. n : j # i => Apart(x, ordered[j])
  <2>1. FitAlone(s)
    BY <1>12, ValidIsFit DEF Fit
  <2>2. s.from <= high /\ 0 <= high
    BY <1>5, <1>6, <2>1, EditorAssumption DEF FitAlone
  <2>3. \A j \in 1 .. n : /\ j < i => ordered[j].to <= s.from
                          /\ i < j => s.to <= ordered[j].from
    BY <1>1, <1>2, <1>4, <1>12, EndsBefore
  <2>4. low <= s.from
    <3>1. CASE i = 1
      BY <1>6, <2>1, <3>1 DEF FitAlone
    <3>2. CASE i # 1
      <4>1. i - 1 \in 1 .. n /\ i - 1 < i
        BY <1>4, <3>2
      <4>2. QED
        BY <1>6, <2>3, <3>2, <4>1
    <3>3. QED
      BY <3>1, <3>2
  <2>5. low <= from /\ 0 <= from
    BY <1>5, <1>7, <1>8, <2>2, <2>4
  <2>6. FitAlone(x)
    BY <1>5, <1>6, <1>8, <1>10, <2>1, <2>5, EditorAssumption DEF FitAlone
  <2>7. ASSUME NEW j \in 1 .. n, j # i PROVE Apart(x, ordered[j])
    <3>1. CASE i < j
      BY <1>10, <2>3, <3>1 DEF Apart
    <3>2. CASE j < i
      <4>1. i # 1 /\ i - 1 \in 1 .. n /\ j <= i - 1
        BY <1>4, <3>2
      <4>2. ordered[j].to \in Int /\ ordered[i - 1].from \in Int /\ ordered[i - 1].to \in Int
        BY <1>3, <4>1, ItemIs
      <4>3. ordered[j].to <= low
        <5>1. CASE j = i - 1
          BY <1>6, <1>7, <4>1, <4>2, <5>1
        <5>2. CASE j < i - 1
          <6>1. ordered[j].to <= ordered[i - 1].from
            BY <1>1, <1>2, <1>12, <4>1, <5>2, EndsBefore
          <6>2. FitAlone(ordered[i - 1])
            <7>1. ordered[i - 1] \in ToSet(list)
              <8>1. ordered[i - 1] \in ToSet(ordered)
                BY <1>3, <4>1, ToSetIs
              <8>2. QED
                BY <1>1, <8>1, SortedIs
            <7>2. QED
              BY <1>12, <7>1, ValidIsFit DEF Fit
          <6>3. ordered[i - 1].from <= ordered[i - 1].to
            BY <4>2, <6>2, EditorAssumption DEF FitAlone
          <6>4. QED
            BY <1>6, <4>1, <4>2, <6>1, <6>3
        <5>3. QED
          BY <1>4, <4>1, <5>1, <5>2
      <4>4. QED
        BY <1>7, <1>10, <2>5, <4>2, <4>3 DEF Apart
    <3>3. QED
      BY <1>4, <2>7, <3>1, <3>2
  <2>8. QED
    BY <2>6, <2>7
<1>13. /\ IsList(ReplaceAt(Sorted(list), i, x))
       /\ KeepsFit(list, ReplaceAt(Sorted(list), i, x))
  <2>1. x.id = Sorted(list)[i].id
    BY <1>1, <1>4, <1>10
  <2>2. Valid(list) => /\ FitAlone(x)
                       /\ \A j \in 1 .. Len(list) : j # i => Apart(x, Sorted(list)[j])
    BY <1>1, <1>2, <1>12
  <2>3. x \in Wide /\ i \in 1 .. Len(list)
    BY <1>2, <1>10
  <2>4. QED
    BY <2>1, <2>2, <2>3, ResizedKeeps
<1>14. QED
  BY <1>1, <1>11, <1>13

LEMMA ResizeEndKeeps ==
  ASSUME NEW list, IsList(list), NEW s \in ToSet(list), NEW at \in Position
  PROVE  IsList(ResizeEnd(list, s.id, at)) /\ KeepsFit(list, ResizeEnd(list, s.id, at))
<1>1. PICK ordered : ordered = Sorted(list)
  OBVIOUS
<1>2. PICK n \in Nat : n = Len(list)
  BY DEF IsList
<1>3. /\ IsList(ordered) /\ ordered \in Seq(Wide) /\ Len(ordered) = n /\ s \in ToSet(ordered)
  BY <1>1, <1>2, SortedIs DEF IsList
<1>4. PICK i \in 1 .. n : i = Find(ordered, s.id) /\ ordered[i] = s
  BY <1>3, FoundIs
<1>5. s \in Wide /\ s.from \in Int /\ s.to \in Int
  BY ToSetIs, WideIs
<1>6. PICK low, high : /\ low = s.from + MinSegment
                       /\ high = (IF i = n THEN Duration ELSE ordered[i + 1].from)
  OBVIOUS
<1>7. low \in Int /\ high \in Int /\ at \in Int
  <2>1. i # n => i + 1 \in 1 .. n
    BY <1>2, <1>4
  <2>2. i # n => ordered[i + 1].from \in Int
    BY <1>3, <2>1, ItemIs
  <2>3. QED
    BY <1>5, <1>6, <2>2, EditorAssumption DEF Position
<1>8. PICK to \in Int : /\ to = AtLeast(AtMost(at, high), low)
                        /\ low <= to /\ (low <= high => to <= high)
  BY <1>7 DEF AtMost, AtLeast
<1>9. PICK x : x = [s EXCEPT !.to = to]
  OBVIOUS
<1>10. /\ x \in Wide /\ x.id = s.id /\ x.from = s.from /\ x.to = to /\ x.text = s.text
  BY <1>5, <1>8, <1>9 DEF Wide
<1>11. ResizeEnd(list, s.id, at) = ReplaceAt(ordered, i, x)
  BY <1>1, <1>2, <1>4, <1>6, <1>8, <1>9 DEF ResizeEnd
<1>12. ASSUME Valid(list)
       PROVE  FitAlone(x) /\ \A j \in 1 .. n : j # i => Apart(x, ordered[j])
  <2>1. \A j \in 1 .. n : FitAlone(ordered[j])
    <3>1. \A j \in 1 .. n : ordered[j] \in ToSet(ordered)
      BY <1>3, ToSetIs
    <3>2. ToSet(ordered) = ToSet(list)
      BY <1>1, SortedIs
    <3>3. QED
      BY <1>12, <3>1, <3>2, ValidIsFit DEF Fit
  <2>2. FitAlone(s)
    BY <1>4, <2>1
  <2>3. \A j \in 1 .. n : /\ j < i => ordered[j].to <= s.from
                          /\ i < j => s.to <= ordered[j].from
    BY <1>1, <1>2, <1>4, <1>12, EndsBefore
  <2>4. \A j \in 1 .. n : i < j => high <= ordered[j].from
    <3>1. ASSUME NEW j \in 1 .. n, i < j PROVE high <= ordered[j].from
      <4>1. i # n /\ i + 1 \in 1 .. n /\ (j = i + 1 \/ i + 1 < j)
        BY <1>2, <1>4, <3>1
      <4>2. ordered[j].from \in Int /\ ordered[i + 1].from \in Int
        BY <1>3, <4>1, ItemIs
      <4>3. i + 1 < j => ordered[i + 1].from <= ordered[j].from
        BY <1>1, <1>2, <4>1, SortedIs
      <4>4. QED
        BY <1>6, <4>1, <4>2, <4>3
    <3>2. QED
      BY <3>1
  <2>5. s.to <= high /\ high <= Duration
    <3>1. CASE i = n
      BY <1>6, <2>2, <3>1, EditorAssumption DEF FitAlone
    <3>2. CASE i # n
      <4>1. i + 1 \in 1 .. n /\ i < i + 1
        BY <1>2, <1>4, <3>2
      <4>2. ordered[i + 1].from \in Int /\ ordered[i + 1].to \in Int
        BY <1>3, <4>1, ItemIs
      <4>3. FitAlone(ordered[i + 1]) /\ s.to <= ordered[i + 1].from
        BY <2>1, <2>3, <4>1
      <4>4. QED
        BY <1>6, <3>2, <4>2, <4>3, EditorAssumption DEF FitAlone
    <3>3. QED
      BY <3>1, <3>2
  <2>6. low <= high
    BY <1>5, <1>6, <1>7, <2>2, <2>5, EditorAssumption DEF FitAlone
  <2>7. FitAlone(x)
    BY <1>5, <1>6, <1>7, <1>8, <1>10, <2>2, <2>5, <2>6, EditorAssumption DEF FitAlone
  <2>8. ASSUME NEW j \in 1 .. n, j # i PROVE Apart(x, ordered[j])
    <3>1. CASE j < i
      BY <1>10, <2>3, <3>1 DEF Apart
    <3>2. CASE i < j
      <4>1. ordered[j].from \in Int
        BY <1>3, ItemIs
      <4>2. high <= ordered[j].from
        BY <2>4, <3>2
      <4>3. QED
        BY <1>7, <1>8, <1>10, <2>6, <4>1, <4>2 DEF Apart
    <3>3. QED
      BY <1>4, <2>8, <3>1, <3>2
  <2>9. QED
    BY <2>7, <2>8
<1>13. /\ IsList(ReplaceAt(Sorted(list), i, x))
       /\ KeepsFit(list, ReplaceAt(Sorted(list), i, x))
  <2>1. x.id = Sorted(list)[i].id
    BY <1>1, <1>4, <1>10
  <2>2. Valid(list) => /\ FitAlone(x)
                       /\ \A j \in 1 .. Len(list) : j # i => Apart(x, Sorted(list)[j])
    BY <1>1, <1>2, <1>12
  <2>3. x \in Wide /\ i \in 1 .. Len(list)
    BY <1>2, <1>10
  <2>4. QED
    BY <2>1, <2>2, <2>3, ResizedKeeps
<1>14. QED
  BY <1>1, <1>11, <1>13
------------------------------------------------------------------------------
(***************************************************************************)
(* The history, and the Platform's list.                                   *)
(***************************************************************************)
\* What Redo brings back was once the result of an edit of what is shown: the invariant says
\* of every two neighbours of the history what EditsKeepFit says of a step.
EditorInv ==
    /\ loaded \in BOOLEAN
    /\ IsList(stored)
    /\ history \in Seq(Seq(Wide)) /\ Len(history) <= MaxHistory
    /\ \A k \in 1 .. Len(history) : IsList(history[k])
    /\ cursor \in 1 .. Len(history)
    /\ \A k \in 1 .. Len(history) - 1 : KeepsFit(history[k], history[k + 1])

LEMMA ListMade ==
  ASSUME NEW n \in 0 .. MaxSegments, NEW from, NEW to, NEW list,
         list = [i \in 1 .. n |-> [id |-> i, from |-> from[i], to |-> to[i], text |-> "short"]],
         \A i \in 1 .. n : from[i] \in Int /\ to[i] \in Int
  PROVE  IsList(list)
<1>1. n \in Nat /\ \A i \in 1 .. n : i \in Id
  BY EditorAssumption DEF Id
<1>2. \A i \in 1 .. n : list[i] \in Wide /\ list[i].id = i
  BY <1>1 DEF Wide, Text
<1>3. list \in [1 .. n -> Wide]
  BY <1>2
<1>4. list \in Seq(Wide) /\ Len(list) = n
  BY <1>1, <1>3
<1>5. QED
  BY <1>2, <1>4 DEF IsList

LEMMA FirstLists ==
  ASSUME NEW list \in Preannotated \cup Returned
  PROVE  IsList(list)
<1>1. CASE list \in Preannotated
  <2>1. PICK n \in 0 .. MaxSegments :
          \E cut \in [1 .. n + 1 -> Milliseconds(0, Duration + OperatorMin)] :
            list = [i \in 1 .. n |-> [id |-> i, from |-> cut[i], to |-> cut[i + 1],
                                      text |-> "short"]]
    <3>1. PICK m \in 0 .. MaxSegments :
            list \in {[i \in 1 .. m |-> [id |-> i, from |-> cut[i], to |-> cut[i + 1],
                                         text |-> "short"]] :
                      cut \in {c \in [1 .. m + 1 -> Milliseconds(0, Duration + OperatorMin)] :
                                 \A k \in 1 .. m : /\ c[k] <= Duration
                                                  /\ c[k + 1] - c[k] >= OperatorMin}}
      BY <1>1, Zenon DEF Preannotated
    <3>2. \E cut \in [1 .. m + 1 -> Milliseconds(0, Duration + OperatorMin)] :
            list = [i \in 1 .. m |-> [id |-> i, from |-> cut[i], to |-> cut[i + 1],
                                      text |-> "short"]]
      BY <3>1, Zenon
    <3>3. QED
      BY <3>2, Zenon
  <2>2. PICK cut \in [1 .. n + 1 -> Milliseconds(0, Duration + OperatorMin)] :
          list = [i \in 1 .. n |-> [id |-> i, from |-> cut[i], to |-> cut[i + 1],
                                    text |-> "short"]]
    BY <2>1
  <2>3. PICK from, to : from = [i \in 1 .. n |-> cut[i]] /\ to = [i \in 1 .. n |-> cut[i + 1]]
    OBVIOUS
  <2>4. ASSUME NEW i \in 1 .. n PROVE from[i] \in Int /\ to[i] \in Int
    <3>1. i \in 1 .. n + 1 /\ i + 1 \in 1 .. n + 1
      BY EditorAssumption
    <3>2. cut[i] \in Milliseconds(0, Duration + OperatorMin) /\ cut[i + 1] \in Milliseconds(0, Duration + OperatorMin)
      BY <3>1
    <3>3. QED
      BY <2>3, <3>2 DEF Milliseconds
  <2>5. list = [i \in 1 .. n |-> [id |-> i, from |-> from[i], to |-> to[i], text |-> "short"]]
    BY <2>2, <2>3
  <2>6. QED
    BY <2>4, <2>5, ListMade
<1>2. CASE list \in Returned
  <2>1. PICK n \in 0 .. MaxSegments :
          \E cut \in [1 .. 2 * n -> Milliseconds(0, Duration)] :
            list = [i \in 1 .. n |-> [id |-> i, from |-> cut[2 * i - 1], to |-> cut[2 * i],
                                      text |-> "short"]]
    <3>1. PICK m \in 0 .. MaxSegments :
            list \in {[i \in 1 .. m |-> [id |-> i, from |-> cut[2 * i - 1], to |-> cut[2 * i],
                                         text |-> "short"]] :
                      cut \in {c \in [1 .. 2 * m -> Milliseconds(0, Duration)] :
                                 \A k \in 1 .. 2 * m - 1 :
                                    c[k + 1] - c[k] >= IF k % 2 = 1 THEN MinSegment ELSE 0}}
      BY <1>2, Zenon DEF Returned
    <3>2. \E cut \in [1 .. 2 * m -> Milliseconds(0, Duration)] :
            list = [i \in 1 .. m |-> [id |-> i, from |-> cut[2 * i - 1], to |-> cut[2 * i],
                                      text |-> "short"]]
      BY <3>1, Zenon
    <3>3. QED
      BY <3>2, Zenon
  <2>2. PICK cut \in [1 .. 2 * n -> Milliseconds(0, Duration)] :
          list = [i \in 1 .. n |-> [id |-> i, from |-> cut[2 * i - 1], to |-> cut[2 * i],
                                    text |-> "short"]]
    BY <2>1
  <2>3. PICK from, to : /\ from = [i \in 1 .. n |-> cut[2 * i - 1]]
                        /\ to = [i \in 1 .. n |-> cut[2 * i]]
    OBVIOUS
  <2>4. ASSUME NEW i \in 1 .. n PROVE from[i] \in Int /\ to[i] \in Int
    <3>1. 2 * i - 1 \in 1 .. 2 * n /\ 2 * i \in 1 .. 2 * n
      BY EditorAssumption
    <3>2. cut[2 * i - 1] \in Milliseconds(0, Duration) /\ cut[2 * i] \in Milliseconds(0, Duration)
      BY <3>1
    <3>3. QED
      BY <2>3, <3>2, EditorAssumption DEF Milliseconds
  <2>5. list = [i \in 1 .. n |-> [id |-> i, from |-> from[i], to |-> to[i], text |-> "short"]]
    BY <2>2, <2>3
  <2>6. QED
    BY <2>4, <2>5, ListMade
<1>3. QED
  BY <1>1, <1>2

LEMMA EditorInitInv == HookInit \/ PageInit => EditorInv
<1>1. ASSUME NEW list, IsList(list), history = <<list>>, cursor = 1, loaded \in BOOLEAN,
             IsList(stored)
      PROVE  EditorInv
  <2>1. list \in Seq(Wide)
    BY <1>1 DEF IsList
  <2>2. history \in Seq(Seq(Wide)) /\ Len(history) = 1 /\ history[1] = list
    BY <1>1, <2>1
  <2>3. \A k \in 1 .. Len(history) : IsList(history[k])
    BY <1>1, <2>2
  <2>4. cursor \in 1 .. Len(history) /\ Len(history) <= MaxHistory
    BY <1>1, <2>2, EditorAssumption
  <2>5. \A k \in 1 .. Len(history) - 1 : KeepsFit(history[k], history[k + 1])
    BY <2>2
  <2>6. QED
    BY <1>1, <2>2, <2>3, <2>4, <2>5 DEF EditorInv
<1>2. IsList(<<>>)
  BY DEF IsList
<1>3. ASSUME HookInit PROVE EditorInv
  <2>1. IsList(stored)
    BY <1>3, FirstLists DEF HookInit
  <2>2. history = <<stored>> /\ cursor = 1 /\ loaded \in BOOLEAN
    BY <1>3 DEF HookInit
  <2>3. QED
    BY <1>1, <2>1, <2>2
<1>4. ASSUME PageInit PROVE EditorInv
  <2>1. IsList(stored)
    BY <1>4, FirstLists DEF PageInit
  <2>2. history = << <<>> >> /\ cursor = 1 /\ loaded \in BOOLEAN
    BY <1>4 DEF PageInit
  <2>3. QED
    BY <1>1, <1>2, <2>1, <2>2
<1>5. QED
  BY <1>3, <1>4

LEMMA ShownIsList ==
  ASSUME EditorInv
  PROVE  IsList(Segments) /\ Segments = history[cursor]
BY DEF EditorInv, Segments

\* A new list is put behind the one it was made from.
LEMMA CommitInv ==
  ASSUME EditorInv, NEW new, IsList(new), KeepsFit(Segments, new), Commit(new)
  PROVE  /\ EditorInv'
         /\ history'[cursor'] = new /\ stored' = stored
<1>1. PICK n \in Nat : n = cursor /\ n \in 1 .. Len(history)
  BY DEF EditorInv
<1>2. PICK all \in Seq(Seq(Wide)) : all = history
  BY DEF EditorInv
<1>3. PICK kept : kept = SubSeq(all, 1, n)
  OBVIOUS
<1>4. kept \in Seq(Seq(Wide)) /\ Len(kept) = n /\ \A k \in 1 .. n : kept[k] = all[k]
  BY <1>1, <1>2, <1>3, SubSeqProperties
<1>5. new \in Seq(Wide)
  BY DEF IsList
<1>6. PICK next : next = Append(kept, new)
  OBVIOUS
<1>7. next \in Seq(Seq(Wide)) /\ Len(next) = n + 1 /\ (\A k \in 1 .. n : next[k] = all[k])
      /\ next[n + 1] = new
  <2>1. /\ next \in Seq(Seq(Wide)) /\ Len(next) = Len(kept) + 1
        /\ \A k \in 1 .. Len(kept) : next[k] = kept[k]
        /\ next[Len(kept) + 1] = new
    BY <1>4, <1>5, <1>6, AppendProperties
  <2>2. QED
    BY <1>4, <2>1
<1>8. history' = next /\ cursor' = n + 1 /\ n < MaxHistory /\ stored' = stored /\ loaded' = loaded
  BY <1>1, <1>2, <1>3, <1>6 DEF Commit
<1>9. \A k \in 1 .. n : IsList(all[k])
  BY <1>1, <1>2 DEF EditorInv
<1>10. \A k \in 1 .. n + 1 : IsList(next[k])
  <2>1. \A k \in 1 .. n + 1 : k \in 1 .. n \/ k = n + 1
    BY <1>1
  <2>2. QED
    BY <1>7, <1>9, <2>1
<1>11. \A k \in 1 .. n : KeepsFit(next[k], next[k + 1])
  <2>1. ASSUME NEW k \in 1 .. n PROVE KeepsFit(next[k], next[k + 1])
    <3>1. CASE k = n
      <4>1. Segments = next[k]
        BY <1>1, <1>2, <1>7, <3>1 DEF Segments
      <4>2. next[k + 1] = new
        BY <1>7, <3>1
      <4>3. QED
        BY <4>1, <4>2
    <3>2. CASE k # n
      <4>1. k + 1 \in 1 .. n /\ k \in 1 .. Len(all) - 1
        BY <1>1, <1>2, <3>2
      <4>2. KeepsFit(all[k], all[k + 1])
        BY <1>2, <4>1 DEF EditorInv
      <4>3. QED
        BY <1>7, <4>1, <4>2
    <3>3. QED
      BY <3>1, <3>2
  <2>2. QED
    BY <2>1
<1>12. EditorInv'
  <2>1. loaded' \in BOOLEAN /\ IsList(stored)' /\ history' \in Seq(Seq(Wide))
    BY <1>7, <1>8 DEF EditorInv, IsList
  <2>2. Len(history') = n + 1 /\ n + 1 <= MaxHistory
    BY <1>1, <1>7, <1>8, EditorAssumption
  <2>3. \A k \in 1 .. Len(history') : IsList(history'[k])
    BY <1>8, <1>10, <2>2
  <2>4. cursor' \in 1 .. Len(history')
    BY <1>1, <1>8, <2>2
  <2>5. Len(history') - 1 = n
    BY <1>1, <2>2
  <2>6. \A k \in 1 .. Len(history') - 1 : KeepsFit(history'[k], history'[k + 1])
    BY <1>8, <1>11, <2>5
  <2>7. QED
    BY <2>1, <2>2, <2>3, <2>4, <2>6 DEF EditorInv, IsList, KeepsFit, Swallows, Unlabels
<1>13. QED
  BY <1>1, <1>7, <1>8, <1>12

\* Every edit commits a list of which EditsKeepFit is true.
LEMMA EditIs ==
  ASSUME EditorInv, Edit
  PROVE  \E new : IsList(new) /\ KeepsFit(Segments, new) /\ Commit(new)
<1>1. IsList(Segments)
  BY ShownIsList
<1>2. PICK s \in ToSet(Segments) :
         \/ \E at \in Position :
              \/ Len(Segments) < MaxSegments /\ Commit(Split(Segments, s.id, at))
              \/ Commit(ResizeStart(Segments, s.id, at))
              \/ Commit(ResizeEnd(Segments, s.id, at))
         \/ \E t \in ToSet(Segments) : t # s /\ Commit(Merge(Segments, s.id, t.id))
         \/ \E text \in Text : Commit(Relabel(Segments, s.id, text))
         \/ Commit(Without(Segments, s.id))
  BY DEF Edit
<1>3. ASSUME NEW at \in Position, Len(Segments) < MaxSegments, Commit(Split(Segments, s.id, at))
      PROVE  \E new : IsList(new) /\ KeepsFit(Segments, new) /\ Commit(new)
  BY <1>1, <1>3, SplitKeeps
<1>4. ASSUME NEW at \in Position, Commit(ResizeStart(Segments, s.id, at))
      PROVE  \E new : IsList(new) /\ KeepsFit(Segments, new) /\ Commit(new)
  BY <1>1, <1>4, ResizeStartKeeps
<1>5. ASSUME NEW at \in Position, Commit(ResizeEnd(Segments, s.id, at))
      PROVE  \E new : IsList(new) /\ KeepsFit(Segments, new) /\ Commit(new)
  BY <1>1, <1>5, ResizeEndKeeps
<1>6. ASSUME NEW t \in ToSet(Segments), t # s, Commit(Merge(Segments, s.id, t.id))
      PROVE  \E new : IsList(new) /\ KeepsFit(Segments, new) /\ Commit(new)
  BY <1>1, <1>6, MergeKeeps
<1>7. ASSUME NEW text \in Text, Commit(Relabel(Segments, s.id, text))
      PROVE  \E new : IsList(new) /\ KeepsFit(Segments, new) /\ Commit(new)
  BY <1>1, <1>7, RelabelKeeps
<1>8. ASSUME Commit(Without(Segments, s.id))
      PROVE  \E new : IsList(new) /\ KeepsFit(Segments, new) /\ Commit(new)
  BY <1>1, <1>8, WithoutKeeps
<1>9. QED
  BY <1>2, <1>3, <1>4, <1>5, <1>6, <1>7, <1>8

\* The first half of EditsKeepFit, of one step.
EditFollowed ==
    Valid(Segments) /\ ~Valid(Segments)' /\ Len(history') = cursor' =>
            (\E s \in ToSet(Segments') : s.text = "none") \/ Swallows(Segments')

\* Its second half, which holds of every state.
ShownAccepted == Valid(Segments) => Accepted(Segments) \/ Unlooked(Segments)

LEMMA EditorStep == EditorInv /\ [EditorNext]_editorVars => EditorInv' /\ EditFollowed
<1>1. ASSUME EditorInv, Edit PROVE EditorInv' /\ EditFollowed
  <2>1. PICK new : IsList(new) /\ KeepsFit(Segments, new) /\ Commit(new)
    BY <1>1, EditIs
  <2>2. EditorInv' /\ history'[cursor'] = new /\ stored' = stored
    BY <1>1, <2>1, CommitInv
  <2>3. Segments' = new
    BY <2>2 DEF Segments
  <2>4. Valid(Segments)' <=> Valid(new)
    BY <2>3
  <2>5. QED
    BY <2>1, <2>2, <2>3, <2>4 DEF EditFollowed, KeepsFit, Unlabels
<1>2. ASSUME EditorInv, UNCHANGED <<stored, loaded, history>>, cursor' \in 1 .. Len(history)
      PROVE  EditorInv'
  <2>1. /\ loaded' \in BOOLEAN /\ IsList(stored')
        /\ history' \in Seq(Seq(Wide)) /\ Len(history') <= MaxHistory
        /\ \A k \in 1 .. Len(history') : IsList(history'[k])
        /\ cursor' \in 1 .. Len(history')
        /\ \A k \in 1 .. Len(history') - 1 : KeepsFit(history'[k], history'[k + 1])
    BY <1>2 DEF EditorInv
  <2>2. QED
    BY <2>1 DEF EditorInv
<1>3. ASSUME EditorInv, Undo PROVE EditorInv' /\ EditFollowed
  <2>1. /\ UNCHANGED <<stored, loaded, history>> /\ cursor' = cursor - 1
        /\ cursor > 1 /\ cursor \in 1 .. Len(history) /\ Len(history) \in Nat
    BY <1>3 DEF Undo, EditorInv
  <2>2. cursor' \in 1 .. Len(history) /\ Len(history') # cursor' /\ stored' = stored
    BY <2>1
  <2>3. EditorInv'
    BY <1>2, <1>3, <2>1, <2>2
  <2>4. QED
    BY <2>2, <2>3 DEF EditFollowed
<1>4. ASSUME EditorInv, Redo PROVE EditorInv' /\ EditFollowed
  <2>1. /\ UNCHANGED <<stored, loaded, history>> /\ cursor' = cursor + 1
        /\ cursor < Len(history) /\ cursor \in 1 .. Len(history) /\ Len(history) \in Nat
    BY <1>4 DEF Redo, EditorInv
  <2>2. cursor' \in 1 .. Len(history) /\ cursor \in 1 .. Len(history) - 1 /\ stored' = stored
    BY <2>1
  <2>3. EditorInv'
    BY <1>2, <1>4, <2>1, <2>2
  <2>4. KeepsFit(history[cursor], history[cursor + 1])
    BY <1>4, <2>2 DEF EditorInv
  <2>5. PICK new : new = history[cursor + 1]
    OBVIOUS
  <2>6. Segments' = new /\ Segments = history[cursor]
    BY <2>1, <2>5 DEF Segments
  <2>7. Valid(Segments)' <=> Valid(new)
    BY <2>6
  <2>8. QED
    BY <2>2, <2>3, <2>4, <2>5, <2>6, <2>7 DEF EditFollowed, KeepsFit, Unlabels
<1>5. ASSUME UNCHANGED <<history, cursor>>
      PROVE  Valid(Segments) => Valid(Segments)'
  <2>1. Segments' = Segments
    BY <1>5 DEF Segments
  <2>2. QED
    BY <2>1
<1>6. ASSUME EditorInv, Load PROVE EditorInv' /\ EditFollowed
  <2>1. UNCHANGED <<stored, history, cursor>> /\ loaded' = TRUE
    BY <1>6 DEF Load
  <2>2. /\ IsList(stored') /\ history' \in Seq(Seq(Wide)) /\ Len(history') <= MaxHistory
        /\ \A k \in 1 .. Len(history') : IsList(history'[k])
        /\ cursor' \in 1 .. Len(history')
        /\ \A k \in 1 .. Len(history') - 1 : KeepsFit(history'[k], history'[k + 1])
    BY <1>6, <2>1 DEF EditorInv
  <2>3. EditorInv'
    BY <2>1, <2>2 DEF EditorInv
  <2>4. QED
    BY <1>5, <2>1, <2>3 DEF EditFollowed
<1>7. ASSUME EditorInv, Submit PROVE EditorInv' /\ EditFollowed
  <2>1. UNCHANGED <<loaded, history, cursor>> /\ (stored' = Segments \/ stored' = stored)
    BY <1>7 DEF Submit
  <2>2. IsList(Segments) /\ IsList(stored)
    BY <1>7, ShownIsList DEF EditorInv
  <2>3. /\ loaded' \in BOOLEAN /\ IsList(stored')
        /\ history' \in Seq(Seq(Wide)) /\ Len(history') <= MaxHistory
        /\ \A k \in 1 .. Len(history') : IsList(history'[k])
        /\ cursor' \in 1 .. Len(history')
        /\ \A k \in 1 .. Len(history') - 1 : KeepsFit(history'[k], history'[k + 1])
    BY <1>7, <2>1, <2>2 DEF EditorInv
  <2>4. EditorInv'
    BY <2>3 DEF EditorInv
  <2>5. QED
    BY <1>5, <2>1, <2>4 DEF EditFollowed
<1>8. ASSUME EditorInv, UNCHANGED editorVars PROVE EditorInv' /\ EditFollowed
  <2>1. UNCHANGED <<stored, loaded, history, cursor>>
    BY <1>8 DEF editorVars
  <2>2. EditorInv'
    BY <1>2, <1>8, <2>1 DEF EditorInv
  <2>3. QED
    BY <1>5, <2>1, <2>2 DEF EditFollowed
<1>9. QED
  BY <1>1, <1>3, <1>4, <1>6, <1>7, <1>8 DEF EditorNext

LEMMA EditorInvHolds == EditorSpec => []EditorInv
<1>1. EditorInv /\ [EditorNext]_editorVars => EditorInv'
  BY EditorStep
<1>2. QED
  BY EditorInitInv, <1>1, PTL DEF EditorSpec

LEMMA EditorTyped == EditorInv => EditorTypeOK
<1>1. SUFFICES ASSUME EditorInv PROVE EditorTypeOK
  OBVIOUS
<1>2. PICK n \in Nat : n = Len(history) /\ DOMAIN history = 1 .. n
  BY <1>1 DEF EditorInv
<1>3. \A list \in ToSet(history) \cup {stored} : IsList(list)
  BY <1>1, <1>2 DEF EditorInv, ToSet
<1>4. ASSUME NEW list \in ToSet(history) \cup {stored}
      PROVE  /\ ToSet(list) \subseteq [id : Id, from : Int, to : Int, text : Text]
             /\ \A i, j \in DOMAIN list : list[i].id = list[j].id => i = j
  <2>1. IsList(list)
    BY <1>3
  <2>2. \A s \in ToSet(list) : s \in Wide
    BY <2>1, ToSetIs
  <2>3. DOMAIN list = 1 .. Len(list)
    BY <2>1 DEF IsList
  <2>4. QED
    BY <2>1, <2>2, <2>3 DEF IsList, Wide
<1>5. QED
  BY <1>1, <1>4 DEF EditorTypeOK, EditorInv

\* The lists of the history and of the Platform keep their types, and no two segments of one
\* list share an identifier, whatever is split, merged, undone and redone.
THEOREM EditorTypes == EditorSpec => []EditorTypeOK
BY EditorInvHolds, EditorTyped, PTL

\* An edit, a Redo included, of a list that is fit to submit leaves it fit, unless it takes a
\* label away or merges two segments with others between them; and a list that is fit to
\* submit (validateSegments) the contract's Segment and AnnotationSubmit accept, but for what
\* the tool does not look at, ends between two milliseconds and long descriptions: for every
\* duration, every minimum length and every number of segments.
THEOREM EditsAlwaysKeepFit == EditorSpec => EditsKeepFit
<1>1. EditorInv /\ [EditorNext]_editorVars => EditFollowed
  BY EditorStep
<1>2. EditorInv => ShownAccepted
  <2>1. ASSUME EditorInv PROVE ShownAccepted
    BY <2>1, ShownIsList, ValidAccepted DEF ShownAccepted
  <2>2. QED
    BY <2>1
<1>3. EditFollowed /\ ShownAccepted' /\ [EditorNext]_editorVars
        => [/\ Valid(Segments) /\ ~Valid(Segments)' /\ Len(history') = cursor' =>
                 (\E s \in ToSet(Segments') : s.text = "none") \/ Swallows(Segments')
            /\ Valid(Segments') => Accepted(Segments') \/ Unlooked(Segments')]_editorVars
  BY DEF EditFollowed, ShownAccepted
<1>4. QED
  BY <1>1, <1>2, <1>3, EditorInvHolds, PTL DEF EditorSpec, EditsKeepFit
------------------------------------------------------------------------------
(***************************************************************************)
(* The tool.                                                               *)
(***************************************************************************)
\* What TLC checks of the parts side by side is a behaviour of each of them.
LEMMA PartsMove == MCSpec => DeskSpec /\ EditorSpec /\ PlayerSpec
<1>1. MCInit => DeskInit /\ (HookInit \/ PageInit) /\ PlayerInit
  BY DEF MCInit
<1>2. ASSUME [MCNext]_<<scene, deskVars, editorVars, playerVars>>
      PROVE  [DeskNext]_deskVars /\ [EditorNext]_editorVars /\ [PlayerNext]_playerVars
  BY <1>2 DEF MCNext
<1>3. QED
  BY <1>1, <1>2, PTL DEF MCSpec, DeskSpec, EditorSpec, PlayerSpec

\* The reviewers' pages, the editor and the player keep their types, whichever of them moves.
THEOREM ToolTypes == DeskSpec /\ EditorSpec /\ PlayerSpec => []ToolTypesOK
<1>1. DeskTypeOK /\ EditorTypeOK /\ PlayerTypeOK => ToolTypesOK
  BY DEF ToolTypesOK
<1>2. QED
  BY <1>1, DeskTypesHold, EditorTypes, PlayerTypes, PTL
=============================================================================
