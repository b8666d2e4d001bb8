---------------------------- MODULE SegmentEditor ----------------------------
(***************************************************************************)
(* Editing an Episode's action segments in the annotation tool: the pure   *)
(* functions of segmentMath, the undo history of useSegmentEditor, and the *)
(* page that loads the Episode and submits the edited list.                *)
(*                                                                         *)
(* A position is what a page's click or frame makes of it, and may lie     *)
(* between two milliseconds.  Of a segment's label and description are     *)
(* kept whether it has the one and how long the other is; its source and   *)
(* confidence are left out.                                                *)
(***************************************************************************)
EXTENDS Integers, FiniteSets, SequencesExt

CONSTANTS Ms,           \* positions that a millisecond has
          Duration,     \* of the Episode, in the unit of positions
          MinSegment,   \* MIN_SEGMENT_MS, in that unit
          OperatorMin,  \* MIN_SEGMENT_MS of the preannotate operator
          MaxSegments,  \* bound: segments of one list
          MaxHistory    \* bound: lists in the history

ASSUME EditorAssumption ==
    /\ Ms \in Nat \ {0}
    /\ Duration \in Nat \ {0} /\ MinSegment \in Nat \ {0}
    /\ OperatorMin \in Nat /\ OperatorMin >= MinSegment
    /\ MaxSegments \in Nat /\ MaxHistory \in Nat \ {0}

VARIABLES stored,       \* the Episode's segments on the Platform
          loaded,       \* fetchEpisode has answered
          history, cursor

editorVars == <<stored, loaded, history, cursor>>

------------------------------------------------------------------------------
Position == 0 .. Duration
Id == 1 .. MaxSegments

\* No label; a label, and a description the contract has room for; or one it has not.
Text == {"none", "short", "long"}

Segment == [id : Id, from : Position, to : Position, text : Text]

\* sortSegments, by the start; the sort is stable.
Before(list, i) ==
    {j \in DOMAIN list : list[j].from < list[i].from \/ (list[j].from = list[i].from /\ j < i)}

Sorted(list) ==
    [k \in DOMAIN list |-> list[CHOOSE i \in DOMAIN list : Cardinality(Before(list, i)) = k - 1]]

Overlaps(list) ==
    LET ordered == Sorted(list) IN
    {i \in 2 .. Len(list) : ordered[i].from < ordered[i - 1].to}

\* Mutant: overlaps are not looked for.
ValidOneByOne(list) ==
    \A s \in ToSet(list) :
        s.from >= 0 /\ s.to <= Duration /\ s.to - s.from >= MinSegment /\ s.text # "none"

\* validateSegments
Valid(list) ==
    /\ \A s \in ToSet(list) :
         s.from >= 0 /\ s.to <= Duration /\ s.to - s.from >= MinSegment /\ s.text # "none"
    /\ Overlaps(list) = {}

\* Its ends are whole milliseconds.
Whole(s) == s.from % Ms = 0 /\ s.to % Ms = 0

\* What the contract's Segment and AnnotationSubmit accept: integers, for one.
Accepted(list) ==
    /\ \A s \in ToSet(list) :
         Whole(s) /\ s.text # "long" /\ 0 <= s.from /\ s.from < s.to
    /\ Overlaps(list) = {}

Milliseconds(low, high) == {n \in low .. high : n % Ms = 0}

\* What preannotate finds: segments that follow each other, the last of which may end after
\* the Episode does.
Preannotated ==
    UNION {{[i \in 1 .. n |-> [id |-> i, from |-> cut[i], to |-> cut[i + 1], text |-> "short"]] :
              cut \in {c \in [1 .. n + 1 -> Milliseconds(0, Duration + OperatorMin)] :
                         \A k \in 1 .. n : c[k] <= Duration /\ c[k + 1] - c[k] >= OperatorMin}} :
           n \in 0 .. MaxSegments}

\* What an annotator has submitted, and a reviewer returned.
Returned ==
    UNION {{[i \in 1 .. n |-> [id |-> i, from |-> cut[2 * i - 1], to |-> cut[2 * i],
                               text |-> "short"]] :
              cut \in {c \in [1 .. 2 * n -> Milliseconds(0, Duration)] :
                         \A k \in 1 .. 2 * n - 1 :
                            c[k + 1] - c[k] >= IF k % 2 = 1 THEN MinSegment ELSE 0}} :
           n \in 0 .. MaxSegments}

------------------------------------------------------------------------------
Find(list, id) == CHOOSE i \in DOMAIN list : list[i].id = id
Has(list, id) == \E i \in DOMAIN list : list[i].id = id

FreshId(list) == CHOOSE id \in Id : ~Has(list, id)

Split(list, id, at) ==
    LET i == Find(list, id)
        s == list[i]
        new == [s EXCEPT !.id = FreshId(list), !.from = at]
    IN  IF at - s.from < MinSegment \/ s.to - at < MinSegment THEN list
        ELSE Sorted(InsertAt(ReplaceAt(list, i, [s EXCEPT !.to = at]), i + 1, new))

Without(list, id) == RemoveAt(list, Find(list, id))

\* Two segments become one, whatever lies between them.
Merge(list, one, other) ==
    LET s == list[Find(list, one)]
        t == list[Find(list, other)]
        first == IF s.from <= t.from THEN s ELSE t
        last == IF s.from <= t.from THEN t ELSE s
    IN  Sorted(Append(Without(Without(list, one), other), [first EXCEPT !.to = last.to]))

AtLeast(n, m) == IF n < m THEN m ELSE n
AtMost(n, m) == IF n > m THEN m ELSE n

\* Mutant: the neighbour's other end is taken for the limit.
ResizeStartTooFar(list, id, at) ==
    LET ordered == Sorted(list)
        i == Find(ordered, id)
        low == IF i = 1 THEN 0 ELSE ordered[i - 1].from
        high == ordered[i].to - MinSegment
    IN  ReplaceAt(ordered, i, [ordered[i] EXCEPT !.from = AtMost(AtLeast(at, low), high)])

\* resizeSegment.
ResizeStart(list, id, at) ==
    LET ordered == Sorted(list)
        i == Find(ordered, id)
        low == IF i = 1 THEN 0 ELSE ordered[i - 1].to
        high == ordered[i].to - MinSegment
    IN  ReplaceAt(ordered, i, [ordered[i] EXCEPT !.from = AtMost(AtLeast(at, low), high)])

ResizeEnd(list, id, at) ==
    LET ordered == Sorted(list)
        i == Find(ordered, id)
        low == ordered[i].from + MinSegment
        high == IF i = Len(list) THEN Duration ELSE ordered[i + 1].from
    IN  ReplaceAt(ordered, i, [ordered[i] EXCEPT !.to = AtLeast(AtMost(at, high), low)])

Relabel(list, id, text) ==
    LET i == Find(list, id) IN ReplaceAt(list, i, [list[i] EXCEPT !.text = text])

------------------------------------------------------------------------------
\* useSegmentEditor

Segments == history[cursor]

\* What was undone is forgotten.
Commit(list) ==
    /\ cursor < MaxHistory
    /\ history' = Append(SubSeq(history, 1, cursor), list)
    /\ cursor' = cursor + 1
    /\ UNCHANGED <<stored, loaded>>

Edit ==
    /\ loaded
    /\ \E s \in ToSet(Segments) :
         \/ \E at \in Position :
              \/ Len(Segments) < MaxSegments /\ Commit(Split(Segments, s.id, at))
              \/ Commit(ResizeStart(Segments, s.id, at))
              \/ Commit(ResizeEnd(Segments, s.id, at))
         \/ \E t \in ToSet(Segments) : t # s /\ Commit(Merge(Segments, s.id, t.id))
         \/ \E text \in Text : Commit(Relabel(Segments, s.id, text))
         \/ Commit(Without(Segments, s.id))

Undo ==
    /\ cursor > 1
    /\ cursor' = cursor - 1
    /\ UNCHANGED <<stored, loaded, history>>

Redo ==
    /\ cursor < Len(history)
    /\ cursor' = cursor + 1
    /\ UNCHANGED <<stored, loaded, history>>

\* AnnotatePage: its Episode arrives after the first render.
Load ==
    /\ ~loaded
    /\ loaded' = TRUE
    /\ UNCHANGED <<stored, history, cursor>>

\* The Platform replaces the Episode's segments by the submitted ones, or answers 422.
Submit ==
    /\ loaded
    /\ Valid(Segments)
    /\ stored' = IF Accepted(Segments) THEN Segments ELSE stored
    /\ UNCHANGED <<loaded, history, cursor>>

EditorNext == Edit \/ Undo \/ Redo \/ Load \/ Submit

\* The hook keeps the list of its first call as the first of its history.  On the page,
\* its only caller, that is the call before the Episode has come.
HookInit ==
    /\ stored \in Preannotated \cup Returned
    /\ loaded = TRUE
    /\ history = <<stored>>
    /\ cursor = 1

PageInit ==
    /\ stored \in Preannotated \cup Returned
    /\ loaded = FALSE
    /\ history = << <<>> >>
    /\ cursor = 1

EditorSpec == (HookInit \/ PageInit) /\ [][EditorNext]_editorVars

PageSpec == PageInit /\ [][EditorNext]_editorVars

------------------------------------------------------------------------------
\* The types of the editor.
EditorTypeOK ==
    /\ loaded \in BOOLEAN
    /\ cursor \in 1 .. Len(history) /\ Len(history) <= MaxHistory
    /\ \A list \in ToSet(history) \cup {stored} :
         /\ ToSet(list) \subseteq [id : Id, from : Int, to : Int, text : Text]
         /\ \A i, j \in DOMAIN list : list[i].id = list[j].id => i = j

\* An edit of a list that is fit to submit leaves it fit, unless it takes a label away, or
\* merges two segments with others between them.  And the contract accepts what the tool finds
\* fit to submit, but for what the tool does not look at: ends between two milliseconds, which
\* a split at the playhead leaves behind, and descriptions that are too long.
Swallows(list) ==
    \E s, t \in ToSet(list) : s # t /\ s.from <= t.from /\ t.to <= s.to

Unlooked(list) == \E s \in ToSet(list) : ~Whole(s) \/ s.text = "long"

EditsKeepFit ==
    [][/\ Valid(Segments) /\ ~Valid(Segments)' /\ Len(history') = cursor' =>
            (\E s \in ToSet(Segments') : s.text = "none") \/ Swallows(Segments')
       /\ Valid(Segments') => Accepted(Segments') \/ Unlooked(Segments')]_editorVars

\* The page shows the Episode's segments for the annotator to start from.
StartsFromPreannotation == loaded /\ Len(history) = 1 => Segments = stored
=============================================================================
