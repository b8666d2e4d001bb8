CONSTANTS
    Episode = {e1}
    Request = {r1, r2}
    Segments = {s1}
    Overlap = TRUE
    MaxTrail = 8
    MaxEvents = 1
SPECIFICATION Spec
INVARIANT RecordedEdgesLegal
SYMMETRY Symmetry
CHECK_DEADLOCK FALSE
