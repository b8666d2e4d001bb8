CONSTANTS
    Episode = {e1, e2}
    Request = {r1, r2}
    Segments = {s1}
    Overlap = FALSE
    MaxTrail = 8
    MaxEvents = 1
SPECIFICATION Spec
INVARIANT CountersMatchTrail
SYMMETRY Symmetry
CHECK_DEADLOCK FALSE
