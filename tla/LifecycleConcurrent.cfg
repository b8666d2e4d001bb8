CONSTANTS
    Episode = {e1}
    Request = {r1, r2}
    Segments = {s1, "none"}
    Overlap = TRUE
    MaxTrail = 8
    MaxEvents = 1
SPECIFICATION Spec
INVARIANTS
    AuditTrail
    DecisionOnFile
    ReviewSeesEpisodeSegments
    NoMoveWithoutEvent
    SomeRequestCanGoOn
SYMMETRY Symmetry
CHECK_DEADLOCK FALSE
