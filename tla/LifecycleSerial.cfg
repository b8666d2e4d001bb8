CONSTANTS
    Episode = {e1}
    Request = {r1}
    Segments = {s1, "none", "machine"}
    Overlap = FALSE
    MaxTrail = 12
    MaxEvents = 3
SPECIFICATION Spec
INVARIANTS
    TypeOK
    CountersMatchTrail
    RevisionCountsReturns
    PublishedAsReviewed
PROPERTY ImplementsStateMachine
SYMMETRY Symmetry
CHECK_DEADLOCK FALSE
