CONSTANTS
    Episode = {e1}
    Request = {r1}
    Segments = {s1}
    Overlap = FALSE
    MaxTrail = 8
    MaxEvents = 1
SPECIFICATION Spec
INVARIANT SchedulerDrivesItsStages
SYMMETRY Symmetry
CHECK_DEADLOCK FALSE
