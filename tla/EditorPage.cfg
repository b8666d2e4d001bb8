CONSTANTS
    Ms = 2
    Duration = 8
    MinSegment = 2
    OperatorMin = 4
    MaxSegments = 3
    MaxHistory = 2
SPECIFICATION PageSpec
INVARIANT StartsFromPreannotation
CHECK_DEADLOCK FALSE
