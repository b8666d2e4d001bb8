CONSTANTS
    Episodes = 2
    Desk = {p1, p2}
    MaxVersion = 2
    MaxClicks = 2
    Ms = 2
    Duration = 8
    MinSegment = 2
    OperatorMin = 4
    MaxSegments = 3
    MaxHistory = 2
    Camera = {c1, c2}
    Offset = {0, 2}
    Length = 3
    MaxClock = 4
SPECIFICATION MCSpec
INVARIANTS
    ToolTypesOK
PROPERTIES
    PublishedAsShown
    EditsKeepFit
    CamerasFollow
CHECK_DEADLOCK FALSE
