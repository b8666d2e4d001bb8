CONSTANTS
    Operator = {o1, o2}
    Handlings = 2
    MaxTroubles = 2
    Agent = {a1}
    MaxHandlers = 3
    MaxSockets = 2
    MaxTime = 2
    MaxMessages = 3
    Server = {p1, p2}
    Client = {c1}
    Secret = {k0, k1}
    BuiltIn = k0
    TTL = 1
    MaxClock = 2
    Queue = {q1, q2}
    Message = {m1, m2}
SPECIFICATION MCSpec
INVARIANTS
    SafetyTypesOK
    ShownIsTrue
    InterruptedIsReadable
    NobodyShutOut
    InspectionOverlooksNothing
PROPERTIES
    VerdictIsFair
CHECK_DEADLOCK FALSE
