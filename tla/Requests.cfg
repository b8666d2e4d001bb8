CONSTANTS
    Event = {d1, n1}
    Dataset = {d1}
    Notices = {n1}
    Copy = {1, 2, 3}
    MaxRetries = 1
    MaxMishaps = 2
    Agent = {a1, a2}
    Awake = {a1}
    Task = {t1, t2}
    Call = {r1, r2}
    MaxConnections = 2
    Directory = {d2, d3}
SPECIFICATION MCSpec
INVARIANTS
    TypesOK
    RegistryIsHonest
    AssignmentsStay
PROPERTIES
    VisibleSteps
    EveryBuildEnds
    BrokerImplementsDelivery
    AssignmentArrives
    FilesAreTaken
CHECK_DEADLOCK FALSE
