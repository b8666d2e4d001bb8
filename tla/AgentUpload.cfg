CONSTANTS
    Collected = {c1}
    Dropped = {d1}
    FileSize = 3
    ChunkSize = 2
    MaxFaults = 2
    Name = {n1, n2}
    FullSize = 2
    StableCount = 2
    Timeout = 4
    MaxPause = 2
    MaxFiles = 2
    MaxQueue = 2
    MaxRestarts = 1
SPECIFICATION MCSpec
INVARIANTS
    AgentTypeOK
    StoreTellsTruth
    RecoveryOverlooksNothing
PROPERTIES
    NoDamagedObjectAccepted
    RestartsGetItThere
    TakenWhole
    EveryFileIsDecided
CHECK_DEADLOCK FALSE
