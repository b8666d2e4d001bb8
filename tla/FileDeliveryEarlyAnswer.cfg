CONSTANTS
    Uploaded = {u1}
    Requested = {p1}
    Notices = {n1}
    MaxRetries = 2
    MaxCrashes = 1
    MaxFaults = 2
SPECIFICATION Spec
INVARIANT ConflictMeansAdvanced
CHECK_DEADLOCK FALSE
