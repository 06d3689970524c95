SPECIFICATION FairSpec
CONSTANTS
    Nothing = Nothing
    Jobs = {b1}
    Wanted = {b1}
    Workers = {w1, w2}
    Users = {u1}
    MaxAttempts = 2
    Faults = {"database", "error", "permanent", "translation", "request"}
    MaxDrafts = 1
    MaxCrashes = 1
INVARIANTS Consistent
PROPERTIES KeepsLifecycle ReviewKept Ends
CHECK_DEADLOCK FALSE
