SPECIFICATION Spec
CONSTANTS
    Nothing = Nothing
    Courses = {k1}
    Jobs = {j1, j2}
    Workers = {w1, w2}
    Scopes = {"all", k1}
    Dry = {}
    MaxRetries = 1
    MaxChanges = 1
    MaxFaults = 2
SYMMETRY Interchangeable
INVARIANTS Consistent TreesWhole
PROPERTIES KeepsLifecycle
CHECK_DEADLOCK FALSE
