SPECIFICATION FairSpec
CONSTANTS
    Nothing = Nothing
    Contents = {c1}
    Quizzes = {q1}
    PullModel = {c1}
    Jobs = {j1, j2}
    Workers = {w1, w2}
    MaxRetries = 2
    Faults = {"crash", "database", "network", "corrupt", "slow"}
    MaxEdits = 1
    MaxReplays = 1
INVARIANTS Consistent EditsKept OneWorkerPerJob
PROPERTIES KeepsLifecycle JobsEnd
CHECK_DEADLOCK FALSE
