SPECIFICATION Spec
CONSTANTS
    w1 = w1  w2 = w2  present = present  future = future
    NumItems = 3
    PassEnds <- RunsOfTwo
    Settings <- OneSetting
    MaxAttempts = 2
    MaxBatchNum = 4
    Workers <- TwoWorkers
    CheckpointedConnector = TRUE
    PERSISTENT_INDEXING = TRUE
    Events = {"connector_error", "kill", "worker_crash", "batch_error"}
    MaxEvents = 2
SYMMETRY WorkerSymmetry
INVARIANTS CompletionMeansFinished NoDocumentLost
