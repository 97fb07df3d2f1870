SPECIFICATION Spec
CONSTANTS
    w1 = w1  w2 = w2  present = present  future = future
    NumItems = 2
    PassEnds <- OneRun
    Settings <- OneSetting
    MaxAttempts = 3
    MaxBatchNum = 5
    Workers <- OneWorker
    CheckpointedConnector = TRUE
    PERSISTENT_INDEXING = FALSE
    Events = {"connector_error", "kill", "cancel", "worker_crash", "doc_failure", "reindex",
              "lost_checkpoint"}
    MaxEvents = 2
INVARIANTS NoDocumentLost CheckpointCovered
PROPERTY NeverReplacesBatch
