SPECIFICATION FairSpec
CONSTANTS
    w1 = w1  w2 = w2  present = present  future = future
    NumItems = 2
    PassEnds <- OneRun
    Settings <- OneSetting
    MaxAttempts = 2
    MaxBatchNum = 4
    Workers <- OneWorker
    CheckpointedConnector = TRUE
    PERSISTENT_INDEXING = FALSE
    Events = {"connector_error", "setup_error", "kill", "pause", "cancel",
              "spawn_error", "worker_crash", "late_crash", "batch_error",
              "late_error", "doc_failure", "usage_limit", "memory_limit", "reindex",
              "lost_checkpoint", "monitor_error", "overlap", "early_delivery"}
    MaxEvents = 1
INVARIANTS TypeOK SuccessMeansCounted
PROPERTIES StaysTerminal EveryAttemptEnds ImplementsLifecycle
