SPECIFICATION FairSpec
CONSTANTS
    doc1 = doc1
    Docs <- OneDoc
    MaxTasks = 4
    MaxAttempts = 1
    MaxPrunes = 1
    Events = {"beat_crash", "send_error", "http_error", "indexer_crash", "generator_crash", "source_error",
              "prune_send_error", "pause", "invalid"}
    MaxEvents = 1
INVARIANTS TypeOK NoStopForGone
PROPERTIES DeletionCompletes FencesRemoved
CHECK_DEADLOCK FALSE
