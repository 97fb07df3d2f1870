SPECIFICATION FairSpec
CONSTANTS
    w1 = w1  w2 = w2
    NumBatches = 1
    Workers <- OneWorker
    Timeout = 4
    MaxRound = 1
    MaxMissed = 1
    Events = {"fetcher_crash", "lost_task", "restore", "worker_crash", "batch_error", "lost_batch", "redis_error"}
    MaxEvents = 2
INVARIANT TypeOK
PROPERTIES FetchingNotInvalidated EveryAttemptResolved
