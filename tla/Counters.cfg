SPECIFICATION Spec
CONSTANTS
    w1 = w1  w2 = w2
    NumBatches = 3
    Workers <- TwoWorkers
    Timeout = 4
    MaxRound = 1
    MaxMissed = 0
    Events = {"fetcher_crash", "lost_task", "worker_crash", "batch_error", "lost_batch"}
    MaxEvents = 2
SYMMETRY WorkerSymmetry
INVARIANT NoWorkAnywhere
PROPERTY QueuedTaskNotFailed
