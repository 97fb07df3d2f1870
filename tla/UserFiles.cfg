SPECIFICATION FairSpec
CONSTANTS
    w1 = w1  w2 = w2  c1 = c1  c2 = c2
    Workers <- TwoWorkers
    Clients <- OneClient
    MaxQueueDepth = 1
    MaxRequests = 2
    Events = {"index_error", "send_error", "crash", "expired", "slow"}
    MaxEvents = 1
INVARIANTS TypeOK CompletedIsSearchable GoneLeavesNothing
PROPERTIES DeletionWins WorkEnds
CHECK_DEADLOCK FALSE
