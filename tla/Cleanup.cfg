SPECIFICATION FairSpec
CONSTANTS
    ccA = ccA  ccB = ccB  d1 = d1  l1 = l1  l2 = l2
    CCPairs <- TwoPairs
    Docprocessors <- OneDocprocessor
    LightWorkers <- OneLightWorker
    MaxRetries = 1
    MaxIndexing = 2
    Events = {"index_error", "http_error", "crash", "beat_crash", "source_removal", "edit",
              "redelivery", "restart"}
    MaxEvents = 2
INVARIANTS TypeOK LockedRowStays DeletedPairLosesAccess
PROPERTIES SharedDocumentKept DeletionRemovesReference DirtyIsSynced
CHECK_DEADLOCK FALSE
