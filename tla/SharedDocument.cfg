SPECIFICATION Spec
CONSTANTS
    doc1 = doc1
    Docs <- OneDoc
    MaxTasks = 4
    MaxAttempts = 1
    MaxPrunes = 1
    Events = {}
    MaxEvents = 0
PROPERTY OthersKept
CHECK_DEADLOCK FALSE
