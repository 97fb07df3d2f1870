SPECIFICATION FairSpec
CONSTANTS
    a1 = a1  a2 = a2
    NumRuns = 2
    NumTicks = 2
    Requests <- OneRequest
    MaxRequests = 2
    Events = {"crash", "send_error", "wake_error", "session_error", "approval"}
    MaxEvents = 1
INVARIANTS TypeOK NoOverlap
PROPERTIES FiresOnceWhenDue EndChangedBySweepOnly ScheduleGoesOn
CHECK_DEADLOCK FALSE
