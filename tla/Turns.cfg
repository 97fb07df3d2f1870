SPECIFICATION FairSpec
CONSTANTS
    r1 = r1  r2 = r2  d1 = d1
    Runners <- TwoRunners
    Readers <- OneReader
    MaxTurns = 2
    MaxStops = 1
    Events = {"crash", "busy", "stall", "commit_error", "start_error", "agent_error"}
    MaxEvents = 1
INVARIANTS TypeOK OneActiveTurn
PROPERTIES EndedByOwner EndedStaysEnded TurnsEnd
CHECK_DEADLOCK FALSE
