SPECIFICATION Spec
CONSTANTS
    Chunks = 2
    Queries <- NoQueries
    EventCapacity = 1
    EventsPerTick = 1
    MaxWrites = 1
    MaxRuns = 2
    Faults <- AllFaults
INVARIANTS
    TypeOK ExitOnce NoAbandonedChild PromptAfterDeadline
PROPERTIES
    ClosedForGood
CHECK_DEADLOCK FALSE
