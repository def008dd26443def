SPECIFICATION Spec
CONSTANTS
    Chunks = 0
    Queries <- NoQueries
    EventCapacity = 1
    EventsPerTick = 1
    MaxWrites = 3
    MaxRuns = 0
    Faults <- NoFaults
PROPERTIES
    WriteInputReturns
CHECK_DEADLOCK FALSE
