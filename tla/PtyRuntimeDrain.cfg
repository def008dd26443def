SPECIFICATION OpenInputSpec
CONSTANTS
    Chunks = 2
    Queries <- SecondChunk
    EventCapacity = 1
    EventsPerTick = 1
    MaxWrites = 0
    MaxRuns = 1
    Faults <- NoFaults
INVARIANTS
    DrainsUntilEofOrTimeout
CHECK_DEADLOCK FALSE
