SPECIFICATION Spec
CONSTANTS
    Chunks = 2
    Queries <- SecondChunk
    EventCapacity = 1
    EventsPerTick = 2
    MaxWrites = 2
    MaxRuns = 2
    Faults <- NoFaults
INVARIANTS
    OutputInOrder CompleteRun WritesInOrder
PROPERTIES
    StreamSpec RunTerminates WriterStops ReaderReleased
CHECK_DEADLOCK FALSE
