SPECIFICATION Spec
CONSTANTS
    PayloadLimit = 1
    ActionLimit = 9
    Chunks <- Alternating
    MaxChunks = 1
    Requests <- Resized
    TerminalSizes = {"80x24", "100x30"}
    ExitCodes = {0}
    OutputBudget = 9
    MaxEvents = 9
    MaxSnapshotEvents = 9
    Faults = {}
INVARIANTS RecordingsLoad
