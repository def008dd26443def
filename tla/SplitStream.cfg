SPECIFICATION Spec
CONSTANTS
    PayloadLimit = 1
    ActionLimit = 20
    Chunks <- SingleBytes
    MaxChunks = 5
    Requests <- Unrecorded
    TerminalSizes = {"80x24"}
    ExitCodes = {0}
    OutputBudget = 4
    MaxEvents = 9
    MaxSnapshotEvents = 20
    Faults = {}
INVARIANTS SplitStreamEqualsWhole
