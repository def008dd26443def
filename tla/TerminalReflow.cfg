SPECIFICATION Spec
CONSTANTS
    InitialSize <- Size3x2
    Sizes <- Reflowing
    MaxColumns = 4
    MaxRows = 3
    MaxCells = 8
    Glyphs <- TwoWidths
    Controls = {"LF", "CR", "BS"}
    Moves <- SomeMoves
    Erasures = {}
    Modes = {}
    Backgrounds = {}
    MaxSteps = 7
    MaxLines = 50
    MaxBytes = 500
CHECK_DEADLOCK FALSE
INVARIANTS TypeOK PrimaryFits WidePairs
PROPERTIES ResizeKeepsText
