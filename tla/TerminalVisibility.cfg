SPECIFICATION Spec
CONSTANTS
    InitialSize <- Size2x2
    Sizes <- Fixed
    MaxColumns = 4
    MaxRows = 3
    MaxCells = 8
    Glyphs <- OneGlyph
    Controls = {}
    Moves = {}
    Erasures = {}
    Modes = {25, 1049}
    Backgrounds = {}
    MaxSteps = 4
    MaxLines = 3
    MaxBytes = 8
CHECK_DEADLOCK FALSE
INVARIANTS CursorVisibilityIsGlobal
