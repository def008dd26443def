SPECIFICATION Spec
CONSTANTS
    InitialSize <- Size2x2
    Sizes <- Two
    MaxColumns = 4
    MaxRows = 3
    MaxCells = 8
    Glyphs <- OneGlyph
    Controls = {"LF"}
    Moves = {}
    Erasures = {}
    Modes = {47}
    Backgrounds = {}
    MaxSteps = 5
    MaxLines = 3
    MaxBytes = 8
CHECK_DEADLOCK FALSE
INVARIANTS NeverPanics
