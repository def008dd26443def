SPECIFICATION Spec
CONSTANTS
    InitialSize <- Size2x2
    Sizes <- Two
    MaxColumns = 4
    MaxRows = 3
    MaxCells = 8
    Glyphs <- OneGlyph
    Controls = {"LF"}
    Moves <- FewMoves
    Erasures <- EveryErase
    Modes = {25, 47, 1047, 1048, 1049}
    Backgrounds = {TRUE}
    MaxSteps = 6
    MaxLines = 3
    MaxBytes = 8
CHECK_DEADLOCK FALSE
INVARIANTS ScrollbackBounded DistinctRows DamageCovers
PROPERTIES StableHistory AlternateIsolation
