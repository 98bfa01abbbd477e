CONSTANTS
    Handles = {a, b, c}
    Values = {x, y}
    Default = x
    Raw = Raw
    Dead = Dead
    Null = Null
    MaxSize = 2
    NBlocks = 3
    MaxLeaks = 1
SPECIFICATION Spec
INVARIANTS RefsCounted
PROPERTIES
    OnlySelfMoveLeaks
    ImplementsValues
SYMMETRY Symmetry
CHECK_DEADLOCK FALSE
