CONSTANTS
    Handles = {a, b}
    Values = {x}
    Default = x
    Raw = Raw
    Dead = Dead
    Null = Null
    MaxSize = 2
    NBlocks = 4
    MaxLeaks = 0
SPECIFICATION Spec
PROPERTIES
    AppendGivesObject
SYMMETRY Symmetry
CHECK_DEADLOCK FALSE
