CONSTANTS
    Handles = {a, b}
    Values = {x, y}
    Default = x
    Dead = Dead
    Null = Null
    ChunkSize = 2
    MaxChunks = 2
    NChunks = 3
SPECIFICATION CSpec
SYMMETRY Symmetry
INVARIANTS ChunksFull
PROPERTIES ImplementsChunkValues
CHECK_DEADLOCK FALSE
