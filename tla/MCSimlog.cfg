CONSTANTS
    Threads = {t, u}
    Streams = {log, err}
    Sizes = {1, 3}
    MaxLines = 5
    MaxResets = 2
SPECIFICATION Spec
INVARIANTS
    StreamsThenBuffer
    CrashLosesTail
    BuffBounded
    LinesOnce
SYMMETRY Symmetry
CHECK_DEADLOCK FALSE
