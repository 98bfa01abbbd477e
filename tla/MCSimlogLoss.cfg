CONSTANTS
    Threads = {t, u}
    Streams = {log, err}
    Sizes = {2}
    MaxLines = 3
    MaxResets = 1
SPECIFICATION Spec
INVARIANTS
    NothingLost
SYMMETRY Symmetry
CHECK_DEADLOCK FALSE
