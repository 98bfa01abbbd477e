CONSTANTS
    Type = {u, v, w}
    MaxLen = 6
    Byte <- It
    Items <- MCItems
    Separators <- MCSeparators
    Escapes <- MCEscapes
    Quote <- MCQuote
    Spaces = {"w"}
    Subs = {1, 2, 3}
    NoSub = 0
    Address <- MCAddress
    MaxCalls = 2
    W = 3
    MaxBits = 7
    Cardinals <- MCCardinals
    Asked <- MCAsked
    Sources <- MCSources
    MadeUp = MadeUp
    Features <- MCFeatures
    Tokens <- MCTokens
    Skipped <- MCSkipped
    MaxTokens = 7
SPECIFICATION Spec
INVARIANTS
    IndexRight
    RoundTrip
    NotifyDelivers
    OnesFound
    CountsInOrder
    NextPrimeIsNext
    ReaderAccepts
    WrittenIsRead
PROPERTIES
    ExpiredStay
SYMMETRY Symmetry
CHECK_DEADLOCK FALSE
