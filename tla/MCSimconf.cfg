CONSTANTS
    Names <- MCNames
    Contents <- MCContents
    MaxParses = 2
SPECIFICATION CSpec
INVARIANTS
    FilesMarked
    FailureReported
PROPERTIES
    OptionsStay
CHECK_DEADLOCK FALSE
