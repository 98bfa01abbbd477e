CONSTANTS
    Strings = {s, t}
    Leads = {2}
    Texts <- MCTexts
    Gone = Gone
    MaxLen = 3
    MaxIll = 2
    MaxIndex = 4
    MaxWrong = 1
SPECIFICATION Spec
INVARIANTS ByCharacter
PROPERTIES IndexLostOnlyBy
SYMMETRY Symmetry
CHECK_DEADLOCK FALSE
