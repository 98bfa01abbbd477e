CONSTANTS
    Objects <- Codes
    Code <- CodeOf
    Strategy <- Steps
    OwnRehash = 3
    NoObject = NoObject
SPECIFICATION Spec
INVARIANTS
    UniqueObjects
