CONSTANTS
    Names = {a, b, c}
    MaxGenerations = 4
SPECIFICATION Spec
CHECK_DEADLOCK FALSE
INVARIANTS
    TypeOK
    NumbersDistinct
    CheckIsSound
    ClosedFormIsLoop
PROPERTIES
    NumbersKept
    EnumNumbersNotRecycled
