CONSTANTS
    Names = {a, b, c}
    MaxGenerations = 2
SPECIFICATION Spec
CHECK_DEADLOCK FALSE
PROPERTY FieldNumbersNotRecycled
