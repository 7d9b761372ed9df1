CONSTANTS
    Null = Null
    Unset = Unset
    c1 = c1
    c2 = c2
    c3 = c3
    title = title
    other = other
    Calls = {c1}
    Fields = {title, other}
    Pks = {p1}
    Operations <- AnyMethod
    Contents <- AnyContents
    Kinds <- AnyKind
    Async = FALSE
SPECIFICATION Spec
CHECK_DEADLOCK FALSE
INVARIANTS
    NullsOnlyWhereAllowed
    UnsetAsDocumented
    ErrorsWriteNothing
