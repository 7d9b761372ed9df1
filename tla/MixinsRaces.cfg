CONSTANTS
    Null = Null
    Unset = Unset
    c1 = c1
    c2 = c2
    c3 = c3
    title = title
    other = other
    Calls = {c1, c2, c3}
    Fields = {title, other}
    Pks = {p1}
    Operations <- AnyWriteDestroy
    Contents <- SetOrNot
    Kinds <- PlainAndNullable
    Async = TRUE
SPECIFICATION Spec
CHECK_DEADLOCK FALSE
INVARIANTS
    TypeOK
    AnswersWereTrue
PROPERTIES
    UnlistedFieldsKept
    RowsAppearKnowingly
