CONSTANTS
    one = one
    two = two
    number = number
    first = first
    second = second
    Calls = {first, second}
    HeaderNames <- MCHeaderNames
    Lower <- MCLower
    ResponseNames = {"vary", "Vary"}
    Values = {number, two}
    Strings = {one, two}
    StrOf <- MCStrOf
    Asked <- MCAsked
    Settings <- MCSettings
    Spellings <- MCSpellings
    Age = "Age"
    Nothing = Nothing
    MaxOps <- MCMaxOps
    MaxProxies <- MCMaxProxies
SPECIFICATION Spec
INVARIANT ViewsAgree
INVARIANT HitIsOwn
PROPERTY SetdefaultKeeps
CHECK_DEADLOCK FALSE
