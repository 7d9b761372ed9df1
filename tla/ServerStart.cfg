CONSTANTS
    Services = {s1, s2}
    Ports = {p1, p2}
    Middlewares <- MCMiddlewares
    MiddlewareLists <- MCMiddlewareLists
    Nothing = Nothing
    MaxReloads = 1
SPECIFICATION Spec
INVARIANT StartedAsAsked
INVARIANT MiddlewaresFit
CHECK_DEADLOCK FALSE
