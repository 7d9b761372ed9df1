CONSTANTS
    u1 = u1
    u2 = u2
    s1 = s1
    s2 = s2
    fr = fr
    en = en
    Calls = {s1}
    Streaming = {s1}
    Workers = {w1}
    SyncThread = SyncThread
    None = None
    Async = FALSE
    LogOkResponse = TRUE
    Chain <- DefaultChain
    LanguageOf <- MCLanguageOf
    DefaultLanguage = en
    MaxItems = 1
SPECIFICATION Spec
CHECK_DEADLOCK FALSE
INVARIANT IdleThreadsHoldNoConnection
