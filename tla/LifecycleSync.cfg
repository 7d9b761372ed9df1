CONSTANTS
    u1 = u1
    u2 = u2
    s1 = s1
    s2 = s2
    fr = fr
    en = en
    Calls = {u1, u2, s2}
    Streaming = {s2}
    Workers = {w1}
    SyncThread = SyncThread
    None = None
    Async = FALSE
    LogOkResponse = FALSE
    Chain <- FullChain
    LanguageOf <- MCLanguageOf
    DefaultLanguage = en
    MaxItems = 2
SPECIFICATION FairSpec
CHECK_DEADLOCK FALSE
INVARIANTS
    TypeOK
    ActionRunsAdmitted
    ServicerIsOwn
    LanguageIsOwn
    SuccessIsComplete
    AuthenticatedOnce
    AuditedOnce
    UnaryCallsLeaveNoConnection
PROPERTIES
    Terminates
