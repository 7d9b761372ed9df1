CONSTANTS
    u1 = u1
    u2 = u2
    s1 = s1
    s2 = s2
    fr = fr
    en = en
    Calls = {u1, s1}
    Streaming = {s1}
    Workers = {w1}
    SyncThread = SyncThread
    None = None
    Async = TRUE
    LogOkResponse = TRUE
    Chain <- FullChain
    LanguageOf <- MCLanguageOf
    DefaultLanguage = en
    MaxItems = 2
SPECIFICATION Spec
CHECK_DEADLOCK FALSE
INVARIANTS
    AfterActionOnce
    AuditedOnce
PROPERTIES
    ContractSpec
