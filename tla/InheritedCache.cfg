CONSTANTS
    Base = Base
    Derived = Derived
    m1 = m1
    m2 = m2
    r1 = r1
    r2 = r2
    r3 = r3
    w1 = w1
    w2 = w2
    None = None
    Services = {Base, Derived}
    Parent <- MCParent
    ModelOf <- OwnModel
    Processes = {p1}
    Calls = {r1, r2}
    ServiceOf <- MCServiceOf
    Saves = {w1}
    SavedModel <- SavesOfDerived
    Atomic = {}
SPECIFICATION Spec
CHECK_DEADLOCK FALSE
INVARIANT FreshAnswers
