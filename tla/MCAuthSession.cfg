SPECIFICATION MCSpec
CONSTANTS
    p1 = p1
    p2 = p2
    s1 = s1
    s2 = s2
    t1 = t1
    t2 = t2
    t3 = t3
    None = None
    Proc = {p1, p2}
    Slot = {s1, s2}
    Token = {t1, t2, t3}
    MaxVersion = 1
    MaxLogins = 1
    MaxFaults = 1
    SlowHandlers = FALSE
SYMMETRY Symmetry
INVARIANTS
    TypeOK
    LogoutAllIsFinal
    LogoutHitsItsDevice
    OldPasswordOnlyByOverlap
    OneSuccessor
PROPERTY ContractSpec
CHECK_DEADLOCK FALSE
