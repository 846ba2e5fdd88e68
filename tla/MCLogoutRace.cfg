SPECIFICATION MonitorSpec
CONSTANTS
    p1 = p1
    p2 = p2
    s1 = s1
    t1 = t1
    t2 = t2
    None = None
    Proc = {p1, p2}
    Slot = {s1}
    Token = {t1, t2}
    MaxVersion = 0
    MaxLogins = 1
    MaxFaults = 0
    SlowHandlers = FALSE
SYMMETRY Symmetry
PROPERTY LogoutEndsTheSession
CHECK_DEADLOCK FALSE
