SPECIFICATION MCSpec
CONSTANTS
    None = None
    p1 = p1
    p2 = p2
    h1 = h1
    h2 = h2
    e1 = e1
    e2 = e2
    n1 = n1
    w1 = w1
    w2 = w2
    c1 = c1
    c2 = c2
    Proc = {p1, p2}
    User = {1, 2, 3}
    Phone = {h1, h2}
    Email = {e1, e2}
    Name = {n1}
    Password = {w1, w2}
    Call = {c1, c2}
    MaxTries = 2
    MaxFaults = 1
    MaxTroubles = 2
INVARIANTS
    TypesOK
    AccountsWhole
    NoWaitCycle
    OnePassword
    ChecksHold
    PhoneFindsItsOwner
    RetriesAreSafe
    PassedOnlyAfterHandling
PROPERTY AnnouncedInTime
CHECK_DEADLOCK FALSE
