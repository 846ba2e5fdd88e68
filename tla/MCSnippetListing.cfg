SPECIFICATION ListSpec
CONSTANTS
    p1 = p1
    g1 = g1
    a = a
    None = None
    Inbox = Inbox
    Proc = {p1}
    Snippet = {1, 2, 3}
    Group = {g1}
    Text = {a}
    Order = {0}
    MaxRequests = 2
    MaxTime = 1
    Limit = 1
    MaxWalks = 1
INVARIANTS
    PageOnce
CHECK_DEADLOCK FALSE
