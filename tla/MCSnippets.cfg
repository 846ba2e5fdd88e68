SPECIFICATION Spec
CONSTANTS
    p1 = p1
    p2 = p2
    s1 = s1
    s2 = s2
    g1 = g1
    a = a
    b = b
    None = None
    Inbox = Inbox
    Proc = {p1, p2}
    Snippet = {s1, s2}
    Group = {g1}
    Text = {a, b}
    Order = {0}
    MaxRequests = 4
    MaxTime = 1
SYMMETRY Symmetry
INVARIANTS
    TypeOK
    EditsSurvive
    TrashAsTold
    AppendsAtEnd
CHECK_DEADLOCK FALSE
