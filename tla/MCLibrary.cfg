SPECIFICATION MCSpec
CONSTANTS
    None = None
    t1 = t1
    Proc = {p1, p2}
    Snippet = {1, 2, 3}
    Tag = {t1, t2}
    MaxShares = 2
    MaxTemplates = 2
    MaxRequests = 3
    MaxFaults = 1
INVARIANTS
    TypesOK
    OneLinkPerSnippet
    LinksNeverDangle
    CountsExact
    SeededOnce
    TagsAsSet
SYMMETRY Symmetry
CHECK_DEADLOCK FALSE
