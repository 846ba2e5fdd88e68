SPECIFICATION MCSpec
CONSTANTS
    p1 = p1
    p2 = p2
    Top = Top
    New = New
    Dead = Dead
    Proc = {p1, p2}
    Group = {1, 2, 3}
    Snippet = {11}
    Rank = {1}
SYMMETRY Symmetry
INVARIANT TreeShowsAll
CHECK_DEADLOCK FALSE
