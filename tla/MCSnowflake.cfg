SPECIFICATION Spec
CONSTANTS
    Width = 3
    Nodes = 2
    Node = 0
    Epoch = 2
    MaxTime = 5
    MaxIds = 7
    MaxBack = 2
    MaxRestarts = 1
INVARIANTS
    CarriesNode
    IncreasingUnlessForgotten
CHECK_DEADLOCK FALSE
