SPECIFICATION Spec
CONSTANTS
    Gone = Gone
    None = None
    Snippet = {s1}
    Process = {p1}
    Consumer = {c1}
    Text = {a}
    Short = {}
    Batch = 1
    MaxLen = 2
    MayPurge = FALSE
    MaxSaves = 1
    MaxFaults = 0
    MaxRestarts = 1
INVARIANT RetriedAfterRestart
CHECK_DEADLOCK FALSE
