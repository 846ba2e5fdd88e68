SPECIFICATION MCSpec
CONSTANTS
    s1 = s1
    s2 = s2
    p1 = p1
    p2 = p2
    c1 = c1
    c2 = c2
    a = a
    b = b
    z = z
    Gone = Gone
    None = None
    Snippet = {s1, s2}
    Process = {p1, p2}
    Consumer = {c1, c2}
    Text = {a, b, z}
    Short = {z}
    Batch = 2
    MaxLen = 1
    MayPurge = TRUE
    MaxSaves = 3
    MaxFaults = 1
    MaxRestarts = 1
INVARIANTS
    TypeOK
    NothingLost
    StaleOnlyByOverlap
PROPERTY StartedWorkersPoll
CHECK_DEADLOCK FALSE
