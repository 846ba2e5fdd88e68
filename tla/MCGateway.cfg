SPECIFICATION MCSpec
CONSTANTS
    Caller = {a, b, g, h}
    Gateway = {g, h}
    Limit = 2
    Window = 3
    MaxLate = 1
    Buckets = 2
    Slice = 2
    MaxRunning = 1
    MaxPanics = 2
    Services = 2
INVARIANTS
    LimiterPromise
    StopIsTold
PROPERTY ServedAgain
