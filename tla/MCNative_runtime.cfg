SPECIFICATION NativeSpec
CONSTANTS
    k1 = k1
    k2 = k2
    k3 = k3
    k4 = k4
    Threads = {t1, t2}
    Keys = {k1, k2, k3, k4}
    Values = {v1, v2}
    NaNKeys = {k4}
    Hash <- Collide
    Bounds <- TableBounds
    Start = 1
    Small = 4
    Callers = {"entry"}
    SameKey = FALSE
    MaxDepth = 2
    MaxUses = 6
    None = None
    Width = 2
    BlockSize = 3
    Grid = 2
    Kernels <- KernelsRun
    MaxFails = 2
    Objects = {o1, o2}
    Handles = {h1, h2, h3}
    Workers = {w1, w2}
    Numbers = {1, 2}
    Odd = Odd
    PurgeAt = 1
    Faults = {"memory", "odd"}
    MaxPython = 2
    MaxStores = 2
    MaxCalls = 2
    Null = Null
INVARIANTS
    NativeTypeOK
    Findable
    ShufflesTrade
    NoneLeftWaiting
    Coherent
    NativeSeesPython
    NothingFreedIsNamed
PROPERTIES
    AnswersAsLru
CHECK_DEADLOCK FALSE
