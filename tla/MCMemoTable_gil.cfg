SPECIFICATION MemoSpec
CONSTANTS
    k1 = k1
    k2 = k2
    Threads = {t1, t2}
    Keys = {k1, k2}
    Values = {v1}
    NaNKeys = {}
    Hash <- Collide
    Bounds <- Unbounded
    Start = 4
    Small = 4
    Callers = {"entry", "loop"}
    SameKey = TRUE
    MaxDepth = 1
    MaxUses = 3
    None = None
INVARIANTS
    CountsRight
CHECK_DEADLOCK FALSE
