SPECIFICATION MemoSpec
CONSTANTS
    k1 = k1
    k2 = k2
    Threads = {t1}
    Keys = {k1, k2}
    Values = {v1}
    NaNKeys = {}
    Hash <- Collide
    Bounds <- AtMostTwo
    Start = 4
    Small = 4
    Callers = {"entry"}
    SameKey = TRUE
    MaxDepth = 2
    MaxUses = 4
    None = None
PROPERTIES
    AnswersAsLru
CHECK_DEADLOCK FALSE
