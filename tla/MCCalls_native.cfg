SPECIFICATION CallSpec
CONSTANTS
    Functions = {"outer", "inner"}
    Blocks = {1, 2}
    Programs <- SmallPrograms
    Streams = {"out", "err"}
    MaxPrinted = 2
    MaxDepth = 4
    MaxFaults = 1
    Handles = {h1, h2, h3, s1}
    Holders = {h1, h2, h3}
    Maps = {h1}
    Width = 1
    Threshold = 2
    MaxNames = 2
    Null = Null
SYMMETRY Symmetric
INVARIANTS
    TypeOK
    OutputOnce
    HeldOnlyByNative
    CrossedTold
    NeverBackAfterBarrier
    HeapTypeOK
    CountsExact
    NothingDangles
    FreedAtOnce
PROPERTIES
    GarbageExact
