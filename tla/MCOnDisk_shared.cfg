SPECIFICATION OnDiskSpec
CONSTANTS
    Procs = {p1, p2}
    Modules = {m1}
    Files = {f1, f2}
    MaxCommands = 2
    Attempts = 2
    Aging = TRUE
    Faults = {"busy", "full", "damage", "crash"}
    Imports <- NoImports
    None = None
    Runners = {run1, import1}
    Importers = {import1}
    Texts = {t1, t2, t3}
    Confs = {c1, c2}
    JitTexts = {t3}
    LightTexts = {t1}
    Granule = 2
    RacyWindow = 2
    Unguarded = {}
    MaxTime = 4
    MaxRuns = 2
    MaxEdits = 2
    Unset = Unset
SYMMETRY Symmetric
INVARIANTS
    OnDiskTypeOK
    WholeAnswers
    RowsBacked
    SharedIndex
    EntryKept
    RunsWhatIsThere
    IndexTruthful
CHECK_DEADLOCK FALSE
