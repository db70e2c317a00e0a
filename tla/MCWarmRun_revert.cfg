SPECIFICATION WarmSpec
CONSTANTS
    Runners = {run1, import1}
    Importers = {import1}
    Texts = {t1, t2}
    Confs = {c1}
    JitTexts = {}
    LightTexts = {}
    Granule = 2
    RacyWindow = 2
    Unguarded = {"key"}
    MaxTime = 2
    MaxRuns = 2
    MaxEdits = 2
    Unset = Unset
INVARIANTS
    RunsWhatIsThere
CHECK_DEADLOCK FALSE
