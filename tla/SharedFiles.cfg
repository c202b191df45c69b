SPECIFICATION MCSpec
CONSTANTS
    Tasks = {t1, t2, t3}
    Creds = {k1, k2}
    None = None
    ClearMayFail = FALSE
    MaxCrashes = 2
    MaxEdits = 2
    Procs = {p}
    Tickers = {a, b}
    LastDay = 3
    Window = 1
    SameLimit = 1
    CrossLimit = 1
    MaxEntries = 1
    MaxRuns = 4
    Publishers = {r1, r2}
    Shas = {x, y, z}
    Keep = 2
    MaxBuilds = 3
SYMMETRY Symmetry
INVARIANTS
    TypesOK
    OwnStateOnly
    TagTellsOwner
    NoHindsight
    StableIsTested
PROPERTIES
    ResumeIsKept
    KeepsDecisions
    OnlyAnOvertakenCleanup
CHECK_DEADLOCK FALSE
