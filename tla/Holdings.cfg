SPECIFICATION MCSpec
CONSTANTS
    a = a
    Plans = {p, q}
    Symbols = {a, b}
    Pages = {g}
    SymbolOf <- MCSymbolOf
    Contents <- MCContents
    Prices = {1, 2}
    Dates = {1, 2}
    Errors = {missing}
    StockLimit = 1
    MaxRevision = 2
    None = None
    Clients = {c}
    Observed = {o, n}
    TradingDays = {1, 3}
    Weekend = {}
    Coverage = {1, 3}
    LastDay = 3
    SlotsPerDay = 2
    MaxClock = 5
    MaxChecks = 2
    MaxManual = 1
    MaxExits = 1
    MaxFaults = 1
    MaxEdits = 1
    MaxTogether = 3
SYMMETRY Symmetry
INVARIANTS
    TargetIsLatest
    LatestIsHeld
    OverviewIsOfItsPlans
PROPERTIES
    AutomaticKeepsItsDay
    NoVerdictFromKilledFetches
    EditsBuildOnWhatWasSeen
CHECK_DEADLOCK FALSE
