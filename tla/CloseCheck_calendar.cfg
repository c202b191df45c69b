SPECIFICATION Spec
CONSTANTS
    Plans = {p}
    Clients = {c}
    None = None
    TradingDays = {1, 2, 3}
    Weekend = {4}
    Coverage = {2}
    LastDay = 4
    SlotsPerDay = 2
    MaxClock = 7
    MaxChecks = 1
    MaxManual = 1
    MaxExits = 0
    MaxFaults = 0
    MaxEdits = 0
    MaxTogether = 0
INVARIANT TargetIsLatest
CHECK_DEADLOCK FALSE
