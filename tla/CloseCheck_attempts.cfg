SPECIFICATION FairSpec
CONSTANTS
    Plans = {p}
    Clients = {c}
    None = None
    TradingDays = {1, 2}
    Weekend = {}
    Coverage = {2}
    LastDay = 2
    SlotsPerDay = 5
    MaxClock = 4
    MaxChecks = 4
    MaxManual = 1
    MaxExits = 1
    MaxFaults = 1
    MaxEdits = 1
    MaxTogether = 1
INVARIANTS
    AttemptsPaced
PROPERTIES
    NoneAfterSuccess
    CheckSettles
CHECK_DEADLOCK FALSE
