SPECIFICATION Spec
CONSTANTS
    Tasks = {t1}
    Sections = {decision, market}
    Decision = decision
    Clients = {c1}
    NoTask = NoTask
    MayEndBlank = TRUE
    MaxEmits = 2
    MaxClock = 1
    MaxCrashes = 2
    MaxFaults = 0
INVARIANT DecisionOfLastRun
CHECK_DEADLOCK FALSE
