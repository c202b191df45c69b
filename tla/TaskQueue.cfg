SPECIFICATION Spec
CONSTANTS
    Tasks = {t1, t2}
    Sections = {decision}
    Decision = decision
    Clients = {c1, c2}
    NoTask = NoTask
    MayEndBlank = FALSE
    MaxEmits = 1
    MaxClock = 2
    MaxCrashes = 1
    MaxFaults = 1
SYMMETRY Symmetry
INVARIANTS
    TypeOK
    RunningIsExecuted
    NewsIsReadable
PROPERTIES
    ReportsStayGone
    NoClaimAfterStop
    ImplementsLifecycle
CHECK_DEADLOCK FALSE
