SPECIFICATION MCSpec
CONSTANTS
    Tasks = {t1, t2}
    Sections = {decision}
    Decision = decision
    Clients = {c1}
    NoTask = NoTask
    MayEndBlank = FALSE
    MaxEmits = 1
    MaxClock = 2
    MaxCrashes = 1
    MaxFaults = 0
    First = t1
    sh = sh
    Exchanges = {sh}
    Threads <- MCThreads
    Readers = {r}
    Fresh = 1
    Usable = 2
    Retry = 1
    MaxVersions = 2
    None = None
INVARIANTS
    NoChildOutlivesStop
    AbsenceIsExplained
PROPERTIES
    TasksAreServed
    NewsNeverReverts
    ListsAreRenewed
CHECK_DEADLOCK FALSE
