SPECIFICATION FairSpec
CONSTANTS
    Tasks = {t}
    Task = t
    Sections = {}
    MaxLog = 2
    MaxDrops = 1
    MaxErrors = 1
INVARIANTS
    ViewIsFresh
PROPERTIES
    NoEventSkipped
    ClosesComplete
    DeliveredPromptly
    EndIsShown
CHECK_DEADLOCK FALSE
