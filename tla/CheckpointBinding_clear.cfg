SPECIFICATION Spec
CONSTANTS
    Tasks = {t1, t2}
    Creds = {k1}
    None = None
    ClearMayFail = TRUE
    MaxCrashes = 2
    MaxEdits = 2
INVARIANT OwnStateOnly
CHECK_DEADLOCK FALSE
