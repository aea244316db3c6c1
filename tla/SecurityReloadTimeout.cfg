SPECIFICATION ReloadSpec
CHECK_DEADLOCK FALSE
CONSTANTS
    Callers = {c1}
    Main = c1
    Sessions = {}
    Keys = {k1}
    MaxReloads = 2
    Timeouts = TRUE
INVARIANT FailedReloadKeepsPrevious
