SPECIFICATION Spec
CONSTANTS
    Fires = {f1, f2, f3}
    OldKey = old
    SessionKeys <- MCOldKey
    Leftover <- MCHealthy
    None = None
    Corrupt = Corrupt
    Margin = 1
    Timeout = 1
    Lifetimes = {1, 3}
    MaxClock = 3
    MaxCrashes = 0
    MaxCancels = 0
    MaxMisreads = 0
    Scheduled = {f1, f2, f3}
SYMMETRY Symmetry
PROPERTY NextFireRunsHelper
CHECK_DEADLOCK FALSE
