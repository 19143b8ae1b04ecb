SPECIFICATION Spec
CONSTANTS
    Fires = {f1, f2}
    OldKey = old
    SessionKeys <- MCNoKeys
    Leftover <- MCCorrupt
    None = None
    Corrupt = Corrupt
    Margin = 1
    Timeout = 1
    Lifetimes = {1, 3}
    MaxClock = 1
    MaxCrashes = 0
    MaxCancels = 0
    MaxMisreads = 0
    Scheduled = {f1, f2}
SYMMETRY Symmetry
INVARIANT HelperRunsOnlyOnce
CHECK_DEADLOCK FALSE
