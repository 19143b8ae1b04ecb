SPECIFICATION Spec
CONSTANTS
    Fires = {f1, f2, f3}
    OldKey = old
    SessionKeys <- MCNoKeys
    Leftover <- MCLeft
    None = None
    Corrupt = Corrupt
    Margin = 1
    Timeout = 1
    Lifetimes = {2}
    MaxClock = 1
    MaxCrashes = 1
    MaxCancels = 1
    MaxMisreads = 1
    Scheduled = {f1, f2, f3}
SYMMETRY Symmetry
INVARIANT TypeOK
INVARIANT HelpersOverlapOnlyAfterKill
CHECK_DEADLOCK FALSE
