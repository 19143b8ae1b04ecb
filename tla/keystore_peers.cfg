SPECIFICATION Spec
CONSTANTS
    Fires = {f1, f2, f3}
    OldKey = old
    SessionKeys <- MCNoKeys
    Leftover <- MCLeft
    None = None
    Corrupt = Corrupt
    Margin = 1
    Timeout = 1
    Lifetimes = {2}
    MaxClock = 2
    MaxCrashes = 0
    MaxCancels = 0
    MaxMisreads = 1
    Scheduled = {f1, f2, f3}
SYMMETRY Symmetry
INVARIANT RenewsOnlyWithoutUsable
INVARIANT HelperRunsOncePerEntry
INVARIANT RejectedNeverReturns
INVARIANT InUseIsCached
PROPERTY NeverClobbersUsable
PROPERTY FailsOnlyWithoutUsable
PROPERTY UsableLostOnlyToMisled
CHECK_DEADLOCK FALSE
