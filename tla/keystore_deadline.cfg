SPECIFICATION FairSpec
CONSTANTS
    Fires = {f1, f2}
    OldKey = old
    SessionKeys <- MCNoKeys
    Leftover <- MCLeft
    None = None
    Corrupt = Corrupt
    Margin = 1
    Timeout = 1
    Lifetimes = {1, 2}
    MaxClock = 2
    MaxCrashes = 1
    MaxCancels = 1
    MaxMisreads = 1
    Scheduled = {f1}
PROPERTY ImplementsService
PROPERTY EveryFireResolves
CHECK_DEADLOCK FALSE
