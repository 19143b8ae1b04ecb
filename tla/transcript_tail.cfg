SPECIFICATION FairSpec
CONSTANTS
    Size <- MCSize
    InitialTail = 3
    GrowthFactor = 2
    MaxTail = 8
    MaxUserMessages = 2
    MaxToolCalls = 2
    Starts <- MCStarts
    MaxLines = 1
    MaxShrinks = 1
INVARIANT TypeOK
INVARIANT LatestWithoutGap
INVARIANT MissesOnlyTheFar
PROPERTY WindowGrows
PROPERTY LoadEnds
CHECK_DEADLOCK FALSE
