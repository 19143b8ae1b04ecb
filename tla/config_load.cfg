SPECIFICATION Spec
CONSTANTS
    Contents <- MCContents
    Embedded <- MCEmbedded
    DefaultBlock <- MCDefaultBlock
    DefaultPath = "default"
    Paths = {"default", "p"}
    Rules = {"base", "extra", "own", "more"}
    None = None
    Bad = Bad
    MaxEdits = 2
INVARIANT TypeOK
INVARIANT LastLayerWins
INVARIANT ListsCompose
INVARIANT LayersInOrder
INVARIANT KillSwitchIsTheUsers
 
INVARIANT UntouchedFilesCount
CHECK_DEADLOCK FALSE
