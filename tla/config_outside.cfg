SPECIFICATION Spec
CONSTANTS
    Contents <- MCContents
    Embedded <- MCEmbedded
    DefaultBlock <- MCDefaultBlock
    DefaultPath = "default"
    Paths = {"default", "p"}
    Rules = {"base", "extra", "own", "more"}
    None = None
    Bad = Bad
    MaxEdits = 0
INVARIANT OutsideUsesCwd
CHECK_DEADLOCK FALSE
