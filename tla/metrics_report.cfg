SPECIFICATION Spec
CONSTANTS
    w1 = w1
    w2 = w2
    w3 = w3
    first = first
    older = older
    e1 = e1
    e2 = e2
    o1 = o1
    Writers <- MCThree
    FirstFile = first
    FirstPrev = older
    OldEntries <- MCOld
    OlderEntries <- MCOlder
    MaxSize = 2
    None = None
SYMMETRY Symmetry
CHECK_DEADLOCK FALSE
INVARIANT TypeOK
INVARIANT CountsAtMostOnce
INVARIANT CompleteUnlessDisturbed
INVARIANT CutWriteCostsOne
PROPERTY LostWriteNeedsTwoRotations
