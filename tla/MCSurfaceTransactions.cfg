SPECIFICATION ChainSpec
CONSTANTS
    Surface = {s1, s2, s3}
    Subsurface = {o1, o2}
    Blocker = {b1}
    None = None
    SelfSibling = FALSE
    MaxId = 3
    Edited = {s3}
    MaxEdit = 1
    MaxCommit = 4
    MaxChange = 2
    Reentrant = FALSE
    Orderly = TRUE
    Root = s1
    Middle = s2
    Leaf = s3
    OfMiddle = o1
    OfLeaf = o2
    s1 = s1
    s2 = s2
    s3 = s3
    o1 = o1
    o2 = o2
    b1 = b1
CHECK_DEADLOCK FALSE
INVARIANTS SyncTypeOK ParkedStateHidden BlockersRespected
PROPERTIES ImplementsQueue
