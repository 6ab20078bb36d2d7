SPECIFICATION Spec
CONSTANTS
    Surface = {s1, s2}
    Blocker = {b1, b2}
    Mortal = {}
    MaxId = 1
    Reentrant = FALSE
    s1 = s1
    s2 = s2
    b1 = b1
    b2 = b2
CHECK_DEADLOCK FALSE
PROPERTIES AppliedInOrder UnblockedLeaves
