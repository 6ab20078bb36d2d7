SPECIFICATION Spec
CONSTANTS
    Surface = {s1, s2, s3}
    Blocker = {b1}
    Mortal = {s1, s2, s3}
    MaxId = 1
    Reentrant = TRUE
    s1 = s1
    s2 = s2
    s3 = s3
    b1 = b1
SYMMETRY Symmetry
CHECK_DEADLOCK FALSE
INVARIANTS TypeOK BlockedStateNotApplied AllOrNothing
