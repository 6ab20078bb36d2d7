SPECIFICATION Spec
CONSTANTS
    Surface = {s1, s2}
    Blocker = {b1}
    Mortal = {}
    MaxId = 1
    Reentrant = FALSE
    s1 = s1
    s2 = s2
    b1 = b1
SYMMETRY Symmetry
CHECK_DEADLOCK FALSE
INVARIANTS CancelledIsDiscarded
