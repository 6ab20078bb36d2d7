SPECIFICATION TreeSpec
CONSTANTS
    Surface = {s1, s2, s3, s4}
    Subsurface = {o1, o2, o3}
    None = None
    SelfSibling = FALSE
    s1 = s1
    s2 = s2
    s3 = s3
    s4 = s4
    o1 = o1
    o2 = o2
    o3 = o3
SYMMETRY Symmetry
CHECK_DEADLOCK FALSE
INVARIANTS TreeTypeOK Acyclic LinksAgree NeverPanics
PROPERTIES PlacedNextTo
