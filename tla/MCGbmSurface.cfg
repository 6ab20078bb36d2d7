SPECIFICATION Spec
CONSTANTS
    Buffer = {b1, b2, b3, b4, b5}
    None = None
    SlotCap = 4
    MaxAge = 3
    b1 = b1
    b2 = b2
    b3 = b3
    b4 = b4
    b5 = b5
SYMMETRY Symmetry
INVARIANTS GbmTypeOK SlotsExclusive  AlwaysFreeSlot AgeIsTrue FramebufferPresent EventComing
