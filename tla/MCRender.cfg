SPECIFICATION RenderSpec
CONSTANTS
    Element = {e1, e2}
    Target = {t1, t2}
    NoTarget = NoTarget
    Width = 2
    BagLimit = 1
    MaxHistory = 2
    MaxStack = 2
    MaxChanges = 3
    MaxFrames = 3
    Buffer = {b1, b2, b3, b4, b5}
    None = None
    SlotCap = 4
    MaxAge = 9
    Full = {"base", "top"}
    MaxUpdates = 2
    MaxPrepared = 4
    MaxSession = 1
    KeepHistory = 4
    Patient = TRUE
SYMMETRY Symmetry
CHECK_DEADLOCK FALSE
INVARIANTS RenderTypeOK FrameIsWhole ScreenShowsScene
 
