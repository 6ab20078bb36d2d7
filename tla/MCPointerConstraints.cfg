SPECIFICATION DesktopSpec
CONSTANTS
    None = None
    c1 = c1
    c2 = c2
    p1 = p1
    p2 = p2
    b1 = b1
    b2 = b2
    k1 = k1
    k2 = k2
    v1 = v1
    v2 = v2
    o1 = o1
    Key = {k1, k2}
    Source = {v1, v2}
    Client = {c1, c2}
    PtrSurface <- MCSurface
    Button = {b1, b2}
    Constraint = {o1, o2}
    Popup = {p1, p2}
    Root = Root
    Other = Other
    MaxSerial = 3
    ReuseSerials = FALSE
    SelObject <- MCObject
    Compositor = Compositor
    Unsent = Unsent
    Flag = {reactive}
    Reactive = reactive
    MaxConfigures = 3
    MaxCommits = 2
    ReuseXdgSurface = FALSE
    NoConfigure = NoConfigure
    NoState = NoState
    reactive = reactive
CHECK_DEADLOCK FALSE
PROPERTIES OnlyOwnConstraintDestroyed
