\* Two guards and a flusher over three pages and two frames.
CONSTANTS
    c1 = c1  c2 = c2  t1 = t1
    p1 = p1  p2 = p2  p3 = p3  q1 = q1
    Clients = {c1, c2}
    Flushers = {t1}
    PageIds <- MC_Pages
    Offsets <- MC_Offsets
    OffsetOf <- MC_OffsetOf
    InitialPages <- MC_Initial
    PoolSize = 2
    MaxVersion = 2
    MaxPins = 3
    None = None
SYMMETRY ClientSymmetry
SPECIFICATION Spec
INVARIANTS
    TypeOK
    MappedFrameHoldsItsPage
    GuardKeepsItsPage
    PinsMatchGuards
    LatchInsidePin
    CleanFrameMatchesDisk
    FlushCoversItsStart
    CloseLeavesNothingDirty
PROPERTIES
    ImplementsPageStore
    DiskNeverRegresses
CHECK_DEADLOCK FALSE
