\* Two tables behind one frame: every fetch evicts or meets the wrong page; progress, no symmetry.
CONSTANTS
    c1 = c1  c2 = c2  t1 = t1
    p1 = p1  p2 = p2  p3 = p3  q1 = q1
    Clients = {c1, c2}
    Flushers = {t1}
    PageIds <- MC_TwoTablePages
    Offsets <- MC_TwoTableOffsets
    OffsetOf <- MC_TwoTableOffsetOf
    InitialPages <- MC_TwoTableInitial
    PoolSize = 1
    MaxVersion = 2
    MaxPins = 3
    None = None
SPECIFICATION FairSpec
PROPERTIES
    OnlyWrongPageKeepsAPin
    CallsReturn
    WriterGetsLatch
    FlushReturns
CHECK_DEADLOCK FALSE
