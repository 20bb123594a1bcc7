\* The expect message of load_page and new_page, with a flush_all running.
CONSTANTS
    c1 = c1  c2 = c2  t1 = t1
    p1 = p1  p2 = p2  p3 = p3  q1 = q1
    Clients = {c1, c2}
    Flushers = {t1}
    PageIds <- MC_Pages
    Offsets <- MC_Offsets
    OffsetOf <- MC_OffsetOf
    InitialPages <- MC_Initial
    PoolSize = 2
    MaxVersion = 2
    MaxPins = 3
    None = None
SPECIFICATION Spec
INVARIANTS
    ClaimedFrameHasNoReaders
CHECK_DEADLOCK FALSE
