\* One, two and three threads: insert, delete, get, scan and vacuum.
CONSTANTS
    t1 = t1  t2 = t2  t3 = t3  Nil = Nil
    Threads = {t1, t2, t3}
    First = t1
    Plans = {"small", "deep", "pair", "root", "uneven", "mixed", "packed", "readers", "lonely", "empty"}
    Key = {1,2,3,4,5,6,7,8,9,10,11,12,13,14,15,16,17,18,19,20,21,22,23,24,25,26,27,31,32,33,34,35,36,37,38,39}
    RowSize <- MC_RowSize
    KeySize <- MC_KeySize
    PAGE_SIZE = 141
    MaxPages = 13
    Prologue <- MC_Prologue
    Menu <- MC_Menu
    Budget <- MC_Budget
SPECIFICATION Spec
INVARIANTS
    TypeOK
    EveryRowFound
    SpaceAccounted
    LeafChainMatchesTree
    NoPageTooEmpty
    ScanIsConsistent
    ReachedPageInUse
PROPERTIES
    NoPanic
    ImplementsKVMap
    PagesReadBack
    PagesInHandStay
    DroppedPageStays
CHECK_DEADLOCK FALSE
