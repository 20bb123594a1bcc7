\* Three threads while the root changes; every call ends.
CONSTANTS
    t1 = t1  t2 = t2  t3 = t3  Nil = Nil
    Threads = {t1, t2, t3}
    First = t1
    Plans = {"root"}
    Key = {1,2,3,4,5,6,7}
    RowSize <- MC_RowSize
    KeySize <- MC_KeySize
    PAGE_SIZE = 141
    MaxPages = 6
    Prologue <- MC_Prologue
    Menu <- MC_Menu
    Budget <- MC_Budget
SPECIFICATION FairSpec
INVARIANTS
    ReachedPageInUse
PROPERTIES
    OpsEnd
CHECK_DEADLOCK FALSE
