\* A borrow below a full parent fails half way.
CONSTANTS
    t1 = t1  t2 = t2  t3 = t3  Nil = Nil
    Threads = {t1, t2, t3}
    First = t1
    Plans = {"large"}
    Key = {1,2,3,4,5,6,7,8,9,10,11,12,13,14}
    RowSize <- MC_RowSize
    KeySize <- LargeKeys
    PAGE_SIZE = 141
    MaxPages = 9
    Prologue <- MC_Prologue
    Menu <- MC_Menu
    Budget <- MC_Budget
SPECIFICATION Spec
INVARIANTS
    EveryRowFound
CHECK_DEADLOCK FALSE
