\* A search between the halves of a root being split misses a row.
CONSTANTS
    t1 = t1  t2 = t2  t3 = t3  Nil = Nil
    Threads = {t1, t2, t3}
    First = t1
    Plans = {"window"}
    Key = {1,2,3,4,5,6,7,8,9,10,11,12,13,14}
    RowSize <- MC_RowSize
    KeySize <- MC_KeySize
    PAGE_SIZE = 141
    MaxPages = 10
    Prologue <- MC_Prologue
    Menu <- MC_Menu
    Budget <- MC_Budget
SPECIFICATION Spec
PROPERTIES
    ImplementsKVMap
CHECK_DEADLOCK FALSE
