\* One file, two threads, errors up to the rename, kill and crash.
CONSTANTS
    a = a  b = b  r1 = r1  r2 = r2  None = None  i1 = i1  i2 = i2
    Threads = {a, b}
    Row = {r1, r2}
    Inode = {i1, i2}
    Page = {0, 1, 2}
    Home <- MC_Home
    RenameSettles = TRUE
    MayFail = {"write", "sync", "create", "rename"}
SPECIFICATION Spec
SYMMETRY Symmetry
INVARIANTS
    TypeOK
    SavedRowsSurvive
    FileIsWhole
    InsertedRowsFound
PROPERTIES
    ImplementsDurableTable
CHECK_DEADLOCK FALSE
