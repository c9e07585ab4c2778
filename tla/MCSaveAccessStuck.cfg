CONSTANTS
    NULL = NULL
    Capacity = 2
    EndCapacity = 1
    ThreadFirst = FALSE
    Task = {"existNandMemory", "createPackFile", "saveData"}
SPECIFICATION Spec
INVARIANTS NandAccessHappening
