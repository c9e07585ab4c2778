CONSTANTS
    NULL = NULL
    Capacity = 2
    EndCapacity = 1
    ThreadFirst = TRUE
    Task = {"createPackFile", "loadData", "saveData"}
SPECIFICATION FairSpec
PROPERTIES OperationsEnd
