\* sem_try does not take the unit it reports (expected to fail).
CONSTANTS
    a = a
    b = b
    c = c
    x = x
    y = y
    NoPid = NoPid
    Procs = {a}
    Sems = {x, y}
    InitCount <- LockAndEmpty
    NSlots = 3
    Calls = {"wait", "inc", "try"}
    MaxCount = 2
SPECIFICATION SemSpec
PROPERTY TryTakesUnit
CHECK_DEADLOCK FALSE
