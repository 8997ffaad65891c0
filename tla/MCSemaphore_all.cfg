\* Three processes, two semaphores, every operation; two slots, so that the
\* table of sleepers can be full.
CONSTANTS
    a = a
    b = b
    c = c
    x = x
    y = y
    NoPid = NoPid
    Procs = {a, b, c}
    Sems = {x, y}
    InitCount <- LockAndEmpty
    NSlots = 2
    Calls = {"wait", "inc", "try"}
    MaxCount = 1
SPECIFICATION SemSpec
SYMMETRY ProcSymmetry
INVARIANTS
    LockExclusion
    SignalDiscipline
    NoUnitWhileRegistered
    HelpNeedsCrowd
PROPERTIES
    StrandedForever
    Refines
CHECK_DEADLOCK FALSE
