\* Two writers of two items each, a ring of two places, indices that wrap at 4,
\* fair scheduling.
CONSTANTS
    r = r
    v = v
    w = w
    NoPid = NoPid
    Procs = {r, v, w}
    Writers = {v, w}
    Reader = r
    NumElems = 2
    BufSize = 2
    UIntMod = 4
    Sems = {"access", "write", "read"}
    InitCount <- FifoCounts
    NSlots = 3
    Calls = {"wait", "inc"}
    MaxCount = 1
SPECIFICATION FairSpec
INVARIANTS
    PlacesConserved
    StreamsIntact
CHECK_DEADLOCK FALSE
PROPERTIES
    RefinesQueue
    FinishedOrStranded
