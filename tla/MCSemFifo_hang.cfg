\* One writer, one item: a run that hangs (expected to fail).
CONSTANTS
    r = r
    v = v
    w = w
    NoPid = NoPid
    Procs = {r, w}
    Writers = {w}
    Reader = r
    NumElems = 1
    BufSize = 1
    UIntMod = 2
    Sems = {"access", "write", "read"}
    InitCount <- FifoCounts
    NSlots = 2
    Calls = {"wait", "inc"}
    MaxCount = 1
SPECIFICATION FairSpec
PROPERTY RunToCompletion
CHECK_DEADLOCK FALSE
