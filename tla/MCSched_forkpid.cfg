\* A tick between unblocking and return next->pid (expected to fail).
CONSTANTS
    NProc = 4
    Nice = 2
    NiceArgs <- WithinRange
    MaxTicks = 3
    MaxTasks = 4
SPECIFICATION Spec
INVARIANT ForkReturnsChild
CHECK_DEADLOCK FALSE
