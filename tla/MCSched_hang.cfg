\* Tasks left asleep when the scheduler says all procs ended (expected to fail).
CONSTANTS
    NProc = 4
    Nice = 2
    NiceArgs <- WithinRange
    MaxTicks = 1
    MaxTasks = 4
SPECIFICATION Spec
INVARIANT EndedWhenHalted
CHECK_DEADLOCK FALSE
