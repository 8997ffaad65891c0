\* Three pids and four tasks, so that pids are used again, with nice values.
CONSTANTS
    NProc = 4
    Nice = 2
    NiceArgs <- BeyondRange
    MaxTicks = 3
    MaxTasks = 4
SPECIFICATION Spec
INVARIANTS
    OneRunning
    SlotInRange
    PriorityFresh
    SleeperSound
    ExitCodesKept
    ReapedByMother
    EndedWhenGenuine
CHECK_DEADLOCK FALSE
