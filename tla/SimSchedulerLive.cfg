\* One scheduler, three tasks: the smallest instance in which one task can be
\* overtaken by two others that yield forever.
CONSTANTS
    Scheds = {A}
    NoSched = NoSched
    MaxU64 = 2
    MaxTasks = 3
    MaxWakes = 1
    MaxRuns = 1
SPECIFICATION OrderSpec
PROPERTIES NoStarvation SleeperResumes YieldGoesBehind SleepersWakeInOrder
CHECK_DEADLOCK FALSE
