\* Two schedulers sharing the thread-locals.  The overflow of clock + ms is
\* reached with a clock of three values.  run() may return: no deadlock.
CONSTANTS
    Scheds = {A, B}
    NoSched = NoSched
    MaxU64 = 2
    MaxTasks = 2
    MaxWakes = 1
    MaxRuns = 3
SPECIFICATION Spec
SYMMETRY Symmetry
INVARIANTS NoLostWakeup NoLostSleeper
PROPERTIES ImplementsExecutor
CHECK_DEADLOCK FALSE
