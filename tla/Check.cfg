\* Up to three runs, among them runs with outputs that are ignored or not
\* terminated; two runs of up to four bytes with every line end, or of up to four
\* lines of two kinds, where more than nine cells or three lines on a side are
\* too large for the full diff.  Pipes of one byte and up to two bytes for each,
\* so that a writer blocks.  A check is over when it exits, a run when run_once
\* returns: no deadlock.
CONSTANTS
    Commands = {"small", "ends", "long"}
    Outputs <- MCOutputs
    Errors <- MCErrors
    Statuses <- MCStatuses
    Runs <- MCRuns
    Killed = "signal"
    MaxCells = 9
    MaxLines = 3
    Cap = 1
    MaxBytes = 2
SPECIFICATION MCSpec
INVARIANTS ResultsAreWhole ExitIsRight OutputIsExact
PROPERTIES ReturnsInTime
CHECK_DEADLOCK FALSE
