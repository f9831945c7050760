\* As Scan.cfg, with the comment on exit code 2 as the invariant.
CONSTANTS
    Items <- SomeItems
    Renames <- SomeRenames
    Exprs <- SomeExprs
    Inits <- SomeInits
    Idents = {"m"}
    FnNames = {"f"}
    MaxLines = 4
    Calls <- MCCalls
    Rules <- MCRules
    Fns <- MCFns
    Fronts <- MCFronts
    CAP = 5
    Paths <- FileNames
    Snippets <- Quotes
    Levels = {"error", "warning"}
    MAX_NESTING_DEPTH = 3
    MaxBrackets = 8
    high = high
    low = low
    src = src
    target = target
    NFiles = 3
    Dirs = {src, target}
    Skipped = {target}
    dir <- MCDir
    Prints = {high, low}
    Confidence <- MCConfidence
    Contents <- MCContents
    MaxLeaks = 2
    MaxMacroDepth = 1
SPECIFICATION MCSpec
INVARIANTS GreenMeansSeen
CHECK_DEADLOCK FALSE
