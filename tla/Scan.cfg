\* Files of up to four lines: enough for a function that ends before another, or
\* around a nested one, with a local of the same name in both.  Two findings, of
\* snippets with up to five characters.  Reports of two findings, with every short
\* name and snippet of the characters that matter.  A limit of three and eight
\* brackets: room to go over it, come back, and to hide two levels behind closing
\* brackets in text.  Two files in src and one in target, two fingerprints, of high
\* and advisory confidence; commands and edits go on forever.  A file and a report
\* end: no deadlock.
CONSTANTS
    Items <- SomeItems
    Renames <- SomeRenames
    Exprs <- SomeExprs
    Inits <- SomeInits
    Idents = {"m"}
    FnNames = {"f"}
    MaxLines = 4
    Calls <- MCCalls
    Rules <- MCRules
    Fns <- MCFns
    Fronts <- MCFronts
    CAP = 5
    Paths <- FileNames
    Snippets <- Quotes
    Levels = {"error", "warning"}
    MAX_NESTING_DEPTH = 3
    MaxBrackets = 8
    high = high
    low = low
    src = src
    target = target
    NFiles = 3
    Dirs = {src, target}
    Skipped = {target}
    dir <- MCDir
    Prints = {high, low}
    Confidence <- MCConfidence
    Contents <- MCContents
    MaxLeaks = 2
    MaxMacroDepth = 1
SPECIFICATION MCSpec
INVARIANTS FindingsExact OneAnnotationEach WrongByTextOnly DeniesExactlyNew GreenInvariantsAssert
PROPERTIES IdentityIsStable
CHECK_DEADLOCK FALSE
