\* Three files, two of them in one crate.  Five calls, two of them in the arguments
\* of a third; two literals, one of them there too and one with a base; one use
\* item per file.  Diffs of up to six lines, two of them context, and of one of
\* seven lines, whose diff with a file of six is too large.  Two files to write,
\* three runs of `init`, three saves.  All of these end: no deadlock.
CONSTANTS
    NFiles = 3
    Crates <- TwoCrates
    CrateOf <- FirstTwoInA
    MaxEdits = 1
    Defs = {1, 2, 3}
    def <- MCDef
    Impls = {1, 2, 3}
    impl <- MCImpl
    NLeaks = 5
    leak <- MCLeak
    Literals = {1, 2}
    literal <- MCLiteral
    Imports = {1, 2}
    use <- MCUse
    Texts <- FileTexts
    CTX = 2
    MaxCells = 36
    NScaffolds = 2
    MaxRuns = 3
    MaxSaves = 3
SPECIFICATION MCSpec
INVARIANTS FailureRestores SuccessIsChecked PlanComplete PatchGivesNew
PROPERTIES EndsReported ScaffoldsSafely
CHECK_DEADLOCK FALSE
