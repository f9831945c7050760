\* As Migrate.cfg, with the message of emit_migrate as the invariant.
CONSTANTS
    NFiles = 3
    Crates <- TwoCrates
    CrateOf <- FirstTwoInA
    MaxEdits = 1
    Defs = {1, 2, 3}
    def <- MCDef
    Impls = {1, 2, 3}
    impl <- MCImpl
    NLeaks = 5
    leak <- MCLeak
    Literals = {1, 2}
    literal <- MCLiteral
    Imports = {1, 2}
    use <- MCUse
    Texts <- FileTexts
    CTX = 2
    MaxCells = 36
    NScaffolds = 2
    MaxRuns = 3
    MaxSaves = 3
SPECIFICATION MCSpec
INVARIANTS RestoredMeansAll
CHECK_DEADLOCK FALSE
