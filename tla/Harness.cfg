\* The example's own bounds; a counter and a cap up to two, over three steps.
\* Every schedule of up to four faults, two callers, one rewind: a client with nine
\* attempts outlasts both playings of any of them, one with two gives up on some.
\* Two files with up to three invariants and three macros, five in all, or four
\* where a file has an Invariant of its own; or one invariant, of any predicate.
\* A run is over once it is checked, or with its last step, or when the callers
\* have returned, or with its report: no deadlock.
CONSTANTS
    MaxReaderLead = 2
    MaxReaderGap = 3
    MaxWriterLead = 4
    MaxValue = 2
    MaxSteps = 3
    Callers = {c1, c2}
    Limits = {2, 9}
    MaxFaults = 4
    MaxResets = 1
    NFiles = 2
    Exprs <- Table
    Predicates <- AllPredicates
    Common <- TwoPredicates
    MaxMacroDepth = 2
    MaxLines = 3
    MaxMacros = 3
    MaxBoth = 5
SPECIFICATION MCSpec
INVARIANTS FencedNeverStale PlantedExactly OnlyTheSecondLags FaultsHitOnce ClearMeansOk ReviewExact
PROPERTIES ReportsAreExact EveryoneGetsThrough
CHECK_DEADLOCK FALSE
