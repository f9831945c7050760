\* The predicates of Harness.cfg, one at a time: a statement macro is in front of
\* || true in some.  A behaviour ends with its report: no deadlock.
CONSTANTS
    MaxReaderLead = 0
    MaxReaderGap = 1
    MaxWriterLead = 0
    MaxValue = 1
    MaxSteps = 1
    Callers = {c1, c2}
    Limits = {2, 9}
    MaxFaults = 0
    MaxResets = 0
    NFiles = 1
    Exprs <- Table
    Predicates <- AllPredicates
    Common <- TwoPredicates
    MaxMacroDepth = 2
    MaxLines = 1
    MaxMacros = 1
    MaxBoth = 1
SPECIFICATION MCSpec
INVARIANTS NoMacroIsPure
CHECK_DEADLOCK FALSE
