\* Inputs of 7 elements: chunk sizes 4, 3, 2 and 1, a last chunk shorter than the
\* others, and every deterministic predicate; and the ledger's schedules of eight
\* steps, seven of which carry a fault.  A schedule that does not fail is not
\* shrunk, and ddmin returns: no deadlock.
CONSTANTS
    N = 7
    STEPS = 8
    Faults <- LedgerFaults
SPECIFICATION LedgerSpec
INVARIANTS StillReproduces OneMinimal BlamesTheCrash
PROPERTIES FailuresAreShrunk
CHECK_DEADLOCK FALSE
