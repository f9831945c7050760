\* A byte of 16 values, of which the variant bits leave 4; two words, so that
\* draws repeat.  Two tasks; a 3-bit clock that starts below zero (now - start
\* saturates), Instants that overflow before the clock does, durations that fit,
\* that make now + d overflow, and that are truncated.  A sleeper whose deadline
\* never comes waits forever, and the stream may be used up: no deadlock.
CONSTANTS
    Threads = {t1, t2}
    Nobody = Nobody
    Words = {w1, w2}
    Low = 4
    Byte = 16
    MaxDraws = 5
    Tasks = {t1, t2}
    MaxI = 3
    StartMs <- BelowZero
    MaxInstant = 2
    Durations = {0, 2, 9}
    MaxChanges = 2
SPECIFICATION MCSpec
INVARIANTS PairedInOrder DistinctNearby
PROPERTIES InstantMonotonic SleepersReturn
CHECK_DEADLOCK FALSE
