SPECIFICATION DedupSpec
CONSTANTS
    Id = {i1, i2}
    Slot = {t1, t2, t3}
    MaxRuns = 3
    MaxCrash = 2
SYMMETRY Symmetry
\* The bounds, and the end of the session, stop the calls.
CHECK_DEADLOCK FALSE
INVARIANTS OncePerWindow PendingIsDriven
PROPERTIES AnswersAreFinal
