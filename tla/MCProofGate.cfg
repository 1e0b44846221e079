SPECIFICATION Spec
CONSTANTS
    Caller = {c1, c2}
    Relay = {r1, r2}
    Skew = 2
    Retention = 4
    RateWindow = 1
    RateMax = 2
    MaxTime = 5
SYMMETRY Symmetry
\* The clock stops at the bound.
CHECK_DEADLOCK FALSE
INVARIANTS AcceptedOnce RateBounded RetryAtIsHonoured
