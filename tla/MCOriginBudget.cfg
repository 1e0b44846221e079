SPECIFICATION Spec
CONSTANTS
    Site = {a, b}
    Answers <- MCAnswers
    ChallengeBase = 1
    RateBase = 1
    NetworkBase = 0
    MaxRetryDelay = 2
    MaxServerWait = 3
    MaxSafe = 100
    Second = 2
    ProbeWindow = 1
    HandoffWindow = 2
    BlockFreeReset = 1
    PROBE_MAX = 2
    HANDOFF_MAX = 2
    MaxTime = 2
    MaxActing = 1
SYMMETRY Symmetry
VIEW Read
INVARIANTS
    ProbesBounded
    CardsBounded
    IncidentBounded
PROPERTIES
    AskedIsHonoured
    ReviewHolds
