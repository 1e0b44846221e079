SPECIFICATION Spec
CONSTANTS
    Op = {}
    Slot = {t1, t2}
    MaxCards = 2
    MaxFence = 2
    MaxGen = 2
    MaxPolicy = 2
    MaxCrash = 0
    Answers <- HandoffAnswers
    Deadlines <- HandoffDeadlines
SYMMETRY Symmetry
\* A deleted or quarantined session may have no step left.
CHECK_DEADLOCK FALSE
INVARIANTS
    WaitHasCard
    SnapshotNotAhead
PROPERTIES
    QuietTerminalStays
