SPECIFICATION FairSpec
CONSTANTS
    Op = {o1}
    Slot = {t1, t2}
    MaxCards = 1
    MaxFence = 2
    MaxGen = 2
    MaxPolicy = 1
    MaxCrash = 0
    Answers <- RecoveryAnswers
    Deadlines <- RecoveryDeadlines
\* A deleted or quarantined session may have no step left.
CHECK_DEADLOCK FALSE
INVARIANT VerifyingIsDriven
PROPERTIES
    CooldownEnds
    HandoffEnds
