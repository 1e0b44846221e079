SPECIFICATION Spec
CONSTANTS
    Op = {o1, o2}
    Slot = {t1, t2}
    MaxCards = 1
    MaxFence = 4
    MaxGen = 2
    MaxPolicy = 1
    MaxCrash = 2
    Answers <- RunnerAnswers
    Deadlines <- RunnerDeadlines
SYMMETRY Symmetry
\* A deleted or quarantined session may have no step left.
CHECK_DEADLOCK FALSE
INVARIANTS
    TypeOK
    LeaseFenced
    AtMostOneEffect
    UncertainNamesOperation
PROPERTIES
    FenceAdvances
    ResultsAreFinal
    ErasedForGood
    UncertainInterlock
