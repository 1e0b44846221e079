SPECIFICATION Spec
CONSTANTS
    Op = {o1}
    Slot = {t1, t2}
    MaxCards = 1
    MaxFence = 4
    MaxGen = 4
    MaxPolicy = 1
    MaxCrash = 0
    Answers <- RunnerAnswers
    Deadlines <- RunnerDeadlines
SYMMETRY Symmetry
\* A deleted or quarantined session may have no step left.
CHECK_DEADLOCK FALSE
PROPERTIES
    TerminalStays
