SPECIFICATION Spec
CONSTANTS
    Written <- SomeEvents
    Limit = 2
    Window = 2
    MaxLen = 3
    MaxStarts = 2
    MaxDamage = 1
    MaxEdits = 1
CHECK_DEADLOCK FALSE
INVARIANTS
    VerdictIsRight
PROPERTIES
    ExportIsWhole
    EndedLogIsChecked
