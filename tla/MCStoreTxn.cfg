SPECIFICATION Spec
CONSTANTS
    MaxRows = 3
    MaxFail = 3
    MaxLives = 2
\* The bounds on rows, failures and lives stop the system.
CHECK_DEADLOCK FALSE
INVARIANT AckedIsDurable
PROPERTY AtomicWhileSound
