SPECIFICATION FairSpec
CONSTANTS
    Call = {c1}
    Flusher = {f1}
    Capture = {s1, s2}
    None = None
    MaxGen = 3
    MaxFaults = 1
    ProofBinds = FALSE
\* A deleted session with nothing queued and no fault left has no step.
CHECK_DEADLOCK FALSE
INVARIANTS
    SyncedIsStored
    ErasedStaysErased
    TombstoneFits
PROPERTIES
    DeletionReachesVault
