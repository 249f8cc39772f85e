SPECIFICATION Spec
CONSTANTS
    Fetches = {f1, f2}
    NoFetch = NoFetch
    MaxRecords = 2
    MaxBatches = 1
    MaxTime = 1
SYMMETRY MCSymmetry
INVARIANTS
    TypeOK
PROPERTIES
    NeverOlder
    RefreshReflected
    UsesStoreUnderLock
    ObservationCoversAccepted
