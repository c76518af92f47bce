SPECIFICATION Spec
CONSTANTS
    NumEvents = 3
    u1 = u1
    u2 = u2
    URIs = {u1, u2}
    NoUri = NoUri
    UriOf <- MCUriOf
    Terminal = {"unusable", "success"}
    Workers = {w1, w2}
    ScanLimit = 2
    RankLimit = 1
    MaxCopies = 1
    MaxFaults = 1
SYMMETRY WorkerSymmetry
INVARIANTS
    ScanCursorCovers
    RankBehindResolution
    CheckpointCovers
PROPERTIES
    ChronologicalOrder
