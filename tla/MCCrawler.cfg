SPECIFICATION FairSpec
CONSTANTS
    MaxBlock = 4
    MaxVersion = 2
    LogBlocks = {1, 2, 3}
    StartBlock = 1
    NumRpcs = 2
    BatchSize = 2
    ReorgSafetyBlocks = 1
    ReorgDepth = 1
    MaxFaults = 2
INVARIANTS
    NoLogSkipped
PROPERTIES
    FeedSpec
    ConfirmedLogSent
