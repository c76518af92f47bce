SPECIFICATION ScaleSpec
CONSTANTS
    c1 = c1
    c2 = c2
    f1 = f1
    f2 = f2
    f3 = f3
    Chains = {c1, c2}
    Feedbacks = {f1, f2, f3}
    ChainOf <- MCChainOf
    TierOf <- MCTierOf
    Negative = {f3}
    quality = quality
    none = none
    Tags = {quality, none}
    ClassesOf <- MCClassesOf
    Tag1 = quality
    Tag2 = none
    MinSamples = 1
    NoScale = NoScale
    NoEntry = NoEntry
    NoFb = NoFb
    MaxScaleFaults = 1
CHECK_DEADLOCK FALSE
INVARIANTS
    RowsConverge
