SPECIFICATION FairSpec
CONSTANTS
    Wallets = {v1}
    Named = {v1}
    Unserved = {v1}
    Sweepers = {s1}
    Explorers = {e1}
    EnsWorkers = {n1}
    JobCap = 1
    NoDoc = NoDoc
    Nobody = Nobody
    MaxFaults = 1
    MaxResets = 1
PROPERTIES
    CacheHonoured
    WalletEnriched
