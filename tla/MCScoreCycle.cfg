SPECIFICATION FairSpec
CONSTANTS
    a1 = a1
    a2 = a2
    r1 = r1
    r2 = r2
    w1 = w1
    w2 = w2
    k1 = k1
    k2 = k2
    Order <- MCOrder
    ChainOf <- MCChainOf
    OwnerOf <- MCOwnerOf
    Late = {a1}
    Rows = {r1, r2}
    AgentOf <- MCAgentOf
    ReviewerOf <- MCReviewerOf
    Junk = {r2}
    Wallets = {w1, w2}
    WalletChain <- MCWalletChain
    External = {}
    Ticks = {"tick"}
    PageSize = 1
    Scopes = {k1}
    MaxTriggers = 1
    MaxRevokes = 1
    MaxFaults = 1
PROPERTIES
    NoScoreRegress
    ScoresSettle
