SPECIFICATION ProcSpec
CONSTANTS
    a1 = a1
    a2 = a2
    o1 = o1
    o2 = o2
    Agents = {a1, a2}
    Addrs = {o1, o2}
    NoAddr = NoAddr
    NoDoc = NoDoc
    NoAgent = NoAgent
    Log <- MCLog
    BatchSize = 3
    MaxFaults = 1
    c1 = c1
    c2 = c2
    f1 = f1
    f2 = f2
    f3 = f3
    Chains = {c1, c2}
    Feedbacks = {f1, f2, f3}
    ChainOf <- MCChainOf
    TierOf <- MCTierOf
    Negative = {f3}
    none = none
    good = good
    speed = speed
    spam = spam
    number = number
    emoji = emoji
    odd = odd
    Tags = {none, good, speed, spam, number, emoji, odd}
    ClassesOf <- MCClassesOf
    Tag1 = good
    Tag2 = none
    MinSamples = 1
    NoScale = NoScale
    NoEntry = NoEntry
    NoFb = NoFb
    MaxScaleFaults = 1
    TagPairs <- MCTagPairs
    Amounts <- MCAmounts
    Detected = {"", "star5", "unbounded"}
    Desks = {c1, c2}
    MaxStores = 2
    MaxAsked = 2
    WordLen = 2
    AddressLen = 1
    MaxInt = 7
    RawLogs <- MCRawLogs
    Keys <- MCKeys
    Values <- MCValues
CHECK_DEADLOCK FALSE
INVARIANTS
    OneWallet
    OwnerNotBehind
    SelfCaught
    
    SlicesInBounds
    OnlyJudgmentsScore
PROPERTIES
    OwnershipSettles
