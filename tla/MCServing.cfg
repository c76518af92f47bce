SPECIFICATION ServingSpec
CONSTANTS
    c1 = c1
    c2 = c2
    a1 = a1
    a2 = a2
    a3 = a3
    Unit = 256
    Kinds <- MCKinds
    Clients = {c1, c2}
    Owner = c2
    Services <- MCServices
    Statuses <- MCStatuses
    Names <- MCNames
    Card <- MCCard
    Windows <- MCWindows
    MaxRows = 2
    MaxNow = 3
    MaxRevokes = 1
    Conns = {c1, c2}
    QueueCap = 1
    BroadcastCap = 1
    SendCap = 1
    MaxPayloads = 2
    Addrs = {a1}
    Pages = {p1}
    Ttl <- MCTtl
    Burst = 2
    Rate = 1
    IdleTTL = 2
    Slots = {s1, s2}
    MaxTime = 3
    MaxWrites = 2
    MaxHandling = 1
    Uris <- MCUris
    Workers = {w1, w2}
    Answers = {"json", "text", "busy", "refused"}
    MaxTry = 1
    MaxChanges = 1
    MaxMessages = 2
    MaxCancels = 1
    ChainIDs = {c1, c2}
    Late = {c2}
    MaxEvents = 2
    MaxRuns = 2
    Options = {"no-restart-workers"}
    Reviewers = {1, 2}
    Chains = {1, 2}
    Agents = {a1, a2, a3}
    ChainOf <- MCChainOf
    Lists <- MCLists
    Limit = 1
    Stars = 2
    Levels = {0, 1}
    Deltas = {0, 1, 2}
    Cent = 4
    MaxFeedback = 3
    MaxPages = 4
    MaxDisturbs = 2
CHECK_DEADLOCK FALSE
INVARIANTS
    LiveNeverOverstates
    SnapshotsAreHistory
    StreamWithoutGap
    BurstBounded
    PageFresh
    RowIsAnAnswer
    FreshReplay
    PagesLoseNothing
    StarsAreBest
