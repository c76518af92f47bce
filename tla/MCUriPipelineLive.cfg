SPECIFICATION FairSpec
CONSTANTS
    NumEvents = 2
    u1 = u1
    u2 = u2
    URIs = {u1, u2}
    NoUri = NoUri
    UriOf <- MCUriOfEach
    Terminal = {"success"}
    Workers = {w1, w2}
    ScanLimit = 1
    RankLimit = 1
    MaxCopies = 1
    MaxFaults = 1
PROPERTIES
    UriResolvedEventually
    BoundedEventProcessed
