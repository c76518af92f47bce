SPECIFICATION FairSpec
CONSTANTS
    k1 = k1
    k2 = k2
    m1 = m1
    m2 = m2
    m3 = m3
    Keys = {k1, k2}
    Messages = {m1, m2, m3}
    KeyOf <- MCKeyOf
    Malformed = {m2}
    Workers = {w1, w2}
    BufSize = 1
    Prefetch = 2
    None = None
    MaxFaults = 1
CHECK_DEADLOCK FALSE
INVARIANTS
    NoSendAfterClose
PROPERTIES
    QueueSpec
    ShutdownCompletes
