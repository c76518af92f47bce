SPECIFICATION FairSpec
CONSTANTS
    f1 = f1
    f2 = f2
    g1 = g1
    g2 = g2
    r1 = r1
    r2 = r2
    o1 = o1
    o2 = o2
    Feedbacks = {f2}
    RuleCategory <- MCOthers
    NumEvents = 1
    Log <- MCOneOther
    BatchSize = 2
    Others = {o1}
    Graders = {g1}
    Replayers = {r1}
    MaxCopies = 1
    MaxFaults = 1
PROPERTIES
    OthersAnswered
    DriftHealed
