SPECIFICATION Spec
CONSTANTS
    f1 = f1
    f2 = f2
    g1 = g1
    g2 = g2
    r1 = r1
    r2 = r2
    o1 = o1
    o2 = o2
    Feedbacks = {f1, f2}
    RuleCategory <- MCMixed
    NumEvents = 3
    Log <- MCTwoThenRevoked
    BatchSize = 2
    Others = {o1, o2}
    Graders = {g1, g2}
    Replayers = {}
    MaxCopies = 1
    MaxFaults = 1
SYMMETRY WorkerSymmetry
INVARIANTS
    NoLostIncrement
    GradedIsCounted
    NoDoubleCount
