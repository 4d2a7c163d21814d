SPECIFICATION Spec
CONSTANTS
    p1 = p1
    p2 = p2
    x1 = x1
    x2 = x2
    x3 = x3
    n1 = n1
    n2 = n2
    Keys = {k1}
    Procs = {p1, p2}
    Nonces = {x1, x2, x3}
    Nodes = {n1}
    NodeOf <- OneNode
    NoCall = NoCall
    NoReset = NoReset
    NoAdvice = NoAdvice
    DefaultLimit <- OnePerTwo
    LimitArgs <- NoLimits
    CountArgs <- NoBatches
    MaxTries = 2
    MaxTime = 1
    MaxStale = 0
    Skew = 0
SYMMETRY Symmetry
PROPERTY RejectedConsumesNothing
