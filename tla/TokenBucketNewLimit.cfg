SPECIFICATION Spec
CONSTANTS
    p1 = p1
    p2 = p2
    o1 = o1
    o2 = o2
    Keys = {k1}
    Procs = {p1, p2}
    Objects = {o1, o2}
    NoObject = NoObject
    NoProc = NoProc
    NoLimit = NoLimit
    NoCall = NoCall
    NoAdvice = NoAdvice
    DefaultLimit <- OneInTwo
    LimitArgs <- ChangedLimits
    CountArgs <- NoBatches
    MaxTime = 1
    MaxStale = 1
SYMMETRY Symmetry
INVARIANT NewLimitApplies
