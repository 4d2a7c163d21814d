SPECIFICATION Spec
CONSTANTS
    p1 = p1
    p2 = p2
    o1 = o1
    o2 = o2
    Keys = {k1}
    Procs = {p1, p2}
    Objects = {o1, o2}
    NoObject = NoObject
    NoProc = NoProc
    NoLimit = NoLimit
    NoCall = NoCall
    NoAdvice = NoAdvice
    DefaultLimit <- OnePerOne
    LimitArgs <- NoLimits
    CountArgs <- NoBatches
    MaxTime = 2
    MaxStale = 0
    NoVisit = NoVisit
SYMMETRY Symmetry
INVARIANT KeyWindowBound
