SPECIFICATION BoundedFairSpec
CONSTANTS
    p1 = p1
    p2 = p2
    o1 = o1
    o2 = o2
    Keys = {k1}
    Procs = {p1}
    Objects = {o1, o2}
    NoObject = NoObject
    NoProc = NoProc
    NoLimit = NoLimit
    NoCall = NoCall
    NoAdvice = NoAdvice
    DefaultLimit <- TwoPerOne
    LimitArgs <- NoLimits
    CountArgs <- BatchOfTwo
    MaxTime = 2
    MaxStale = 1
    NoVisit = NoVisit
PROPERTIES OldLogsGo CallsReturn
