SPECIFICATION BoundedSpec
CONSTANTS
    p1 = p1
    p2 = p2
    o1 = o1
    o2 = o2
    Keys = {k1}
    Procs = {p1, p2}
    Objects = {o1, o2}
    NoObject = NoObject
    NoProc = NoProc
    NoLimit = NoLimit
    NoCall = NoCall
    NoAdvice = NoAdvice
    DefaultLimit <- OnePerTwo
    LimitArgs <- OtherLimits
    CountArgs <- Batches
    MaxTime = 2
    MaxStale = 1
VIEW View
SYMMETRY Symmetry
INVARIANTS TypeOK QuotaHeld BurstBound
PROPERTIES CountsPerKey RetryPromise
