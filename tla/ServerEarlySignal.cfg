SPECIFICATION BoundedSpec
CONSTANTS
    p1 = p1
    p2 = p2
    o1 = o1
    o2 = o2
    client = client
    Keys = {client}
    Procs = {p1, p2}
    Objects = {o1, o2}
    NoObject = NoObject
    NoProc = NoProc
    NoLimit = NoLimit
    NoCall = NoCall
    NoAdvice = NoAdvice
    NoHeader = NoHeader
    NotTold = NotTold
    DefaultLimit <- OnePerThree
    LimitArgs <- OtherLimit
    CountArgs <- NoBatches
    Requests <- ClientRequests
    MaxTime = 3
    MaxStale = 0
    Second = 2
VIEW View
INVARIANT SignalIsGraceful
CHECK_DEADLOCK FALSE
