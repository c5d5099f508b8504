CONSTANTS
    a = a
    b = b
    none = none
    IPs = {a, b}
    NoIP = none
    Timeouts = {1, 2}
    MaxAddrs = 2
    Count = 8
    Backlog = 3
    Names = {a, b}
    NoName = none
    TagInfos <- MCTagInfos
    MaxFields = 2
    Deadline = 1
    Tick = 2
    FirstLen = 3
    MaxStack = 9
    Callers = {1, 2}
    GreeterNames = {"gopher"}
    MaxSize = 3
    Procs = {a, b, c}
    NoProc = none
    Width = 2
    Height = 2
    Requests = {r1, r2, r3}
    Keys = {k1, k2}
    MaxEvents = 4
    MaxBreaks = 2
SPECIFICATION Spec
CHECK_DEADLOCK FALSE
INVARIANTS
    TypeOK
    ConnectionsFollowCalls
    MapIsRight
    AnswersAreOwn
    StoreIsWhole
    OutputIsWhole
    StopsInOrder
    MirrorIsSnapshot
PROPERTIES
    ProgramsEnd
    InterruptEnds
    CatchesUp
