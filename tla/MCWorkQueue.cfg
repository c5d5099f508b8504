CONSTANTS
    Items = {i1, i2, i3, i4}
    Workers = {w1, w2, w3}
    NoItem = NoItem
    DelayedItems = {a, b}
    OneItem = {a}
    Callers = {p, q}
    OneCaller = {p}
    MaxDelay = 2
    Capacity = 1
SPECIFICATION SpecOfOne
INVARIANTS
    TypeOK
    QueueIsDirtyNotProcessing
    OneWorkerPerItem
    NoIdleWhileBacklog
    NothingAbandoned
    DelaysKept
PROPERTIES
    DirtyIsProcessed
    ShutDownStopsWorkers
    ImplementsWorkSet
    DelaysEnd
