CONSTANTS
    Keys = {k1, k2}
    Objects = {o1, o2}
    MaxDeltas = 2
    NoKey = NoKey
SPECIFICATION Spec
INVARIANTS
    FifoConsistent
    HasSyncedMeansProcessed
    DeletionsReportedOnce
    HandlersMirrorStore
PROPERTIES
    WatchEventDecides
    ReplaceUsesTheMapOnceDrained
    QueuedIsProcessed
