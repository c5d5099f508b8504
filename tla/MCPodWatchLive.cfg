CONSTANTS
    Keys = {k1}
    MaxEvents = 3
    MaxBreaks = 1
    Workers = {w1, w2}
    NoKey = NoKey
SPECIFICATION Spec
CHECK_DEADLOCK FALSE
PROPERTIES
    WorkersSeeTheEnd
