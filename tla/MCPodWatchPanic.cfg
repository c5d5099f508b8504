CONSTANTS
    Keys = {k1}
    MaxEvents = 2
    MaxBreaks = 1
    Workers = {w1}
    NoKey = NoKey
SPECIFICATION Spec
CHECK_DEADLOCK FALSE
INVARIANTS
    HandlersDoNotPanic
