CONSTANTS
    Checkers <- MCCheckers
    Customs <- MCCustoms
    NoChecker = NoChecker
    Names <- MCNames
    Builtin <- MCBuiltin
    Objects <- PointedObjects
    MaxCalls = 1
SPECIFICATION Spec
CHECK_DEADLOCK FALSE
INVARIANT
    OwnChecksCalled
