CONSTANTS
    Checkers <- MCCheckers
    Customs <- MCCustoms
    NoChecker = NoChecker
    Names <- MCNames
    Builtin <- MCBuiltin
    Objects <- EmbeddingObjects
    MaxCalls = 1
SPECIFICATION Spec
CHECK_DEADLOCK FALSE
INVARIANT
    EmbeddedSkipped
