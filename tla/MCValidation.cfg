CONSTANTS
    Checkers <- MCCheckers
    Customs <- MCCustoms
    NoChecker = NoChecker
    Names <- MCNames
    Builtin <- MCBuiltin
    Objects <- MCObjects
    MaxCalls = 2
SPECIFICATION Spec
CHECK_DEADLOCK FALSE
INVARIANTS
    TypeOK
    ErrorsJustified
    FaultsReported
    ErrorsInOrder
    PanicsJustified
PROPERTY
    ValidateReturns
