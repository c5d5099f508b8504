CONSTANT
    Requests = {r1}
SPECIFICATION Spec
CHECK_DEADLOCK FALSE
INVARIANT
    GracefullyStopped
