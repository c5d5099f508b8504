CONSTANTS
    Items = {a, b}
    Callers = {p}
    MaxDelay = 1
    Capacity = 2
SPECIFICATION SpecOfKeenLoop
PROPERTY NoneSitsExpired
