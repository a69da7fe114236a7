SPECIFICATION Spec
CONSTANTS
    Workers = {w1, w2}
    Producers = {p1, p2}
    Loaders = {p2}
    Main = main
    None = None
    Limit = 1
    MaxCallbacks = 3
PROPERTIES ShutdownCompletes
CHECK_DEADLOCK FALSE
