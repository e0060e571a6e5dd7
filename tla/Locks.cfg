\* Every pair of requests and a triple.  Handlers end.
SPECIFICATION LocksSpec
CONSTANTS
    r1 = r1
    r2 = r2
    a = a
    b = b
    c = c
    Runs = {r1, r2}
    Handlers = {a, b, c}
    Works <- PairsAndTriple
INVARIANTS
    SharedDataIsGuarded
PROPERTIES
    EveryHandlerEnds
CHECK_DEADLOCK FALSE
