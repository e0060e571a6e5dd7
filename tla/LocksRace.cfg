\* A launch renders the list of runs while an event arrives.
SPECIFICATION LocksSpec
CONSTANTS
    r1 = r1
    r2 = r2
    a = a
    b = b
    c = c
    Runs = {r1, r2}
    Handlers = {a, b, c}
    Works <- AllPairs
INVARIANTS
    SnapshotsDoNotRace
CHECK_DEADLOCK FALSE
