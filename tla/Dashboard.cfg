\* Two handlers that may overlap, two runs, and a browser that comes and goes
\* and selects runs.
SPECIFICATION DashboardSpec
CONSTANTS
    Runs = {"a", "b"}
    Publishers = {p1, p2}
    Clients = {c1}
    Capacity = 1
    Replayed <- MCReplayed
    MaxVersion = 3
    MaxHides = 2
    MaxConnects = 2
    MaxActs = 2
INVARIANT
    SettledPageIsConsistent
PROPERTIES
    SelectionIsKept
    DashboardCatchesUp
    EveryPageShowsARun
CHECK_DEADLOCK FALSE
