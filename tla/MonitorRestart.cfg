\* Handlers of two sessions interleave and the process crashes anywhere.
SPECIFICATION MonitorSpec
CONSTANTS
    Ids = {"s1", "s2"}
    Names = {"angry_bell", "big_wozniak", "calm_curie"}
    Launches <- AllLaunches
    TaskIds = {1}
    Statuses = {"RUNNING"}
    Times = {1}
    Traces <- SomeTraces
    TraceOf <- TraceFiles
    MaxAttempts = 3
    Posts <- SomePosts
    Dags <- WithDAG
    SerialSessions = TRUE
    MaxEvents = 4
    MaxCrashes = 1
INVARIANTS
    RestartRestoresRuns
    RestartForgetsNothing
    LayoutsBelongToTheirLaunch
CHECK_DEADLOCK FALSE
