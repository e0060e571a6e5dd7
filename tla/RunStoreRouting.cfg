\* Two attempts of one session, events in any order, lost or repeated.
SPECIFICATION Spec
CONSTANTS
    Ids = {"s1"}
    Names = {"angry_bell", "big_wozniak"}
    Launches <- ResumedSession
    TaskIds = {1}
    Statuses = {"RUNNING"}
    Times = {1}
    Traces <- OneTrace
    MaxAttempts = 2
INVARIANTS
    TypeOK
    RoutesResolve
    EventsReachTheirLaunch
    LaunchesHaveTheirOwnRun
PROPERTIES
    ImplementsAttemptLog
    AttemptsAreNotReopened
