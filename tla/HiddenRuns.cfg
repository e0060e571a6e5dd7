\* Overlapping hide and unhide requests and events on two runs, failed writes, a restart.
SPECIFICATION HiddenSpec
CONSTANTS
    MaxRun = 2
    Times = {0, 1}
    Requests = {q1, q2}
    MaxRequests = 4
    MaxUpdates = 2
    MaxRestarts = 1
INVARIANTS
    AnsweredRequestsLast
    SettledSelectorIsVisible
CHECK_DEADLOCK FALSE
