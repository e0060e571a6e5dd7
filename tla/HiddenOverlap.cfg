\* A hide and an unhide of the same run overlap, then the monitor restarts.
SPECIFICATION HiddenSpec
CONSTANTS
    MaxRun = 1
    Times = {1}
    Requests = {q1, q2}
    MaxRequests = 2
    MaxUpdates = 1
    MaxRestarts = 1
PROPERTIES
    HiddenRunsStayHidden
CHECK_DEADLOCK FALSE
