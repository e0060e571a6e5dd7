\* One launch whose completion imports a trace file that is being written.
SPECIFICATION ImportSpec
CONSTANTS
    Ids = {"s1"}
    Names = {"angry_bell"}
    Launches <- OneLaunch
    TaskIds = {"1", "12"}
    Statuses = {"", "COMPLETED", "CACHED"}
    Times = {1}
    Traces <- NoFile
    MaxAttempts = 1
    IdCells = {"1", "12"}
    Numbers = {"9", "9s"}
    Matches <- Directories
    Files <- TraceFiles
    TornOf <- Torn
PROPERTIES
    LiveTasksSurviveImport
    ImportCountsAddUp
    ImportsTheFileOrNothing
