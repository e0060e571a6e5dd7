\* Two runs of two processes, one of them in the DAG; a page holds two tasks.
SPECIFICATION PanelSpec
CONSTANTS
    TaskIds = {1, 2, 3, 4}
    Processes = {"ALIGN", "SORT"}
    ProcessOf <- SmallProcessOf
    NameOf <- SmallNameOf
    DagNodes <- OneNode
    PerPage = 2
    Runs = {"r1", "r2"}
    Queries <- OneQuery
    FirstTasks <- TwoRuns
    Reports = {"FAILED"}
    MaxUpdates = 1
    MaxGestures = 3
INVARIANTS
    PanelTypeOK
    PagesListEveryTaskOnce
    ViewsAgree
    PanelShowsWhatWasAsked
PROPERTY PanelCatchesUp
CHECK_DEADLOCK FALSE
