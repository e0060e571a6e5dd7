\* Short command lines, resumed twice, and up to three candidates of any age.
SPECIFICATION ResumeSpec
CONSTANTS
    Paths <- WordNumbers
    Times = {0, 1, 2}
    Runs <- AllRuns
    Launched <- AllLaunches
    Letters = {"a"}
    NumberOf <- WordNumber
    MaxResumes = 2
INVARIANTS
    TraceTypeOK
    LastRequestDecides
    ChoiceIsBest
    ChoiceIsOfThisRun
    ResumeKeepsTrace
    ResumeIsStable
