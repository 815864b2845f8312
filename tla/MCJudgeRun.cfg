SPECIFICATION JudgeSpec
CONSTANTS
    ProblemIds = {"sum"}
    DefaultProblems = {"sum"}
    DefaultTests = 2
    Positions = {0, 1, 2}
    MaxTests = 3
    Threads = {1, 2}
    Language <- MCLanguage
    Problem = "sum"
    Expected <- MCExpected
    Oversized = {3}
    Outputs <- MCOutputs
    Failures <- MCFailures
    MaxEdits = 1
    MaxFaults = 1
CONSTRAINT EditOrFaultOrAlone
CHECK_DEADLOCK FALSE
INVARIANTS FailureNeedsACause NothingLeftBehind
PROPERTIES ImplementsContract JudgingEnds
