SPECIFICATION FrontendSpec
CONSTANTS
    Users = {ann, bob}
    ProblemIds = {sum, max}
    Default = sum
    None = None
    MaxSubmissions = 1
    MaxFaults = 0
INVARIANT HistoryIsOfShownProblem
