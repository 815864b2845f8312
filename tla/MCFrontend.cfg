SPECIFICATION FrontendFairSpec
CONSTANTS
    Users = {ann, bob}
    ProblemIds = {sum, max}
    Default = sum
    None = None
    MaxSubmissions = 1
    MaxFaults = 1
INVARIANTS ShownProblemIsSelected ProfileIsOfUser
PROPERTY PollsEnd
