SPECIFICATION SiteSpec
CONSTANTS
    Names = {"admin", "ann"}
    Passwords = {"pA"}
    AdminNames = {"admin"}
    AdminPasswords = {"pA"}
    CopiedNames = {}
    Lifetime = 1
    MaxTime = 1
    MaxCopied = 0
    MaxSessions = 2
    ProblemIds = {"sum"}
    DefaultProblems = {"sum"}
    DefaultTests = 1
    Positions = {0}
    MaxTests = 2
    Clients = {x, y}
    MaxChanges = 4
    MaxFaults = 0
CHECK_DEADLOCK FALSE
INVARIANT NoUnseenOverwrite
