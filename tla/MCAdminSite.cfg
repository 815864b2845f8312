SPECIFICATION SiteSpec
CONSTANTS
    Names = {"admin", "ann"}
    Passwords = {"p1", "p2"}
    AdminNames = {"admin", "ann"}
    AdminPasswords = {"p1", "p2"}
    CopiedNames = {"admin"}
    Lifetime = 1
    MaxTime = 1
    MaxCopied = 1
    MaxSessions = 2
    ProblemIds = {"sum"}
    DefaultProblems = {"sum"}
    DefaultTests = 1
    Positions = {0}
    MaxTests = 2
    Clients = {x, y}
    MaxChanges = 3
    MaxFaults = 1
SYMMETRY Browsers
CONSTRAINT AccountsOrEdits
CHECK_DEADLOCK FALSE
INVARIANTS SiteTypeOK EditsReplaceWhatWasLoaded AuditMatchesChanges SessionsProved
