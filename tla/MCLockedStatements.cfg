SPECIFICATION LockedFairSpec
CONSTANTS
    None = None
    Connections = {c1, c2}
    Users = {u1}
    Verdicts = {"runtime_error"}
    RuntimeErrors = {"ValueError"}
    MaxActive = 2
    MaxActivePerUser = 2
    MaxRunningPerUser = 1
    MaxRows = 4
INVARIANTS AdmissionLimits RunningLimit InOrderPerUser RetryLineage
PROPERTIES FinishedRowsStay CallsReturn
