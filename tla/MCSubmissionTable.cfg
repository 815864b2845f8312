SPECIFICATION TableSpec
CONSTANTS
    u1 = u1
    u2 = u2
    Users = {u1, u2}
    Verdicts = {"accepted", "runtime_error"}
    RuntimeErrors = {"ValueError"}
    MaxActive = 3
    MaxActivePerUser = 2
    MaxRunningPerUser = 1
    MaxRows = 4
SYMMETRY Symmetric
INVARIANTS TableTypeOK AdmissionLimits InOrderPerUser RowShape RetryLineage
PROPERTY FinishedRowsStay
