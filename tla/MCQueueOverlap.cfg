SPECIFICATION Spec
CONSTANTS
    u1 = u1
    u2 = u2
    w1 = w1
    w2 = w2
    i1 = i1
    i2 = i2
    Users = {u1}
    Verdicts = {"runtime_error"}
    RuntimeErrors = {"ValueError"}
    MaxActive = 2
    MaxActivePerUser = 2
    MaxRunningPerUser = 1
    MaxRows = 2
    Instances = {i1, i2}
    Workers = {w1, w2}
    PoolOf <- TwoPools
    MaxStarts = 2
    MaxFaults = 0
INVARIANT ExclusiveProcessing
CHECK_DEADLOCK FALSE
