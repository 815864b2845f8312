SPECIFICATION SupervisorAlone
CONSTANTS
    WallTimeLimit = 1
    GracePeriod = 1
    OutputLimit = 1
    ReadBuffer = 2
    PipeCapacity = 2
PROPERTY WallLimitActs
CHECK_DEADLOCK FALSE
