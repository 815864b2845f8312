SPECIFICATION SupervisorFairSpec
CONSTANTS
    WallTimeLimit = 2
    GracePeriod = 2
    OutputLimit = 3
    ReadBuffer = 2
    PipeCapacity = 3
INVARIANTS SupervisorTypeOK OutputAccounted NothingSurvives KillAfterGrace StopIsReported
CHECK_DEADLOCK FALSE
PROPERTY RunEnds
