SPECIFICATION StartUpFairSpec
CONSTANTS
    Backends = {b1, b2}
    Versions = 2
    Defaults = {"sum", "max"}
    SourceUsers = {1, 3}
    SourceProblems = {"max", "own"}
    MaxUsers = 5
    MaxFaults = 2
CHECK_DEADLOCK FALSE
INVARIANTS MigratedOnceInOrder TransferIsWhole
PROPERTY StartsComeToAnEnd
