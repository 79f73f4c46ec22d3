SPECIFICATION FairSpec
CONSTANTS
    Jobs = {j1, j2}
    NoJob = NoJob
    maximum_concurrent_jobs = 1
    Capacity = 1
    MaxHostMessages = 3
    MaxEmissions = 1
INVARIANTS
    GracefulShutdown
PROPERTIES
    EveryMessageAnswered
    ShutdownEnds
