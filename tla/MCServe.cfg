SPECIFICATION Spec
CONSTANTS
    Jobs = {j1, j2}
    NoJob = NoJob
    maximum_concurrent_jobs = 2
    Capacity = 1
    MaxHostMessages = 5
    MaxEmissions = 0
SYMMETRY JobSymmetry
INVARIANTS
    TypeOK
    SupervisorMatchesJobs
    EndedWhenReported
    AnsweredOnce
    GracefulShutdown
