SPECIFICATION Spec
CONSTANTS
    Jobs = {j1, j2}
    NoJob = NoJob
    maximum_concurrent_jobs = 1
    Capacity = 2
    MaxHostMessages = 2
    MaxEmissions = 1
INVARIANTS
    NothingAfterUpdate
