SPECIFICATION Spec
CONSTANTS
    Jobs = {j1, j2}
    NoJob = NoJob
    maximum_concurrent_jobs = 1
    Capacity = 1
    MaxHostMessages = 4
    MaxEmissions = 0
SYMMETRY JobSymmetry
PROPERTIES
    ContractSpec
