SPECIFICATION Spec
CONSTANTS
    MAXIMUM_VALUE_DEPTH = 1
    MinTimestampSeconds <- MCMinTimestamp
    MaxTimestampSeconds = 2
    MaxDurationSeconds = 2
    MaxNanoseconds = 1
    RecursionLimit = 100
    Values <- MCSmallValues
    Artifacts = {a1, a2}
    None = None
    MaxAttached = 2
INVARIANTS
    TypeOK
    ValuesSound
    ErrorsWellFormed
    HostErrorKept
    ReferencesStored
