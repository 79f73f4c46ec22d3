SPECIFICATION Spec
CONSTANTS
    MAXIMUM_VALUE_DEPTH = 33
    MinTimestampSeconds <- MCMinTimestamp
    MaxTimestampSeconds = 2
    MaxDurationSeconds = 2
    MaxNanoseconds = 1
    RecursionLimit = 100
    Values <- MCChains
    Artifacts = {a1}
    None = None
    MaxAttached = 0
INVARIANT ValuesDecodable
