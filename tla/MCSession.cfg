SPECIFICATION Spec
CONSTANTS
    Sessions = {s1, s2}
    Instances = {i1, i2}
    Empty = Empty
    NoTrace = NoTrace
    MaxU32 = 2
    MaxID = 4
    MaxSent = 5
    MaxJobs = 2
SYMMETRY IdentitySymmetry
INVARIANTS
    TypeOK
    WithinLimits
    CallsAttributable
    HandshakeFirst
