SPECIFICATION FairSpec
CONSTANTS
    c1 = c1
    c2 = c2
    t1 = t1
    t2 = t2
    Callers = {c1, c2}
    Traces = {t1, t2}
    TraceOf <- MCTraceOf
    Capacity = 1
    MaxMessageId = 3
INVARIANTS
    TypeOK
    EnvelopesInOrder
    PendingExact
    FailsOnlyIfFaulty
PROPERTIES
    RequestsSpec
    CallsReturn
