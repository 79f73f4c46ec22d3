SPECIFICATION FairSpec
CONSTANTS
    Waiters = {w1, w2}
    Cancellers = {c1, c2}
    Finishers = {f1}
INVARIANTS
    NoLostWakeup
PROPERTIES
    FirstDecides
    WaitersReleased
