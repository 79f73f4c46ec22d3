SPECIFICATION FairSpec
CONSTANT MaxBytes = 2
INVARIANTS
    ReadNeverBlocks
    ReportsTrue
PROPERTIES
    ParentNoticed
    DropReturns
