SPECIFICATION FairSpec
CONSTANTS
    num_sp = 4
    BarNums = 8
INVARIANTS
    BootAgrees
PROPERTIES
    IsBarrier
    Progress
