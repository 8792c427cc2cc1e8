CONSTANTS
    Procs <- MCProcs
    Apps <- MCApps
    AppOf <- MCAppOf
    Master <- MCMaster
    Names = {"n"}
    LockType = "generic"
    MaxReaders = 2
    ReadApps = {"A", "B"}
    WriteApps = {"A", "C"}
    MaxCalls = 2

SPECIFICATION FairSpec
INVARIANTS
    TypeOK
    Exclusion
PROPERTIES
    ImplementsRWLock
    WaitListServed
    EventuallyGranted
