CONSTANTS
    Procs <- MCProcs
    Apps <- MCApps
    AppOf <- MCAppOf
    Master <- MCMaster
    Names = {"n"}
    LockType = "v3"
    MaxReaders = 2
    ReadApps = {"A", "B"}
    WriteApps = {"A", "C"}
    MaxCalls = 2

SPECIFICATION HSpec
INVARIANTS
    ReadAfterWrite
PROPERTIES
    WaitListServed
