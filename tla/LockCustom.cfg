CONSTANTS
    Procs <- MCProcs
    Apps <- MCApps
    AppOf <- MCAppOf
    Master <- MCMaster
    Names = {"n"}
    LockType = "custom"
    MaxReaders = 2
    ReadApps = {"A", "B"}
    WriteApps = {"C"}
    MaxCalls = 3

SPECIFICATION WorkflowSpec
INVARIANTS
    RoundsInStep
PROPERTIES
    EventuallyGranted
