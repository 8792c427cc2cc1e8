CONSTANTS
    Servers <- MCServers
    Procs <- MCProcs
    Apps <- MCApps
    AppOf <- MCAppOf
    Master <- MCMaster
    Cells <- MCCells
    Names = {"v"}
    Workloads <- MCTwoServers
    MaxVersions = 2

SPECIFICATION Spec

INVARIANTS
    SyncedPutIsVisible
