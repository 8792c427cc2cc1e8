CONSTANTS
    Servers <- MCServers
    Procs <- MCProcs
    Apps <- MCApps
    AppOf <- MCAppOf
    Master <- MCMaster
    Cells <- MCCells
    Names = {"v"}
    Workloads <- MCWorkloads
    MaxVersions = 2

SPECIFICATION FairSpec
INVARIANTS
    RequestedDataIsHeld
    VisibleInOneDirectory
    NoStaleData
    TablesAgree
    MetaIsNext
PROPERTIES
    CallsReturn
