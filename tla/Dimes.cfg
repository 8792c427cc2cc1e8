SPECIFICATION Spec
CONSTANTS
    None = None
    Clients <- MCClients
    Readers = {1}
    NodeOf <- MCNodeOf
    Servers <- MCServers
    Region <- MCRegion
    ResetBy <- MCResetBy
    Groups = {"g", "h"}
    DefaultGroup = "g"
    MaxVersions = 1
    SegSize = 10
    MaxReads = 2
    SizeT = 1000
    Workloads <- MCWorkloads
INVARIANTS
    MemoryIntact
    Accounting
    GetSound
    
    GetFresh
PROPERTIES
    GetReturns
CHECK_DEADLOCK FALSE
